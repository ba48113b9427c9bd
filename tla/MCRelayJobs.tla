----------------------------- MODULE MCRelayJobs -----------------------------
(* Two jobs and three overlapping cycles: c1 and c2 are instances of one
   template (the boot id is the template's) on different machines, c3 is
   another process on the machine of c1.  The first to poll finds no job and
   makes the enrollment READY: any two of the three then meet over the jobs. *)
EXTENDS RelayJobs, TLC

CONSTANTS c1, c2, c3

MCBoot == c1 :> "template" @@ c2 :> "template" @@ c3 :> "other"
MCHost == c1 :> "h1" @@ c2 :> "h2" @@ c3 :> "h1"
=============================================================================

------------------------------- MODULE Threads -------------------------------
(* What the components of one client share: the threads that call it. *)

CONSTANTS
  Callers,  \* threads of the application that use one client
  None      \* no value: Python's None, or nothing yet

ASSUME ThreadsAssumption == None \notin Callers
=============================================================================

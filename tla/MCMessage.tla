----------------------------- MODULE MCMessage ------------------------------
(***************************************************************************)
(* Small instances of Message.tla.                                         *)
(***************************************************************************)
EXTENDS Message, TLC

\* Messages of four systems: numbered together, numbered by event with and
\* without a repeated event, and not numbered.
ManyStreams ==
  {[version |-> 4, events |-> <<"auth_exec", "notify_authorization_judgement", "auth_open">>],
   [version |-> 3, events |-> <<"auth_rename", "auth_rename", "auth_rename">>],
   [version |-> 3, events |-> <<"auth_open", "notify_remote_thread_create", "auth_open">>],
   [version |-> 1, events |-> <<"notify_od_group_add", "auth_exec", "auth_open">>]}

OneStream == {[version |-> 4, events |-> <<"auth_exec", "auth_exec", "auth_exec">>]}

\* Threads are interchangeable.
ThreadSymmetry == Permutations(Threads)
=============================================================================

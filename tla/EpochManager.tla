---------------------------- MODULE EpochManager ----------------------------
(***************************************************************************)
(* The epoch manager the region allocator registers its callbacks with      *)
(* (ra_epochs, sm-alloc.cpp:126).  Its implementation is not part of this   *)
(* repository's sources; it is modelled from the design text: a thread is   *)
(* inside the open epoch from thread_enter to thread_exit, new_epoch closes *)
(* the open epoch and remembers the cookie its epoch_ended callback         *)
(* returned, and a closed epoch is reclaimed, oldest first, once every      *)
(* thread that was inside when it closed has quiesced or left.              *)
(***************************************************************************)
EXTENDS Naturals, Sequences

CONSTANTS
    Threads,     \* the worker threads
    EpochDepth   \* closed epochs that may await reclamation at once

ASSUME EpochDepth \in Nat \ {0}

VARIABLES
    active,      \* threads between thread_enter and thread_exit
    closed       \* closed epochs, oldest first: [cookie, inside]

\* t no longer observes any closed epoch.
Leave(t) == [i \in DOMAIN closed |-> [closed[i] EXCEPT !.inside = @ \ {t}]]

thread_enter(t) ==
    /\ t \notin active
    /\ active' = active \cup {t}
    /\ UNCHANGED closed

thread_quiesce(t) ==
    /\ t \in active
    /\ closed' = Leave(t)
    /\ UNCHANGED active

thread_exit(t) ==
    /\ t \in active
    /\ active' = active \ {t}
    /\ closed' = Leave(t)

new_epoch_possible == Len(closed) < EpochDepth

\* Closes the open epoch; cookie is what epoch_ended returned for it.
new_epoch(cookie) ==
    /\ new_epoch_possible
    /\ closed' = Append(closed, [cookie |-> cookie, inside |-> active])
    /\ UNCHANGED active

Reclaimable == closed # <<>> /\ Head(closed).inside = {}

reclaim ==
    /\ Reclaimable
    /\ closed' = Tail(closed)
    /\ UNCHANGED active

EpochInit ==
    /\ active = {}
    /\ closed = <<>>
=============================================================================

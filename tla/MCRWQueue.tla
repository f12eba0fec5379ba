----------------------------- MODULE MCRWQueue -----------------------------
(***************************************************************************)
(* Small instances of the queue for TLC.  The synthesizers, the image      *)
(* saver and the final output of the mixer use blocking calls and a fixed  *)
(* capacity; the sound cards use calls that do not block, and their        *)
(* consumer changes the capacity (MIXER_PullFromQueueCallback).            *)
(***************************************************************************)
EXTENDS RWQueue

Blocking == [puts |-> {"Enqueue", "BulkEnqueue"}, takes |-> {"Dequeue", "BulkDequeue"},
             capacities |-> {2}]

Device == [puts |-> {"NonblockingEnqueue", "NonblockingBulkEnqueue"},
           takes |-> {"BulkDequeue"}, capacities |-> {1, 3}]

BothUses == {Blocking, Device}
=============================================================================

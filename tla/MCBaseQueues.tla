---------------------------- MODULE MCBaseQueues ----------------------------
(***************************************************************************)
(* The three kinds of base queue.  TYPE in app.ini makes a queue one of     *)
(* them: while one is used the two others are as they were created.         *)
(***************************************************************************)
EXTENDS BaseChannel, BaseRedis, BaseLevelQueueUnique

CONSTANTS x1, x2, x3, x4, p1, p2, p3, r1, m1

ThreeItems == {x1, x2, x3}
FourItems == {x1, x2, x3, x4}
OneProcess == {p1}
TwoProcesses == {p1, p2}
ThreeThreads == {p1, p2, p3}
OnePopper == {r1}
OneRemover == {m1}

QueueInit == ChannelInit /\ Init /\ LevelInit

QueueNext ==
    \/ ChannelNext /\ Init /\ LevelInit /\ UNCHANGED <<vars, levelVars>>
    \/ Next /\ ChannelInit /\ LevelInit /\ UNCHANGED <<channelVars, levelVars>>
    \/ LevelNext /\ ChannelInit /\ Init /\ UNCHANGED <<channelVars, vars>>

QueueSpec == QueueInit /\ [][QueueNext]_<<channelVars, vars, levelVars>>
=============================================================================

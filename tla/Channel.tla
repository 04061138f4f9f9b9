------------------------------ MODULE Channel ------------------------------
(***************************************************************************)
(* What a pipe promises its readers and writers: a bounded first-in        *)
(* first-out queue of bytes.  A write appends a prefix of its data, as     *)
(* long as there is room the longest that fits; a read takes from the      *)
(* front and delivers what it took, a write delivers nothing.              *)
(***************************************************************************)
EXTENDS Naturals, Sequences

CONSTANTS Capacity, Data

VARIABLES queue, delivered

Room == Capacity - Len(queue)

ChannelInit == queue = <<>> /\ delivered = <<>>

Send(data) ==
    /\ data # <<>> /\ Room > 0
    /\ queue' = queue \o SubSeq(data, 1, IF Len(data) < Room THEN Len(data) ELSE Room)
    /\ delivered' = <<>>

Receive ==
    /\ delivered' # <<>>
    /\ queue = delivered' \o queue'

\* Every step moves bytes.
ChannelNext ==
    /\ Len(queue') # Len(queue)
    /\ (\E data \in Data : Send(data)) \/ Receive

ChannelSpec == ChannelInit /\ [][ChannelNext]_<<queue, delivered>>

=============================================================================

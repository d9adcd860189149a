---------------------------- MODULE MCJobManager ----------------------------
(* Model values for the TLC runs of JobManager. *)
EXTENDS JobManager

CONSTANTS jb, jr, s1, s2, o1

BackendJob   == {jb}
ReviewJob    == {jr}
NoJob        == {}
OneStream    == {s1}
TwoStreams   == {s1, s2}
Snapshots    == {o1}
Nobody       == {}
NoTarget     == [o \in Nobody |-> jb]
ToBackend2   == [c \in TwoStreams |-> jb]
ToReview1    == [c \in OneStream |-> jr]
ToReview2    == [c \in TwoStreams |-> jr]
ReviewTarget  == [o \in Snapshots |-> jr]
NoFaults     == {}
Disconnects  == {"disconnect"}
Unreadable   == {"unreadable"}
AllFaults    == FaultKind
=============================================================================

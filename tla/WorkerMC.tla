------------------------------- MODULE WorkerMC -------------------------------
EXTENDS WorkerRefinement, TLC

CONSTANTS p1, p2, p3, p4, sd1, sc1, sd2, sc2

(* One functor chain, as the director installs it: a classifier and a data *)
(* action share the data state, the control action has its own.            *)
OneKind == [cls1 |-> "gd_classifier", dat1 |-> "gd_data", ctl1 |-> "gd_control",
            out1 |-> "packet_out"]
OneStateOf == [cls1 |-> sd1, dat1 |-> sd1, ctl1 |-> sc1, out1 |-> 1]
(* simple_path: classifier to data at 0 and to control at 1, data to       *)
(* packet_out at 2, control to data at 0.                                  *)
DataEntries(dat, ctl, out) == 0 :> dat @@ 1 :> ctl @@ 2 :> out
ControlEntries(dat) == 0 :> dat @@ 1 :> dat @@ 2 :> dat
OnePath == sd1 :> DataEntries("dat1", "ctl1", "out1") @@ sc1 :> ControlEntries("dat1")

(* Two chains: the scaling of the graph by two.                            *)
TwoKind == [cls2 |-> "gd_classifier", dat2 |-> "gd_data", ctl2 |-> "gd_control",
            out2 |-> "packet_out"] @@ OneKind
TwoStateOf == [cls2 |-> sd2, dat2 |-> sd2, ctl2 |-> sc2, out2 |-> 5] @@ OneStateOf
TwoPath == sd2 :> DataEntries("dat2", "ctl2", "out2")
           @@ sc2 :> ControlEntries("dat2") @@ OnePath

SplitOne == [cls1 |-> 1, dat1 |-> 1, ctl1 |-> 3, out1 |-> 1]
SplitTwo == [cls2 |-> 5, dat2 |-> 5, ctl2 |-> 3, out2 |-> 5] @@ SplitOne
(* The data action moved over to the control core, with its classifier.    *)
CrossOne == [cls1 |-> 3, dat1 |-> 3, ctl1 |-> 1, out1 |-> 1]

CrossTwo == [cls2 |-> 3, dat2 |-> 3, ctl2 |-> 5, out2 |-> 5] @@ SplitOne

P2 == {p1, p2}
P3 == {p1, p2, p3}
P4 == {p1, p2, p3, p4}
PacketSymmetry == Permutations(Packets)

C2 == {1, 3}
C3 == {1, 3, 5}
OneFirst == {1}
TwoFirst == {1, 5}
B1 == {0}
B2 == {0, 1}
OneHash == [p \in Packets |-> 0]
TwoHash == [p \in Packets |-> IF p = p2 THEN 1 ELSE 0]
OneReta == 0 :> 1
TwoReta == 0 :> 1 @@ 1 :> 5
OneBuckets == [c \in Cores |-> 0 :> "cls1"]
TwoBuckets == [c \in Cores |-> 0 :> "cls1" @@ 1 :> "cls2"]
OneActions == DOMAIN OneKind
TwoActions == DOMAIN TwoKind
OneStates == {sd1, sc1}
TwoStates == {sd1, sc1, sd2, sc2}
(* control_frequency 1: every other packet takes the control path.         *)
Alternate == [s \in States |-> 1]
(* -4: four packets in five do.                                            *)
MostlyControl == [s \in States |-> -4]
(* The first chain alternates, the second goes through control.            *)
Mixed == [s \in States |-> IF s = sd2 THEN -4 ELSE 1]
SplitOnly == {SplitOne}
OnePlacements == {SplitOne, CrossOne}
CrossOnly == {CrossTwo}
TwoPlacements == {SplitTwo, CrossTwo}
OneMigrations == {"dat1", "out1"} \X {1, 3}
NoMigrations == {}
===============================================================================

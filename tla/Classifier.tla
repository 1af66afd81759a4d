------------------------------ MODULE Classifier ------------------------------
(***************************************************************************)
(* One classifier and the commands that reach into its state while it runs *)
(* (generic_decomposed_classifier, "state control_frequency" and "state    *)
(* create").  The worker is the only one to classify with this state       *)
(* (Worker, StateExclusive), but the thread that serves commands takes no  *)
(* lock: a packet is a step that reads the state and a step that writes    *)
(* it, and a command may come between.  "state control_frequency" leaves   *)
(* the counter where it stands; what that does to the share of control     *)
(* packets is the subject of this module.                                  *)
(***************************************************************************)
EXTENDS GenericDecomposed

CONSTANTS
    Frequencies,        \* what control_frequency may be created with
    Reconfigurations,   \* what "state control_frequency" may set it to
    MaxInt,             \* INT_MAX of the counter
    MaxPackets          \* bound: packets counted since the last command

MinInt == -MaxInt - 1

ASSUME WidthAssumption == MaxInt \in Nat \ {0}
ASSUME FrequencyAssumption ==
    /\ Frequencies \subseteq MinInt..MaxInt
    /\ Reconfigurations \subseteq MinInt..MaxInt
ASSUME BoundAssumption == MaxPackets \in Nat

VARIABLES
    frequency,  \* control_frequency
    counter,
    path,       \* the entry of simple_path the last packet took
    inside,     \* the worker is inside the classifier
    read,       \* the frequency and the counter it has read
    overtaken,  \* a command was served since it read them
    base,       \* counter when the last command took effect
    packets,    \* packets since then
    control     \* those of them that took control

classifierVars == <<frequency, counter, path, inside, read, overtaken, base, packets, control>>

(* The values of an int.                                                   *)
CInt == MinInt..MaxInt

(* The counter stays an int, and no more packets take control than came.   *)
ClassifierTypeOK ==
    /\ frequency \in CInt
    /\ counter \in CInt
    /\ path \in {DataPath, ControlPath}
    /\ inside \in BOOLEAN
    /\ read \in [frequency : CInt, counter : CInt]
    /\ overtaken \in BOOLEAN
    /\ base \in CInt
    /\ packets \in Nat
    /\ control \in 0..packets

ClassifierInit ==
    /\ frequency \in Frequencies
    /\ counter = 0
    /\ path = DataPath
    /\ inside = FALSE
    /\ read = [frequency |-> frequency, counter |-> 0]
    /\ overtaken = FALSE
    /\ base = 0
    /\ packets = 0
    /\ control = 0

(* Mutant: the counter has no width.                                       *)
Wrap_None(n) == n

(* The counter is an int.  Signed overflow is undefined; this build's      *)
(* increment of a word in memory wraps.                                    *)
Wrap(n) ==
    IF n > MaxInt THEN MinInt
    ELSE IF n < MinInt THEN MaxInt
    ELSE n

(* The classifier reads the state.                                         *)
Enter ==
    /\ ~inside
    /\ packets < MaxPackets
    /\ inside' = TRUE
    /\ read' = [frequency |-> frequency, counter |-> counter]
    /\ overtaken' = FALSE
    /\ UNCHANGED <<frequency, counter, path, base, packets, control>>

(* It names the next entry and writes the counter back, unless the         *)
(* frequency is 0.  A packet a command overtook was decided before the     *)
(* command; what it leaves in the counter is where the command starts.     *)
Classify ==
    /\ inside
    /\ inside' = FALSE
    /\ path' = ClassifierPath(read.frequency, read.counter)
    /\ counter' = IF read.frequency = 0 THEN counter
                  ELSE Wrap(ClassifierCounter(read.frequency, read.counter))
    /\ IF overtaken
       THEN /\ base' = counter'
            /\ UNCHANGED <<packets, control>>
       ELSE /\ packets' = packets + 1
            /\ control' = control + (IF path' = ControlPath THEN 1 ELSE 0)
            /\ UNCHANGED base
    /\ overtaken' = FALSE
    /\ UNCHANGED <<frequency, read>>

(* The counts start again with a command.                                  *)
NewEpoch ==
    /\ base' = counter'
    /\ packets' = 0
    /\ control' = 0
    /\ overtaken' = inside
    /\ UNCHANGED <<path, inside, read>>

(* "state control_frequency": the counter keeps its value.                 *)
SetFrequency(f) ==
    /\ frequency' = f
    /\ UNCHANGED counter
    /\ NewEpoch

(* "state create" on a state that is in use: state_update.  A packet it    *)
(* overtakes writes over the reset.                                        *)
UpdateState(f) ==
    /\ frequency' = f
    /\ counter' = 0
    /\ NewEpoch

ClassifierNext ==
    \/ Enter
    \/ Classify
    \/ \E f \in Reconfigurations : SetFrequency(f) \/ UpdateState(f)

ClassifierSpec == ClassifierInit /\ [][ClassifierNext]_classifierVars

-----------------------------------------------------------------------------

(* n packets hold k whole periods of length l.                             *)
Periods(k, n, l) == k * l <= n /\ n < (k + 1) * l

(* The share of control packets is the one the director computes with      *)
(* (freq_to_prob): a frequency f > 0 sends one packet in f + 1 through     *)
(* control, f < 0 all but one in 1 - f, and a command that lands within a  *)
(* period shifts the schedule by the part of it already counted, no more.  *)
ShareKept ==
    /\ frequency = 0 => control = 0
    /\ frequency > 0 /\ base \in 0..frequency =>
          Periods(control, packets + base, frequency + 1)
    /\ frequency < 0 /\ base \in frequency..0 =>
          Periods(packets - control, packets - base, 1 - frequency)

(* A command that puts the frequency between 0 and the counter breaks the  *)
(* schedule: the classifier tests for equality, so the path that was to be *)
(* interrupted is taken until the counter has overflowed and come round.   *)
StuckUntilOverflow ==
    LET round == 2 * (MaxInt + 1) IN
    /\ frequency > 0 /\ base > frequency /\ packets <= round - (base - frequency) =>
          control = 0
    /\ frequency < 0 /\ base < frequency /\ packets <= round - (frequency - base) =>
          control = packets

Mono == INSTANCE GenericMono WITH frequency_control <- frequency,
                                  current <- counter,
                                  control <- (path = ControlPath)

(* The counter is within the period of the frequency.                      *)
OnSchedule == frequency = 0 \/ counter \in 0..frequency \/ counter \in frequency..0

(* Whatever commands came before, a packet that meets the counter within   *)
(* its period and that no command overtakes is a packet of the monolithic  *)
(* function: it takes the same way and leaves the same counter, although   *)
(* one tests for equality where the other tests for less-than.             *)
FollowsMono == [][Classify /\ ~overtaken /\ OnSchedule => Mono!Packet]_classifierVars

(* With no command every behaviour is one of the monolithic function.      *)
ImplementsMono == Mono!Spec
=============================================================================

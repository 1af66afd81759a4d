--------------------------- MODULE ClassifierProofs ---------------------------
(***************************************************************************)
(* The schedule of a classifier, for every frequency and every sequence of *)
(* commands: type correctness, the share of control packets, what a        *)
(* command that lands past the frequency does, and the equivalence of the  *)
(* decomposed classifier with the monolithic function.                     *)
(***************************************************************************)
EXTENDS Classifier, TLAPS

(* What the worker holds is what the state holds, until a command comes.   *)
Current ==
    /\ inside /\ ~overtaken => read = [frequency |-> frequency, counter |-> counter]
    /\ overtaken => packets = 0 /\ control = 0

Positive ==
    frequency > 0 /\ base \in 0..frequency =>
        /\ counter \in 0..frequency
        /\ packets + base = control * (frequency + 1) + counter

Negative ==
    frequency < 0 /\ base \in frequency..0 =>
        /\ counter \in frequency..0
        /\ packets - base = (packets - control) * (1 - frequency) - counter

Idle == frequency = 0 => control = 0

(* Past the frequency the counter runs away from it and comes round.       *)
Past ==
    LET round == 2 * (MaxInt + 1) IN
    /\ frequency > 0 /\ base > frequency /\ packets <= round - (base - frequency) =>
          /\ control = 0
          /\ counter = IF base + packets <= MaxInt THEN base + packets
                       ELSE base + packets - round
    /\ frequency < 0 /\ base < frequency /\ packets <= round - (frequency - base) =>
          /\ control = packets
          /\ counter = IF base - packets >= MinInt THEN base - packets
                       ELSE base - packets + round

IInv == ClassifierTypeOK /\ Current /\ Idle /\ Positive /\ Negative /\ Past

-----------------------------------------------------------------------------

(* The range of a C int and what lies in it.                               *)
LEMMA IntFacts == /\ MaxInt \in Nat \ {0}
                  /\ MinInt = -MaxInt - 1
                  /\ CInt = MinInt..MaxInt
                  /\ Frequencies \subseteq CInt
                  /\ Reconfigurations \subseteq CInt
                  /\ 0 \in CInt
  BY WidthAssumption, FrequencyAssumption DEF MinInt, CInt

(* A wrapped value is in range.                                            *)
LEMMA WrapInInt ==
    ASSUME NEW n \in Int
    PROVE  Wrap(n) \in CInt
  BY IntFacts DEF Wrap

(* A product and its successor.                                            *)
LEMMA NextMultiple ==
    ASSUME NEW a \in Int, NEW b \in Int
    PROVE  (a + 1) * b = a * b + b /\ a * b \in Int
  OBVIOUS

(* The invariant, when the counts have just started again.                 *)
LEMMA FreshEpoch ==
    ASSUME NEW f \in CInt, NEW n \in CInt,
           frequency' = f, counter' = n, base' = n, packets' = 0, control' = 0
    PROVE  Idle' /\ Positive' /\ Negative' /\ Past'
  <1>1. /\ MaxInt \in Int /\ f \in Int /\ n \in Int
        /\ MinInt = -MaxInt - 1 /\ MinInt \in Int
        /\ MinInt <= n /\ n <= MaxInt
    BY IntFacts
  <1>2. Idle' /\ Positive' /\ Negative'
    BY <1>1 DEF Idle, Positive, Negative
  <1>3. Past'
    BY <1>1 DEF Past
  <1> QED
    BY <1>2, <1>3

(* The invariant holds at the start.                                       *)
LEMMA InitIInv == ClassifierInit => IInv
  <1> SUFFICES ASSUME ClassifierInit PROVE IInv
    OBVIOUS
  <1> USE IntFacts DEF ClassifierInit
  <1>1. ClassifierTypeOK
    <2>1. frequency \in CInt /\ counter \in CInt /\ base \in CInt
      OBVIOUS
    <2>2. read \in [frequency : CInt, counter : CInt]
      BY <2>1
    <2>3. path \in {DataPath, ControlPath} /\ packets \in Nat /\ control \in 0..packets
      BY DEF DataPath, ControlPath
    <2> QED
      BY <2>1, <2>2, <2>3 DEF ClassifierTypeOK
  <1>2. Current
    BY DEF Current
  <1>3. Idle /\ Positive /\ Negative
    BY DEF Idle, Positive, Negative
  <1>4. Past
    BY DEF Past
  <1> QED
    BY <1>1, <1>2, <1>3, <1>4 DEF IInv

(* Entering the function changes no count.                                 *)
LEMMA EnterIInv == IInv /\ Enter => IInv'
  <1> SUFFICES ASSUME IInv, Enter PROVE IInv'
    OBVIOUS
  <1> USE DEF IInv, Enter
  <1>1. ClassifierTypeOK'
    BY DEF ClassifierTypeOK
  <1>2. Current'
    BY DEF Current
  <1>3. Idle' /\ Positive' /\ Negative'
    BY DEF Idle, Positive, Negative
  <1>4. Past'
    BY DEF Past
  <1> QED
    BY <1>1, <1>2, <1>3, <1>4

(* A new frequency starts the counts again.                                *)
LEMMA CommandIInv ==
    ASSUME IInv, NEW f \in Reconfigurations, SetFrequency(f) \/ UpdateState(f)
    PROVE  IInv'
  <1>1. PICK n \in {counter, 0} :
           /\ frequency' = f /\ counter' = n
           /\ base' = n /\ packets' = 0 /\ control' = 0
           /\ overtaken' = inside
           /\ UNCHANGED <<path, inside, read>>
    BY DEF SetFrequency, UpdateState, NewEpoch
  <1>2. f \in CInt /\ n \in CInt
    BY <1>1, IntFacts DEF IInv, ClassifierTypeOK
  <1>3. ClassifierTypeOK'
    BY <1>1, <1>2 DEF IInv, ClassifierTypeOK
  <1>4. Current'
    BY <1>1 DEF Current
  <1> QED
    BY <1>1, <1>2, <1>3, <1>4, FreshEpoch DEF IInv

(* A packet decided before a command leaves a fresh epoch.                 *)
LEMMA OvertakenIInv ==
    ASSUME IInv, Classify, overtaken,
           counter' \in CInt
    PROVE  Idle' /\ Positive' /\ Negative' /\ Past'
  <1>1. PICK n \in CInt : counter' = n
    OBVIOUS
  <1>2. base' = n /\ packets' = 0 /\ control' = 0
    BY <1>1 DEF Classify, IInv, Current
  <1>3. PICK f \in CInt : frequency' = f
    BY DEF Classify, IInv, ClassifierTypeOK
  <1> QED
    BY <1>1, <1>2, <1>3, FreshEpoch

(* What a packet no command overtook does to the state.                    *)
LEMMA ClassifyEffect ==
    ASSUME IInv, Classify, ~overtaken
    PROVE  /\ UNCHANGED <<frequency, base>>
           /\ packets' = packets + 1
           /\ frequency = 0 => counter' = counter /\ control' = control
           /\ frequency # 0 /\ counter = frequency => counter' = 0
           /\ frequency > 0 /\ counter = frequency => control' = control + 1
           /\ frequency > 0 /\ counter # frequency =>
                 counter' = Wrap(counter + 1) /\ control' = control
           /\ frequency < 0 /\ counter = frequency => control' = control
           /\ frequency < 0 /\ counter # frequency =>
                 counter' = Wrap(counter - 1) /\ control' = control + 1
  <1>1. read.frequency = frequency /\ read.counter = counter
    BY DEF IInv, Current, Classify
  <1>2. /\ frequency \in Int /\ counter \in Int /\ control \in Int
        /\ MaxInt \in Int /\ MinInt \in Int /\ Wrap(0) = 0
    BY IntFacts DEF IInv, ClassifierTypeOK, Wrap
  <1>3. /\ path' = ClassifierPath(frequency, counter)
        /\ counter' = IF frequency = 0 THEN counter
                      ELSE Wrap(ClassifierCounter(frequency, counter))
        /\ packets' = packets + 1
        /\ control' = control + (IF path' = ControlPath THEN 1 ELSE 0)
        /\ UNCHANGED <<frequency, base>>
    BY <1>1 DEF Classify
  <1>4. /\ frequency = 0 => counter' = counter
        /\ frequency # 0 /\ counter = frequency => counter' = 0
        /\ frequency > 0 /\ counter # frequency => counter' = Wrap(counter + 1)
        /\ frequency < 0 /\ counter # frequency => counter' = Wrap(counter - 1)
    BY <1>2, <1>3 DEF ClassifierCounter
  <1> DEFINE due == \/ frequency > 0 /\ counter = frequency
                    \/ frequency < 0 /\ counter # frequency
  <1>5. control' = IF due THEN control + 1 ELSE control
    <2>1. CASE due
      <3>1. ClassifierPath(frequency, counter) = ControlPath
        BY <1>2, <2>1 DEF ClassifierPath
      <3> QED
        BY <1>3, <2>1, <3>1
    <2>2. CASE ~due
      <3>1. ClassifierPath(frequency, counter) = DataPath
        BY <1>2, <2>2 DEF ClassifierPath
      <3>2. path' # ControlPath
        BY <1>3, <3>1 DEF DataPath, ControlPath
      <3>3. control' = control + 0
        BY <1>3, <3>2
      <3> QED
        BY <1>2, <2>2, <3>3
    <2> QED
      BY <2>1, <2>2
  <1>6. /\ frequency = 0 => control' = control
        /\ frequency > 0 /\ counter = frequency => control' = control + 1
        /\ frequency > 0 /\ counter # frequency => control' = control
        /\ frequency < 0 /\ counter = frequency => control' = control
        /\ frequency < 0 /\ counter # frequency => control' = control + 1
    BY <1>2, <1>5
  <1> QED
    BY <1>3, <1>4, <1>6

(* A classification no command overtook counts as scheduled.               *)
LEMMA ScheduledIInv ==
    ASSUME IInv, Classify, ~overtaken
    PROVE  Idle' /\ Positive' /\ Negative' /\ Past'
  <1>1. /\ frequency \in Int /\ counter \in Int /\ control \in Int
        /\ packets \in Int /\ base \in Int /\ MaxInt \in Int
        /\ MinInt = -MaxInt - 1 /\ MaxInt >= 1
        /\ MinInt <= counter /\ counter <= MaxInt
        /\ MinInt <= frequency /\ frequency <= MaxInt
        /\ MinInt <= base /\ base <= MaxInt /\ packets >= 0
    BY IntFacts DEF IInv, ClassifierTypeOK
  <1>2. Idle'
    BY ClassifyEffect DEF Idle, IInv
  <1>3. Positive'
    <2> SUFFICES ASSUME frequency > 0, base \in 0..frequency
                 PROVE  /\ counter' \in 0..frequency
                        /\ packets' + base = control' * (frequency + 1) + counter'
      BY ClassifyEffect DEF Positive
    <2>1. counter \in 0..frequency /\ packets + base = control * (frequency + 1) + counter
      BY DEF IInv, Positive
    <2>2. CASE counter = frequency
      <3>1. (control + 1) * (frequency + 1) = control * (frequency + 1) + (frequency + 1)
        BY <1>1, NextMultiple
      <3>2. counter' = 0 /\ control' = control + 1 /\ packets' = packets + 1
        BY <2>2, <1>1, ClassifyEffect
      <3>3. control * (frequency + 1) \in Int
        BY <1>1
      <3> QED
        BY <1>1, <2>1, <2>2, <3>1, <3>2, <3>3
    <2>3. CASE counter # frequency
      <3>1. Wrap(counter + 1) = counter + 1
        BY <1>1, <2>1, <2>3 DEF Wrap
      <3>2. counter' = counter + 1 /\ control' = control /\ packets' = packets + 1
        BY <2>3, <3>1, ClassifyEffect
      <3>3. control * (frequency + 1) \in Int
        BY <1>1
      <3> QED
        BY <1>1, <2>1, <2>3, <3>2, <3>3
    <2> QED
      BY <2>2, <2>3
  <1>4. Negative'
    <2> SUFFICES ASSUME frequency < 0, base \in frequency..0
                 PROVE  /\ counter' \in frequency..0
                        /\ packets' - base
                             = (packets' - control') * (1 - frequency) - counter'
      BY ClassifyEffect DEF Negative
    <2>1. /\ counter \in frequency..0
          /\ packets - base = (packets - control) * (1 - frequency) - counter
      BY DEF IInv, Negative
    <2>2. (packets - control) * (1 - frequency) \in Int
      BY <1>1
    <2>3. CASE counter = frequency
      <3>1. counter' = 0 /\ control' = control /\ packets' = packets + 1
        BY <2>3, <1>1, ClassifyEffect
      <3>2. packets' - control' = (packets - control) + 1
        BY <3>1, <1>1
      <3>3. ((packets - control) + 1) * (1 - frequency)
               = (packets - control) * (1 - frequency) + (1 - frequency)
        BY <1>1, NextMultiple
      <3> QED
        BY <1>1, <2>1, <2>2, <2>3, <3>1, <3>2, <3>3
    <2>4. CASE counter # frequency
      <3>1. Wrap(counter - 1) = counter - 1
        BY <1>1, <2>1, <2>4 DEF Wrap
      <3>2. counter' = counter - 1 /\ control' = control + 1 /\ packets' = packets + 1
        BY <2>4, <3>1, <1>1, ClassifyEffect
      <3>3. packets' - control' = packets - control
        BY <3>2, <1>1
      <3> QED
        BY <1>1, <2>1, <2>2, <2>4, <3>2, <3>3
    <2> QED
      BY <2>3, <2>4
  <1>5. Past'
    <2> DEFINE round == 2 * (MaxInt + 1)
    <2>0. round \in Int /\ round = 2 * MaxInt + 2
      BY <1>1
    <2>1. ASSUME frequency > 0, base > frequency, packets + 1 <= round - (base - frequency)
          PROVE  /\ control' = 0
                 /\ counter' = IF base + (packets + 1) <= MaxInt THEN base + (packets + 1)
                               ELSE base + (packets + 1) - round
      <3>1. /\ control = 0
            /\ counter = IF base + packets <= MaxInt THEN base + packets
                         ELSE base + packets - round
        BY <1>1, <2>0, <2>1 DEF IInv, Past
      <3>2. counter # frequency
        BY <1>1, <2>0, <2>1, <3>1
      <3>3. Wrap(counter + 1) = IF base + (packets + 1) <= MaxInt THEN base + (packets + 1)
                                ELSE base + (packets + 1) - round
        BY <1>1, <2>0, <2>1, <3>1 DEF Wrap
      <3> QED
        BY <2>1, <3>1, <3>2, <3>3, ClassifyEffect
    <2>2. ASSUME frequency < 0, base < frequency, packets + 1 <= round - (frequency - base)
          PROVE  /\ control' = packets + 1
                 /\ counter' = IF base - (packets + 1) >= MinInt THEN base - (packets + 1)
                               ELSE base - (packets + 1) + round
      <3>1. /\ control = packets
            /\ counter = IF base - packets >= MinInt THEN base - packets
                         ELSE base - packets + round
        BY <1>1, <2>0, <2>2 DEF IInv, Past
      <3>2. counter # frequency
        BY <1>1, <2>0, <2>2, <3>1
      <3>3. Wrap(counter - 1) = IF base - (packets + 1) >= MinInt THEN base - (packets + 1)
                                ELSE base - (packets + 1) + round
        BY <1>1, <2>0, <2>2, <3>1 DEF Wrap
      <3> QED
        BY <2>2, <3>1, <3>2, <3>3, ClassifyEffect
    <2>3. packets' = packets + 1 /\ UNCHANGED <<frequency, base>>
      BY ClassifyEffect
    <2> SUFFICES
           /\ frequency > 0 /\ base > frequency /\ packets + 1 <= round - (base - frequency) =>
                 /\ control' = 0
                 /\ counter' = IF base + (packets + 1) <= MaxInt THEN base + (packets + 1)
                               ELSE base + (packets + 1) - round
           /\ frequency < 0 /\ base < frequency /\ packets + 1 <= round - (frequency - base) =>
                 /\ control' = packets + 1
                 /\ counter' = IF base - (packets + 1) >= MinInt THEN base - (packets + 1)
                               ELSE base - (packets + 1) + round
      BY <2>3 DEF Past
    <2> HIDE DEF round
    <2> QED
      BY <2>1, <2>2
  <1> QED
    BY <1>2, <1>3, <1>4, <1>5

(* Every classification keeps the invariant.                               *)
LEMMA ClassifyIInv == IInv /\ Classify => IInv'
  <1> SUFFICES ASSUME IInv, Classify PROVE IInv'
    OBVIOUS
  <1>1. counter' \in CInt
    <2>1. /\ counter \in CInt /\ read.counter \in Int
          /\ read.frequency \in Int /\ read \in [frequency : CInt, counter : CInt]
      BY IntFacts DEF IInv, ClassifierTypeOK
    <2>2. ClassifierCounter(read.frequency, read.counter) \in Int
      BY <2>1 DEF ClassifierCounter
    <2> QED
      BY <2>1, <2>2, WrapInInt DEF Classify
  <1>2. ClassifierTypeOK'
    <2>1. path' \in {DataPath, ControlPath}
      BY DEF Classify, ClassifierPath
    <2>2. base' \in CInt
      BY <1>1 DEF Classify, IInv, ClassifierTypeOK
    <2>3. packets' \in Nat /\ control' \in 0..packets'
      BY DEF Classify, IInv, ClassifierTypeOK
    <2> QED
      BY <1>1, <2>1, <2>2, <2>3 DEF Classify, IInv, ClassifierTypeOK
  <1>3. Current'
    BY DEF Classify, Current
  <1> QED
    BY <1>1, <1>2, <1>3, OvertakenIInv, ScheduledIInv DEF IInv

-----------------------------------------------------------------------------

(* The inductive invariant holds of every behaviour, with commands between *)
(* any two steps of the classifier.                                        *)
THEOREM ClassifierInvariant == ClassifierSpec => []IInv
  <1>1. IInv /\ [ClassifierNext]_classifierVars => IInv'
    <2> SUFFICES ASSUME IInv, [ClassifierNext]_classifierVars PROVE IInv'
      OBVIOUS
    <2>1. CASE Enter
      BY <2>1, EnterIInv
    <2>2. CASE Classify
      BY <2>2, ClassifyIInv
    <2>3. CASE \E f \in Reconfigurations : SetFrequency(f) \/ UpdateState(f)
      BY <2>3, CommandIInv
    <2>4. CASE UNCHANGED classifierVars
      BY <2>4 DEF classifierVars, IInv, ClassifierTypeOK, Current, Idle, Positive, Negative, Past
    <2> QED
      BY <2>1, <2>2, <2>3, <2>4 DEF ClassifierNext
  <1> QED
    BY <1>1, InitIInv, PTL DEF ClassifierSpec

(* The state of a classifier keeps its types: the counter never leaves the *)
(* range of an int, whatever the commands.                                 *)
THEOREM ClassifierTypeCorrect == ClassifierSpec => []ClassifierTypeOK
  <1>1. IInv => ClassifierTypeOK
    BY DEF IInv
  <1> QED
    BY <1>1, ClassifierInvariant, PTL

(* For every frequency and every sequence of commands, the share of        *)
(* control packets is the one freq_to_prob names, as long as no command    *)
(* lands past the frequency it sets.                                       *)
THEOREM SharesKept == ClassifierSpec => []ShareKept
  <1>1. IInv => ShareKept
    <2> SUFFICES ASSUME IInv PROVE ShareKept
      OBVIOUS
    <2>1. /\ frequency \in Int /\ counter \in Int /\ control \in Int
          /\ packets \in Int /\ base \in Int
      BY IntFacts DEF IInv, ClassifierTypeOK
    <2>2. frequency = 0 => control = 0
      BY DEF IInv, Idle
    <2>3. ASSUME frequency > 0, base \in 0..frequency
          PROVE  Periods(control, packets + base, frequency + 1)
      <3>1. /\ counter \in 0..frequency
            /\ packets + base = control * (frequency + 1) + counter
        BY <2>3 DEF IInv, Positive
      <3>2. /\ (control + 1) * (frequency + 1)
                  = control * (frequency + 1) + (frequency + 1)
            /\ control * (frequency + 1) \in Int
        BY <2>1, NextMultiple
      <3> QED
        BY <2>1, <3>1, <3>2 DEF Periods
    <2>4. ASSUME frequency < 0, base \in frequency..0
          PROVE  Periods(packets - control, packets - base, 1 - frequency)
      <3>1. /\ counter \in frequency..0
            /\ packets - base = (packets - control) * (1 - frequency) - counter
        BY <2>4 DEF IInv, Negative
      <3>2. /\ ((packets - control) + 1) * (1 - frequency)
                  = (packets - control) * (1 - frequency) + (1 - frequency)
            /\ (packets - control) * (1 - frequency) \in Int
        BY <2>1, NextMultiple
      <3> QED
        BY <2>1, <3>1, <3>2 DEF Periods
    <2> QED
      BY <2>2, <2>3, <2>4 DEF ShareKept
  <1> QED
    BY <1>1, ClassifierInvariant, PTL

(* A command that puts the frequency between 0 and the counter starves the *)
(* control path (or the direct path) for the rest of a whole round of the  *)
(* counter: 2^32 packets less the distance, for the int of the code.       *)
THEOREM StarvesUntilOverflow == ClassifierSpec => []StuckUntilOverflow
  <1>1. IInv => StuckUntilOverflow
    BY DEF IInv, Past, StuckUntilOverflow
  <1> QED
    BY <1>1, ClassifierInvariant, PTL

-----------------------------------------------------------------------------

(* A packet that meets the counter within its period.                      *)
LEMMA ClassifyIsPacket ==
    ASSUME IInv, Classify, ~overtaken, OnSchedule
    PROVE  Mono!Packet
  <1>1. read.frequency = frequency /\ read.counter = counter
    BY DEF IInv, Current, Classify
  <1>2. /\ frequency \in Int /\ counter \in Int /\ MaxInt \in Int
        /\ MinInt = -MaxInt - 1
        /\ MinInt <= frequency /\ frequency <= MaxInt
    BY IntFacts DEF IInv, ClassifierTypeOK
  <1>3. /\ frequency > 0 => counter \in 0..frequency
        /\ frequency < 0 => counter \in frequency..0
    BY <1>2 DEF OnSchedule
  <1>4. (ClassifierPath(frequency, counter) = ControlPath)
           <=> Mono!TakesControl(frequency, counter)
    BY <1>2, <1>3 DEF ClassifierPath, ControlPath, DataPath, Mono!TakesControl
  <1>5. counter' = Mono!NextCurrent(frequency, counter)
    <2>1. counter' = IF frequency = 0 THEN counter
                     ELSE Wrap(ClassifierCounter(frequency, counter))
      BY <1>1 DEF Classify
    <2>2. frequency # 0 =>
             Wrap(ClassifierCounter(frequency, counter)) = ClassifierCounter(frequency, counter)
      BY <1>2, <1>3 DEF Wrap, ClassifierCounter
    <2>3. frequency # 0 =>
             ClassifierCounter(frequency, counter) = Mono!NextCurrent(frequency, counter)
      BY <1>2, <1>3 DEF ClassifierCounter, Mono!NextCurrent, Mono!TakesControl
    <2>4. frequency = 0 => counter = Mono!NextCurrent(frequency, counter)
      BY <1>2 DEF Mono!NextCurrent, Mono!TakesControl
    <2> QED
      BY <2>1, <2>2, <2>3, <2>4
  <1>6. path' = ClassifierPath(frequency, counter) /\ UNCHANGED frequency
    BY <1>1 DEF Classify
  <1>7. (path' = ControlPath) = Mono!TakesControl(frequency, counter)
    <2>1. (path' = ControlPath) <=> Mono!TakesControl(frequency, counter)
      BY <1>4, <1>6
    <2>2. Mono!TakesControl(frequency, counter) \in BOOLEAN
      BY DEF Mono!TakesControl
    <2> QED
      BY <2>1, <2>2
  <1> QED
    BY <1>5, <1>6, <1>7 DEF Mono!Packet

(* For every frequency and after every sequence of commands, a packet that *)
(* meets the counter within its period is one of the monolithic function.  *)
THEOREM PacketsFollowMono == ClassifierSpec => FollowsMono
  <1>1. IInv /\ [ClassifierNext]_classifierVars =>
           [Classify /\ ~overtaken /\ OnSchedule => Mono!Packet]_classifierVars
    BY ClassifyIsPacket
  <1> QED
    BY <1>1, ClassifierInvariant, PTL DEF ClassifierSpec, FollowsMono

(* Without commands the decomposed classifier takes the decisions of the   *)
(* monolithic function, for every frequency.                               *)
THEOREM DecomposedIsMono ==
    ASSUME Reconfigurations = {}
    PROVE  ClassifierSpec => ImplementsMono
  <1> DEFINE Undisturbed == IInv /\ base = 0 /\ ~overtaken
  <1>1. ClassifierInit => Undisturbed /\ Mono!Init
    BY InitIInv DEF ClassifierInit, Mono!Init, DataPath, ControlPath
  <1>2. Undisturbed /\ [ClassifierNext]_classifierVars => Undisturbed'
    <2> SUFFICES ASSUME Undisturbed, [ClassifierNext]_classifierVars PROVE Undisturbed'
      OBVIOUS
    <2>1. CASE Enter
      BY <2>1, EnterIInv DEF Enter
    <2>2. CASE Classify
      BY <2>2, ClassifyIInv DEF Classify
    <2>3. CASE UNCHANGED classifierVars
      BY <2>3 DEF classifierVars, IInv, ClassifierTypeOK, Current, Idle, Positive, Negative, Past
    <2> QED
      BY <2>1, <2>2, <2>3 DEF ClassifierNext
  <1>3. Undisturbed /\ [ClassifierNext]_classifierVars => [Mono!Packet]_(Mono!vars)
    <2> SUFFICES ASSUME Undisturbed, [ClassifierNext]_classifierVars
                 PROVE  [Mono!Packet]_(Mono!vars)
      OBVIOUS
    <2>1. CASE Enter
      BY <2>1 DEF Enter, Mono!vars
    <2>2. CASE Classify
      <3>1. /\ frequency \in Int /\ MaxInt \in Int
        BY IntFacts DEF IInv, ClassifierTypeOK
      <3>2. OnSchedule
        BY <3>1 DEF IInv, Positive, Negative, OnSchedule
      <3> QED
        BY <2>2, <3>2, ClassifyIsPacket
    <2>3. CASE UNCHANGED classifierVars
      BY <2>3 DEF classifierVars, Mono!vars
    <2> QED
      BY <2>1, <2>2, <2>3 DEF ClassifierNext
  <1> QED
    BY <1>1, <1>2, <1>3, PTL DEF ClassifierSpec, ImplementsMono, Mono!Spec
===============================================================================

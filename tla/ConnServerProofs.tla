--------------------------- MODULE ConnServerProofs ---------------------------
(***************************************************************************)
(* What TLAPS proves of the command channel, for every number of commands, *)
(* every operator's text and every size of msg_in.                         *)
(*                                                                         *)
(* The argument follows one sequence of bytes, Stream: what is in msg_in,  *)
(* then what the server read from the director and has not looked at, then *)
(* what is on its way.  While nobody interferes it holds whole commands    *)
(* only.  Bytes of the operator spoil its beginning, up to the next        *)
(* newline and never beyond, and each piece read from the operator pays    *)
(* for one such beginning.                                                 *)
(***************************************************************************)
EXTENDS ConnServer, SequenceTheorems, FiniteSetTheorems, TLAPS

(* What the server has not looked at of the director's bytes.              *)
Read == IF event.fd = "director" THEN buf ELSE <<>>
Coming == Read \o up["director"]
Stream == msg_in \o Coming

NoNL(s, a, b) == \A x \in a .. b : s[x] # NL
NLFree(m) == NoNL(m, 1, Len(m))

(* A line of s ends at j and begins after i.                               *)
IsLine(s, i, j) == s[j] = NL /\ NoNL(s, i + 1, j - 1)
IsCommand(s, i, j) ==
    \E n \in 1 .. NCommands :
        /\ j - i - 1 = Length(n)
        /\ \A x \in i + 1 .. j - 1 : s[x] = <<"director", n>>

(* The lines of s are commands: all of them, or all but the first.         *)
Clean(s) ==
    \A j \in 1 .. Len(s), i \in 0 .. Len(s) :
        i < j /\ (i = 0 \/ s[i] = NL) /\ IsLine(s, i, j) => IsCommand(s, i, j)
Rest(s) ==
    \A j \in 1 .. Len(s), i \in 1 .. Len(s) :
        i < j /\ s[i] = NL /\ IsLine(s, i, j) => IsCommand(s, i, j)

(* No MsgInLenMax + 1 bytes of s without a newline.                        *)
Short(s) ==
    \A j \in 1 .. Len(s), i \in 0 .. Len(s) :
        i < j /\ NoNL(s, i + 1, j) => j - i <= MsgInLenMax

Ended(s) == s = <<>> \/ s[Len(s)] = NL

Here == peer["director"] = "here"
Debt(paid) == IF paid /\ (event.fd = "operator" => buf = <<>>) THEN 0 ELSE 1

(* The next command of the director is spoiled, or an operator's piece is  *)
(* being looked at.                                                        *)
Spoiled == Debt(Clean(Stream) /\ Short(Stream) /\ (Here => Ended(Stream)))
(* msg_in may overflow with a byte of the director, and it be told so.     *)
Overflows == IF Here THEN Debt(Short(Stream) /\ Ended(Stream)) ELSE 0

Control ==
    /\ peer["director"] \in {"here", "rst", "broken"} /\ peer["operator"] # "rst"
    /\ NLFree(msg_in)
    /\ pc \in {"poll", "control"} => buf = <<>>
    /\ pc = "byte" => fd[event.fd] = "open"
    /\ event.fd = "director" /\ event.hup => ~Here /\ up["director"] = <<>>
    /\ Alive /\ peer["operator"] = "broken" => fd["operator"] \notin {"none", "pending"}
    /\ peer["director"] = "broken" /\ pc = "byte" /\ event.fd = "director" => event.hup
    /\ dpc = "start" => fd["director"] = "none" /\ down = <<>>
    /\ dpc \in {"start", "hello"} => Here
    /\ Alive /\ fd["director"] = "pending" => dpc = "hello" /\ down = <<>>
    /\ dpc = "wait" => k <= NCommands /\ count = 0
    /\ dpc = "retry" => count < Tries

Lines ==
    /\ Rest(Coming) /\ Short(Coming)
    /\ Here => Ended(Coming)

Waiting == IF dpc \in {"idle", "wait"} /\ down # <<>> THEN 1 ELSE 0

AheadBudget ==
    Alive => k - 1 + Waiting + Overflows <= Cardinality(From("director")) + pieces

(* After a reset the connection is read once more, and msg_in may be left  *)
(* with a line that was handled.                                           *)
Fresh == Here \/ (pc = "byte" /\ event.fd = "director" /\ ~event.hup)
Lost == IF Fresh THEN 0 ELSE 1
TornBudget == Cardinality(Torn) + Spoiled <= pieces + Lost

Account == Lines /\ AheadBudget /\ TornBudget

(* Nothing is under way, or what is left of command k.                     *)
Quiet == Coming = <<>> /\ (Here => msg_in = <<>>)
Unhandled ==
    \/ dpc \in {"start", "hello", "idle", "retry", "raised"} /\ Quiet
       /\ (dpc = "idle" => down = <<>>)
    \/ /\ dpc \in {"wait", "retry", "raised"} /\ k <= NCommands
       /\ dpc = "wait" => down = <<>>
       /\ \E n \in 0 .. Len(Line(k)) :
             Stream = SubSeq(Line(k), 1, n) /\ (Here => n = Len(Line(k)))

Alone ==
    pieces = 0 =>
        /\ \A i \in DOMAIN handled :
              handled[i] = [msg |-> Units(i), fd |-> "director"]
        /\ Len(handled) <= NCommands
        /\ Alive =>
              /\ event.fd = "director"
              /\ fd["operator"] \in {"pending", "open"} => up["operator"] # <<>>
              /\ \/ Len(handled) = k - 1 /\ Unhandled
                 \/ /\ Len(handled) = k /\ k <= NCommands
                    /\ dpc \in {"wait", "retry", "raised"} /\ Quiet

IInv == TypeOK /\ Control /\ Account /\ Alone
-------------------------------------------------------------------------------
(* A newline is none of the director's bytes.                              *)
LEMMA Bytes ==
    /\ NL \in Byte
    /\ \A n \in Nat : <<"director", n>> \in Byte /\ <<"director", n>> # NL
BY DEF NL, Byte, Conns

(* A command and its line are sequences of bytes.                          *)
LEMMA UnitsType ==
    ASSUME NEW n \in 1 .. NCommands
    PROVE  /\ Units(n) \in Seq(Byte) /\ Len(Units(n)) = Length(n)
           /\ \A x \in 1 .. Length(n) : Units(n)[x] = <<"director", n>>
           /\ Line(n) \in Seq(Byte) /\ Len(Line(n)) = Length(n) + 1
           /\ \A x \in 1 .. Length(n) : Line(n)[x] = <<"director", n>>
           /\ Line(n)[Length(n) + 1] = NL
           /\ Length(n) \in 0 .. MsgInLenMax
<1>1. n \in Nat /\ Length(n) \in 0 .. MsgInLenMax /\ MsgInLenMax \in Nat /\ Length(n) \in Nat
  <2>1. \A m \in 1 .. NCommands : Length(m) \in 1 .. MsgInLenMax
    BY ConnAssumption
  <2>2. NCommands \in Nat /\ MsgInLenMax \in Nat
    BY ConnAssumption
  <2> QED
    BY <2>1, <2>2
<1>2. Units(n) \in Seq(Byte) /\ Len(Units(n)) = Length(n)
      /\ \A x \in 1 .. Length(n) : Units(n)[x] = <<"director", n>>
  BY <1>1, Bytes DEF Units
<1>3. QED
  BY <1>1, <1>2, Bytes, AppendProperties DEF Line

(* Looking at one byte takes it from the front of what is coming.          *)
LEMMA FrontOf ==
    ASSUME NEW b \in Seq(Byte), b # <<>>, NEW u \in Seq(Byte)
    PROVE  /\ b \o u \in Seq(Byte) /\ b \o u # <<>>
           /\ Len(b \o u) = Len(b) + Len(u)
           /\ (b \o u)[1] = Head(b)
           /\ Tail(b) \in Seq(Byte)
           /\ Tail(b \o u) = Tail(b) \o u
<1>1. b \o u \in Seq(Byte) /\ Len(b \o u) = Len(b) + Len(u) /\ Len(b) \in Nat \ {0} /\ Len(u) \in Nat
  BY EmptySeq
<1>2. (b \o u)[1] = Head(b) /\ b \o u # <<>>
  BY <1>1
<1>3. Tail(b) \in Seq(Byte) /\ Tail(b \o u) \in Seq(Byte)
  BY <1>1, <1>2
<1>4. Len(Tail(b)) = Len(b) - 1 /\ Len(Tail(b \o u)) = Len(b) + Len(u) - 1
  BY <1>1, <1>2
<1>5. \A i \in 1 .. Len(b) + Len(u) - 1 : Tail(b \o u)[i] = (Tail(b) \o u)[i]
  <2> SUFFICES ASSUME NEW i \in 1 .. Len(b) + Len(u) - 1
               PROVE  Tail(b \o u)[i] = (Tail(b) \o u)[i]
    OBVIOUS
  <2>1. Tail(b \o u)[i] = (b \o u)[i + 1]
    BY <1>1, <1>2, <1>4, HeadTailProperties
  <2>2. CASE i <= Len(b) - 1
    <3>1. (b \o u)[i + 1] = b[i + 1]
      BY <2>2, <1>1
    <3>2. (Tail(b) \o u)[i] = Tail(b)[i]
      BY <2>2, <1>1, <1>3, <1>4
    <3>3. QED
      BY <2>1, <3>1, <3>2, <2>2, <1>4, HeadTailProperties
  <2>3. CASE i > Len(b) - 1
    BY <2>1, <2>3, <1>1, <1>3, <1>4
  <2> QED
    BY <2>2, <2>3, <1>1
<1>6. Tail(b) \o u \in Seq(Byte) /\ Len(Tail(b) \o u) = Len(b) + Len(u) - 1
  BY <1>1, <1>3, <1>4
<1> QED
  BY <1>1, <1>2, <1>3, <1>4, <1>5, <1>6, SeqEqual

(* A byte that is stored stays where it is in the stream.                  *)
LEMMA StoreKeeps ==
    ASSUME NEW m \in Seq(Byte), NEW p \in Seq(Byte), p # <<>>
    PROVE  Append(m, p[1]) \o Tail(p) = m \o p
<1> DEFINE l == Append(m, p[1]) \o Tail(p)
           r == m \o p
<1>1. Len(p) \in Nat \ {0} /\ Len(m) \in Nat /\ p[1] \in Byte
  BY EmptySeq
<1>2. Tail(p) \in Seq(Byte) /\ Len(Tail(p)) = Len(p) - 1
      /\ \A i \in 1 .. Len(p) - 1 : Tail(p)[i] = p[i + 1]
  BY <1>1, HeadTailProperties
<1>3. Append(m, p[1]) \in Seq(Byte) /\ Len(Append(m, p[1])) = Len(m) + 1
      /\ (\A i \in 1 .. Len(m) : Append(m, p[1])[i] = m[i])
      /\ Append(m, p[1])[Len(m) + 1] = p[1]
  BY <1>1, AppendProperties
<1>4. l \in Seq(Byte) /\ Len(l) = Len(m) + Len(p)
      /\ \A i \in 1 .. Len(m) + Len(p) :
            l[i] = IF i <= Len(m) + 1 THEN Append(m, p[1])[i] ELSE Tail(p)[i - (Len(m) + 1)]
  BY <1>1, <1>2, <1>3, ConcatProperties
<1>5. r \in Seq(Byte) /\ Len(r) = Len(m) + Len(p)
      /\ \A i \in 1 .. Len(m) + Len(p) : r[i] = IF i <= Len(m) THEN m[i] ELSE p[i - Len(m)]
  BY ConcatProperties
<1>6. ASSUME NEW i \in 1 .. Len(m) + Len(p)  PROVE l[i] = r[i]
  <2>1. CASE i <= Len(m)
    BY <2>1, <1>1, <1>3, <1>4, <1>5
  <2>2. CASE i = Len(m) + 1
    BY <2>2, <1>1, <1>3, <1>4, <1>5
  <2>3. CASE i > Len(m) + 1
    <3>1. i - (Len(m) + 1) \in 1 .. Len(p) - 1 /\ i - (Len(m) + 1) + 1 = i - Len(m)
      BY <2>3, <1>1
    <3>2. l[i] = p[i - Len(m)]
      BY <3>1, <2>3, <1>1, <1>2, <1>4
    <3> QED
      BY <3>2, <2>3, <1>1, <1>5
  <2> QED
    BY <2>1, <2>2, <2>3, <1>1
<1> HIDE DEF l, r
<1>7. l = r
  BY <1>4, <1>5, <1>6, SeqEqual
<1> QED
  BY <1>7 DEF l, r

(* What is said of all lines after a newline holds of a suffix; a suffix   *)
(* that begins after a newline is clean.                                   *)
LEMMA Suffix ==
    ASSUME NEW p \in Seq(Byte), NEW t \in Seq(Byte), NEW d \in Nat,
           Len(p) = d + Len(t), \A i \in 1 .. Len(t) : t[i] = p[i + d]
    PROVE  /\ Rest(p) => Rest(t)
           /\ Short(p) => Short(t)
           /\ Ended(p) => Ended(t)
           /\ Rest(p) /\ d > 0 /\ p[d] = NL => Clean(t)
<1>0. Len(p) \in Nat /\ Len(t) \in Nat
  OBVIOUS
<1>1. ASSUME NEW i \in Nat, NEW j \in 1 .. Len(t), IsLine(t, i, j), IsLine(p, i + d, j + d) =>
                IsCommand(p, i + d, j + d)
      PROVE  IsCommand(t, i, j)
  <2>1. p[j + d] = NL
    BY <1>0, <1>1 DEF IsLine
  <2>2. NoNL(p, i + d + 1, j + d - 1)
    <3> SUFFICES ASSUME NEW x \in i + d + 1 .. j + d - 1  PROVE p[x] # NL
      BY DEF NoNL
    <3>1. x - d \in i + 1 .. j - 1 /\ x - d \in 1 .. Len(t) /\ (x - d) + d = x
      BY <1>0
    <3> QED
      BY <3>1, <1>1 DEF IsLine, NoNL
  <2>0. IsLine(p, i + d, j + d)
    BY <2>1, <2>2 DEF IsLine
  <2> DEFINE a == i + d
             b == j + d
  <2>6. IsCommand(p, a, b)
    BY <2>0, <1>1
  <2>7. PICK n \in 1 .. NCommands : /\ b - a - 1 = Length(n)
                                    /\ \A x \in a + 1 .. b - 1 : p[x] = <<"director", n>>
    <3> HIDE DEF a, b
    <3> QED
      BY <2>6 DEF IsCommand
  <2>3. /\ (j + d) - (i + d) - 1 = Length(n)
        /\ \A x \in i + d + 1 .. j + d - 1 : p[x] = <<"director", n>>
    BY <2>7
  <2>4. ASSUME NEW x \in i + 1 .. j - 1  PROVE t[x] = <<"director", n>>
    <3>1. x + d \in i + d + 1 .. j + d - 1 /\ x \in 1 .. Len(t)
      BY <1>0
    <3> QED
      BY <3>1, <2>3
  <2>5. j - i - 1 = Length(n)
    BY <2>3, <1>0
  <2> QED
    BY <2>4, <2>5 DEF IsCommand
<1>2. ASSUME Rest(p)  PROVE Rest(t)
  <2> SUFFICES ASSUME NEW j \in 1 .. Len(t), NEW i \in 1 .. Len(t), i < j, t[i] = NL, IsLine(t, i, j)
               PROVE  IsCommand(t, i, j)
    BY DEF Rest
  <2>1. j + d \in 1 .. Len(p) /\ i + d \in 1 .. Len(p) /\ i + d < j + d /\ p[i + d] = NL /\ i \in Nat
    BY <1>0
  <2>2. IsLine(p, i + d, j + d) => IsCommand(p, i + d, j + d)
    BY <2>1, <1>2 DEF Rest
  <2> QED
    BY <2>1, <2>2, <1>1
<1>3. ASSUME Short(p)  PROVE Short(t)
  <2> SUFFICES ASSUME NEW j \in 1 .. Len(t), NEW i \in 0 .. Len(t), i < j, NoNL(t, i + 1, j)
               PROVE  j - i <= MsgInLenMax
    BY DEF Short
  <2>1. NoNL(p, i + d + 1, j + d)
    <3> SUFFICES ASSUME NEW x \in i + d + 1 .. j + d  PROVE p[x] # NL
      BY DEF NoNL
    <3>1. x - d \in i + 1 .. j /\ x - d \in 1 .. Len(t) /\ (x - d) + d = x
      BY <1>0
    <3> QED
      BY <3>1 DEF NoNL
  <2>2. j + d \in 1 .. Len(p) /\ i + d \in 0 .. Len(p) /\ i + d < j + d
    BY <1>0
  <2>3. (j + d) - (i + d) <= MsgInLenMax
    BY <2>1, <2>2, <1>3 DEF Short
  <2> QED
    BY <2>3, <1>0, ConnAssumption
<1>4. ASSUME Ended(p)  PROVE Ended(t)
  <2>1. CASE Len(t) = 0
    BY <2>1 DEF Ended
  <2>2. CASE Len(t) > 0
    <3>1. p # <<>> /\ Len(t) \in 1 .. Len(t) /\ Len(t) + d = Len(p)
      BY <2>2, <1>0
    <3> QED
      BY <3>1, <1>4 DEF Ended
  <2> QED
    BY <2>1, <2>2, <1>0
<1>5. ASSUME Rest(p), d > 0, p[d] = NL  PROVE Clean(t)
  <2> SUFFICES ASSUME NEW j \in 1 .. Len(t), NEW i \in 0 .. Len(t), i < j, i = 0 \/ t[i] = NL,
                      IsLine(t, i, j)
               PROVE  IsCommand(t, i, j)
    BY DEF Clean
  <2>1. p[i + d] = NL
    <3>1. CASE i = 0
      BY <3>1, <1>5
    <3>2. CASE i # 0
      <4>1. i \in 1 .. Len(t) /\ t[i] = NL
        BY <3>2, <1>0
      <4> QED
        BY <4>1
    <3> QED
      BY <3>1, <3>2
  <2>2. j + d \in 1 .. Len(p) /\ i + d \in 1 .. Len(p) /\ i + d < j + d /\ i \in Nat
    BY <1>0, <1>5
  <2>3. IsLine(p, i + d, j + d) => IsCommand(p, i + d, j + d)
    BY <2>1, <2>2, <1>5 DEF Rest
  <2> QED
    BY <2>2, <2>3, <1>1
<1> QED
  BY <1>2, <1>3, <1>4, <1>5

(* All of it but the last newline holds of a prefix.                       *)
LEMMA Prefix ==
    ASSUME NEW p \in Seq(Byte), NEW t \in Seq(Byte), Len(t) <= Len(p),
           \A i \in 1 .. Len(t) : t[i] = p[i]
    PROVE  /\ Rest(p) => Rest(t)
           /\ Clean(p) => Clean(t)
           /\ Short(p) => Short(t)
<1>0. Len(p) \in Nat /\ Len(t) \in Nat
  OBVIOUS
<1>1. ASSUME NEW i \in 0 .. Len(t), NEW j \in 1 .. Len(t), i < j, IsLine(t, i, j)
      PROVE  IsLine(p, i, j) /\ (IsCommand(p, i, j) => IsCommand(t, i, j))
  <2>1. p[j] = NL
    BY <1>1 DEF IsLine
  <2>2. ASSUME NEW x \in i + 1 .. j - 1  PROVE p[x] = t[x] /\ t[x] # NL
    <3>1. x \in 1 .. Len(t)
      BY <1>0
    <3> QED
      BY <3>1, <1>1 DEF IsLine, NoNL
  <2>3. IsLine(p, i, j)
    BY <2>1, <2>2 DEF IsLine, NoNL
  <2> QED
    BY <2>2, <2>3 DEF IsCommand
<1>2. ASSUME Rest(p)  PROVE Rest(t)
  <2> SUFFICES ASSUME NEW j \in 1 .. Len(t), NEW i \in 1 .. Len(t), i < j, t[i] = NL, IsLine(t, i, j)
               PROVE  IsCommand(t, i, j)
    BY DEF Rest
  <2>1. j \in 1 .. Len(p) /\ i \in 1 .. Len(p) /\ p[i] = NL /\ i \in 0 .. Len(t)
    BY <1>0
  <2> QED
    BY <2>1, <1>1, <1>2 DEF Rest
<1>3. ASSUME Clean(p)  PROVE Clean(t)
  <2> SUFFICES ASSUME NEW j \in 1 .. Len(t), NEW i \in 0 .. Len(t), i < j, i = 0 \/ t[i] = NL,
                      IsLine(t, i, j)
               PROVE  IsCommand(t, i, j)
    BY DEF Clean
  <2>1. j \in 1 .. Len(p) /\ i \in 0 .. Len(p) /\ (i = 0 \/ p[i] = NL)
    BY <1>0
  <2> QED
    BY <2>1, <1>1, <1>3 DEF Clean
<1>4. ASSUME Short(p)  PROVE Short(t)
  <2> SUFFICES ASSUME NEW j \in 1 .. Len(t), NEW i \in 0 .. Len(t), i < j, NoNL(t, i + 1, j)
               PROVE  j - i <= MsgInLenMax
    BY DEF Short
  <2>1. NoNL(p, i + 1, j)
    BY <1>0 DEF NoNL
  <2>2. j \in 1 .. Len(p) /\ i \in 0 .. Len(p)
    BY <1>0
  <2> QED
    BY <2>1, <2>2, <1>4 DEF Short
<1> QED
  BY <1>2, <1>3, <1>4

(* A command sent after a newline adds one line, a command.                *)
LEMMA Extended ==
    ASSUME NEW s \in Seq(Byte), Ended(s), NEW n \in 1 .. NCommands, NEW t \in Seq(Byte),
           t = s \o Line(n)
    PROVE  /\ Rest(s) => Rest(t)
           /\ Clean(s) => Clean(t)
           /\ Short(s) => Short(t)
           /\ Ended(t)
<1> DEFINE l == Len(s)
           c == Length(n)
<1>0. l \in Nat /\ c \in Nat /\ c <= MsgInLenMax /\ MsgInLenMax \in Nat
  BY UnitsType, ConnAssumption
<1>1. /\ Len(t) = l + c + 1
      /\ \A i \in 1 .. l : t[i] = s[i]
      /\ \A i \in l + 1 .. l + c : t[i] = <<"director", n>> /\ t[i] # NL
      /\ t[l + c + 1] = NL
  <2>1. Line(n) \in Seq(Byte) /\ Len(Line(n)) = c + 1
    BY UnitsType
  <2>5. Len(t) = Len(s) + Len(Line(n))
        /\ \A i \in 1 .. Len(s) + Len(Line(n)) : t[i] = IF i <= Len(s) THEN s[i] ELSE Line(n)[i - Len(s)]
    BY <2>1, ConcatProperties
  <2>2. Len(t) = l + (c + 1)
        /\ \A i \in 1 .. l + (c + 1) : t[i] = IF i <= l THEN s[i] ELSE Line(n)[i - l]
    BY <2>1, <2>5
  <2>3. ASSUME NEW i \in l + 1 .. l + c  PROVE t[i] = <<"director", n>> /\ t[i] # NL
    <3>1. i - l \in 1 .. c /\ i \in 1 .. l + (c + 1) /\ ~(i <= l)
      BY <1>0
    <3>2. n \in Nat
      BY ConnAssumption
    <3> QED
      BY <3>1, <3>2, <2>2, UnitsType, Bytes
  <2>4. t[l + c + 1] = NL
    <3>1. l + c + 1 \in 1 .. l + (c + 1) /\ ~(l + c + 1 <= l) /\ l + c + 1 - l = c + 1
      BY <1>0
    <3> QED
      BY <3>1, <2>2, UnitsType
  <2>6. \A i \in 1 .. l : t[i] = s[i]
    BY <2>2, <1>0
  <2>7. Len(t) = l + c + 1
    BY <2>2, <1>0
  <2> HIDE DEF l, c
  <2> QED
    BY <2>3, <2>4, <2>6, <2>7
<1> HIDE DEF l, c
<1>2. l > 0 => s[l] = NL
  BY <1>0 DEF Ended, l
<1>3. l = Len(s) /\ c = Length(n)
  BY DEF l, c
<1>4. ASSUME NEW j \in 1 .. Len(t), NEW i \in 0 .. Len(t), i < j, j > l, NoNL(t, i + 1, j - 1)
      PROVE  i >= l
  <2> SUFFICES ASSUME i < l  PROVE FALSE
    BY <1>0
  <2>1. l \in i + 1 .. j - 1 /\ l \in 1 .. l /\ l > 0
    BY <1>0, <1>4
  <2> QED
    BY <2>1, <1>1, <1>2, <1>4 DEF NoNL
<1>5. ASSUME NEW j \in 1 .. Len(t), NEW i \in 0 .. Len(t), i < j, i = 0 \/ t[i] = NL,
             IsLine(t, i, j), j > l
      PROVE  IsCommand(t, i, j)
  <2>1. i >= l
    BY <1>4, <1>5 DEF IsLine
  <2>2. j = l + c + 1
    <3>1. t[j] = NL /\ j \in 1 .. Len(t) /\ j > l
      BY <1>5 DEF IsLine
    <3>2. j \notin l + 1 .. l + c
      BY <3>1, <1>1
    <3>3. Len(t) = l + c + 1
      BY <1>1
    <3> QED
      BY ONLY <3>1, <3>2, <3>3, <1>0
  <2>3. i = l
    <3> SUFFICES ASSUME i > l  PROVE FALSE
      BY <2>1, <1>0
    <3>1. i \in l + 1 .. l + c
      BY <2>2, <1>0, <1>5
    <3> QED
      BY <3>1, <1>0, <1>1, <1>5
  <2>6. j - i - 1 = c
    BY <2>2, <2>3, <1>0
  <2>4. j - i - 1 = Length(n)
    BY <2>6, <1>3
  <2>5. ASSUME NEW x \in i + 1 .. j - 1  PROVE t[x] = <<"director", n>>
    <3>1. x \in l + 1 .. l + c
      BY <2>2, <2>3, <1>0
    <3> QED
      BY <3>1, <1>1
  <2> QED
    BY <2>4, <2>5 DEF IsCommand
<1>6. ASSUME NEW j \in 1 .. l, NEW i \in 0 .. Len(t), i < j, IsLine(t, i, j)
      PROVE  /\ i \in 0 .. Len(s) /\ j \in 1 .. Len(s) /\ IsLine(s, i, j)
             /\ i > 0 => s[i] = t[i]
             /\ IsCommand(s, i, j) => IsCommand(t, i, j)
  <2>1. i \in 0 .. l /\ (i > 0 => i \in 1 .. l)
    BY <1>0, <1>6
  <2>2. ASSUME NEW x \in i + 1 .. j - 1  PROVE t[x] = s[x]
    <3>1. i \in Int /\ i >= 0 /\ j \in 1 .. l
      BY <2>1, <1>0
    <3>2. x \in 1 .. l
      BY ONLY <3>1, <1>0, x \in i + 1 .. j - 1
    <3> QED
      BY <3>2, <1>1
  <2>3. t[j] = s[j]
    BY <1>1
  <2>4. IsLine(s, i, j)
    BY <2>2, <2>3, <1>6 DEF IsLine, NoNL
  <2>5. i > 0 => s[i] = t[i]
    BY <2>1, <1>1
  <2>6. IsCommand(s, i, j) => IsCommand(t, i, j)
    BY <2>2 DEF IsCommand
  <2> QED
    BY <2>1, <2>4, <2>5, <2>6, <1>3
<1>7. ASSUME Rest(s)  PROVE Rest(t)
  <2> SUFFICES ASSUME NEW j \in 1 .. Len(t), NEW i \in 1 .. Len(t), i < j, t[i] = NL, IsLine(t, i, j)
               PROVE  IsCommand(t, i, j)
    BY DEF Rest
  <2>1. i \in 0 .. Len(t) /\ i > 0
    BY <1>0, <1>1
  <2>2. CASE j > l
    BY <2>1, <2>2, <1>5
  <2>3. CASE j <= l
    <3>1. j \in 1 .. l
      BY <2>3, <1>0
    <3>2. i \in 1 .. Len(s) /\ j \in 1 .. Len(s) /\ IsLine(s, i, j) /\ s[i] = NL
          /\ (IsCommand(s, i, j) => IsCommand(t, i, j))
      BY <3>1, <2>1, <1>0, <1>3, <1>6
    <3> QED
      BY <3>2, <1>7 DEF Rest
  <2> QED
    BY <2>2, <2>3, <1>0
<1>8. ASSUME Clean(s)  PROVE Clean(t)
  <2> SUFFICES ASSUME NEW j \in 1 .. Len(t), NEW i \in 0 .. Len(t), i < j, i = 0 \/ t[i] = NL,
                      IsLine(t, i, j)
               PROVE  IsCommand(t, i, j)
    BY DEF Clean
  <2>2. CASE j > l
    BY <2>2, <1>5
  <2>3. CASE j <= l
    <3>1. j \in 1 .. l
      BY <2>3, <1>0
    <3>2. i \in 0 .. Len(s) /\ j \in 1 .. Len(s) /\ IsLine(s, i, j) /\ (i = 0 \/ s[i] = NL)
          /\ (IsCommand(s, i, j) => IsCommand(t, i, j))
      BY <3>1, <1>0, <1>3, <1>6
    <3> QED
      BY <3>2, <1>8 DEF Clean
  <2> QED
    BY <2>2, <2>3, <1>0
<1>9. ASSUME Short(s)  PROVE Short(t)
  <2> SUFFICES ASSUME NEW j \in 1 .. Len(t), NEW i \in 0 .. Len(t), i < j, NoNL(t, i + 1, j)
               PROVE  j - i <= MsgInLenMax
    BY DEF Short
  <2>1. CASE j <= l
    <3>1. j \in 1 .. Len(s) /\ i \in 0 .. Len(s) /\ NoNL(s, i + 1, j)
      BY <2>1, <1>0, <1>1, <1>3 DEF NoNL
    <3> QED
      BY <3>1, <1>9 DEF Short
  <2>2. CASE j > l
    <3>1. NoNL(t, i + 1, j - 1)
      BY <1>0 DEF NoNL
    <3>2. i >= l
      BY <3>1, <2>2, <1>4
    <3>3. j # l + c + 1
      BY <1>0, <1>1 DEF NoNL
    <3>4. j \in Nat /\ i \in Nat /\ j <= l + c + 1
      BY <1>0, <1>1
    <3> QED
      BY <3>2, <3>3, <3>4, <1>0
  <2> QED
    BY <2>1, <2>2, <1>0
<1>10. Ended(t)
  BY <1>0, <1>1 DEF Ended
<1> QED
  BY <1>7, <1>8, <1>9, <1>10

(* A byte too many shows that the line is not the director's alone.        *)
LEMMA NoOverflow ==
    ASSUME NEW m \in Seq(Byte), NEW p \in Seq(Byte), NLFree(m), p # <<>>, p[1] # NL, Short(m \o p)
    PROVE  Len(m) < MsgInLenMax
<1> DEFINE s == m \o p
           l == Len(m)
<1>1. l \in Nat /\ Len(s) = l + Len(p) /\ Len(p) \in Nat \ {0} /\ MsgInLenMax \in Nat
      /\ \A i \in 1 .. l + Len(p) : s[i] = IF i <= l THEN m[i] ELSE p[i - l]
  BY ConcatProperties, EmptySeq, ConnAssumption
<1>2. s[l + 1] = p[1]
  BY <1>1
<1>3. ASSUME NEW x \in 1 .. l + 1  PROVE s[x] # NL
  <2>1. CASE x <= l
    BY <2>1, <1>1 DEF NLFree, NoNL
  <2>2. CASE x = l + 1
    BY <2>2, <1>2
  <2> QED
    BY <2>1, <2>2, <1>1
<1>4. NoNL(s, 0 + 1, l + 1) /\ l + 1 \in 1 .. Len(s) /\ 0 \in 0 .. Len(s) /\ 0 < l + 1
  BY <1>1, <1>3 DEF NoNL
<1>5. (l + 1) - 0 <= MsgInLenMax
  BY <1>4 DEF Short
<1> QED
  BY <1>1, <1>5

(* The line that ends in a clean stream is a command.                      *)
LEMMA CleanCommand ==
    ASSUME NEW m \in Seq(Byte), NEW p \in Seq(Byte), NLFree(m), p # <<>>, p[1] = NL, Clean(m \o p)
    PROVE  Command(m)
<1> DEFINE s == m \o p
           l == Len(m)
<1>1. l \in Nat /\ Len(s) = l + Len(p) /\ Len(p) \in Nat \ {0}
      /\ \A i \in 1 .. l + Len(p) : s[i] = IF i <= l THEN m[i] ELSE p[i - l]
  BY ConcatProperties, EmptySeq
<1>2. s[l + 1] = NL
  BY <1>1
<1>3. NoNL(s, 0 + 1, l + 1 - 1)
  BY <1>1 DEF NLFree, NoNL
<1>4. l + 1 \in 1 .. Len(s) /\ 0 \in 0 .. Len(s) /\ 0 < l + 1
  BY <1>1
<1>5. IsLine(s, 0, l + 1)
  BY <1>2, <1>3 DEF IsLine
<1>6. IsCommand(s, 0, l + 1)
  BY <1>4, <1>5 DEF Clean
<1>7. PICK n \in 1 .. NCommands : /\ l + 1 - 0 - 1 = Length(n)
                                  /\ \A x \in 0 + 1 .. l + 1 - 1 : s[x] = <<"director", n>>
  BY <1>6 DEF IsCommand
<1>8. Len(Units(n)) = l /\ Units(n) \in Seq(Byte) /\ \A x \in 1 .. l : Units(n)[x] = <<"director", n>>
  BY <1>1, <1>7, UnitsType
<1>9. ASSUME NEW x \in 1 .. l  PROVE m[x] = Units(n)[x]
  <2>1. x \in 0 + 1 .. l + 1 - 1 /\ x \in 1 .. l + Len(p) /\ x <= l
    BY <1>1
  <2>2. s[x] = m[x]
    BY <2>1, <1>1
  <2>3. s[x] = <<"director", n>>
    BY <2>1, <1>7
  <2> QED
    BY <2>2, <2>3, <1>8
<1>10. m = Units(n)
  BY <1>8, <1>9, SeqEqual
<1> QED
  BY <1>10 DEF Command

(* What is in msg_in alone spoils nothing yet.                             *)
LEMMA AloneClean ==
    ASSUME NEW m \in Seq(Byte), NLFree(m), Len(m) <= MsgInLenMax
    PROVE  Clean(m) /\ Short(m) /\ m \o <<>> = m
<1>1. Clean(m)
  BY DEF Clean, IsLine, NLFree, NoNL
<1>2. Short(m)
  BY ConnAssumption DEF Short
<1> QED
  BY <1>1, <1>2, ConcatEmptySeq

(* msg_in and what is coming as one sequence.                              *)
LEMMA StreamOf ==
    ASSUME NEW m \in Seq(Byte), NEW p \in Seq(Byte)
    PROVE  /\ m \o p \in Seq(Byte)
           /\ Ended(m \o p) => Ended(p)
           /\ Ended(p) /\ (p = <<>> => m = <<>>) => Ended(m \o p)
           /\ \A q \in Seq(Byte) : m \o (p \o q) = (m \o p) \o q
           /\ <<>> \o p = p
           /\ m \o p = <<>> => m = <<>> /\ p = <<>>
<1>1. m \o p \in Seq(Byte) /\ Len(m) \in Nat /\ Len(p) \in Nat /\ Len(m \o p) = Len(m) + Len(p)
      /\ \A i \in 1 .. Len(m) + Len(p) : (m \o p)[i] = IF i <= Len(m) THEN m[i] ELSE p[i - Len(m)]
  BY ConcatProperties
<1>2. p # <<>> => Len(p) > 0 /\ (m \o p)[Len(m) + Len(p)] = p[Len(p)] /\ m \o p # <<>>
  <2> SUFFICES ASSUME p # <<>>
               PROVE  Len(p) > 0 /\ (m \o p)[Len(m) + Len(p)] = p[Len(p)] /\ m \o p # <<>>
    OBVIOUS
  <2>1. Len(p) > 0
    BY EmptySeq
  <2>2. Len(m) + Len(p) \in 1 .. Len(m) + Len(p) /\ ~(Len(m) + Len(p) <= Len(m))
        /\ Len(m) + Len(p) - Len(m) = Len(p)
    BY <1>1, <2>1
  <2> QED
    BY <1>1, <2>1, <2>2
<1>3. p = <<>> => m \o p = m
  BY ConcatEmptySeq
<1>4. <<>> \o p = p
  BY ConcatEmptySeq
<1>5. \A q \in Seq(Byte) : m \o (p \o q) = (m \o p) \o q
  BY ConcatAssociative
<1>6. Ended(m \o p) => Ended(p)
  BY <1>1, <1>2 DEF Ended
<1>7. Ended(p) /\ (p = <<>> => m = <<>>) => Ended(m \o p)
  BY <1>1, <1>2, <1>3 DEF Ended
<1> QED
  BY <1>1, <1>2, <1>3, <1>4, <1>5, <1>6, <1>7

(* Taking the front of a sequence and what is left, and a part of it.      *)
LEMMA Split ==
    ASSUME NEW u \in Seq(Byte), NEW n \in 0 .. Len(u)
    PROVE  /\ SubSeq(u, 1, n) \in Seq(Byte) /\ Len(SubSeq(u, 1, n)) = n
           /\ \A i \in 1 .. n : SubSeq(u, 1, n)[i] = u[i]
           /\ SubSeq(u, n + 1, Len(u)) \in Seq(Byte)
           /\ SubSeq(u, 1, n) \o SubSeq(u, n + 1, Len(u)) = u
           /\ n = Len(u) => SubSeq(u, n + 1, Len(u)) = <<>>
           /\ n = 0 => SubSeq(u, 1, n) = <<>>
           /\ n > 0 => SubSeq(u, 1, n) # <<>>
<1>1. Len(u) \in Nat /\ n \in Nat
  OBVIOUS
<1>2. \A i \in 1 .. n : u[i] \in Byte
  BY <1>1, ElementOfSeq
<1>3. SubSeq(u, 1, n) \in Seq(Byte) /\ Len(SubSeq(u, 1, n)) = n
      /\ \A i \in 1 .. n : SubSeq(u, 1, n)[i] = u[i]
  BY <1>1, <1>2, SubSeqProperties
<1>4. \A i \in n + 1 .. Len(u) : u[i] \in Byte
  BY <1>1, ElementOfSeq
<1>5. SubSeq(u, n + 1, Len(u)) \in Seq(Byte)
  BY <1>1, <1>4, SubSeqProperties
<1>6. SubSeq(u, 1, n) \o SubSeq(u, n + 1, Len(u)) = SubSeq(u, 1, Len(u))
  <2>1. 1 \in 1 .. Len(u) + 1 /\ n \in 1 - 1 .. Len(u) /\ Len(u) \in n .. Len(u)
    BY <1>1
  <2> QED
    BY <2>1, ConcatAdjacentSubSeq
<1>7. SubSeq(u, 1, Len(u)) = u
  BY SubSeqFull
<1>8. n = Len(u) => SubSeq(u, n + 1, Len(u)) = <<>>
  BY <1>1, SubSeqEmpty
<1>9. n = 0 => SubSeq(u, 1, n) = <<>>
  BY <1>1, SubSeqEmpty
<1>10. n > 0 => SubSeq(u, 1, n) # <<>>
  BY <1>3, EmptySeq
<1> QED
  BY <1>3, <1>5, <1>6, <1>7, <1>8, <1>9, <1>10

-------------------------------------------------------------------------------
(* What a write leaves of down and peer.                                   *)
WriteEffect(c, what) ==
    /\ down' \in {down, down \o what}
    /\ peer' = peer \/ peer' = [peer EXCEPT ![c] = "broken"]

(* The types of the two variables after a write.                           *)
LEMMA WriteType ==
    ASSUME TypeOK, NEW c \in Conns, NEW what \in Seq(Text), WriteEffect(c, what)
    PROVE  /\ down' \in Seq(Text)
           /\ peer' \in [Conns -> {"here", "rst", "fin", "broken"}]
<1>1. down \o what \in Seq(Text)
  BY ConcatProperties DEF TypeOK
<1> QED
  BY <1>1 DEF TypeOK, WriteEffect

(* The numbers the constants are.                                          *)
LEMMA Numbers ==
    /\ NCommands \in Nat /\ MsgInLenMax \in Nat /\ Tries \in Nat
    /\ MsgInLenMax > 0 /\ Tries > 0
BY ConnAssumption

(* The strings that are written.                                           *)
LEMMA Texts ==
    /\ <<"hello">> \in Seq(Text) /\ <<"answer">> \in Seq(Text)
    /\ <<"too long">> \in Seq(Text)
    /\ \A S : <<>> \in Seq(S)
    /\ <<"hello">> # <<>> /\ <<"answer">> # <<>> /\ <<"too long">> # <<>>
<1>1. ASSUME NEW s \in Text  PROVE <<s>> \in Seq(Text) /\ <<s>> # <<>>
  <2>1. <<s>> = Append(<<>>, s) /\ <<>> \in Seq(Text)
    OBVIOUS
  <2> QED
    BY <2>1, AppendProperties
<1>3. \A S : <<>> \in Seq(S)
  OBVIOUS
<1>4. "hello" \in Text /\ "answer" \in Text /\ "too long" \in Text
  BY DEF Text
<1> QED
  BY <1>1, <1>3, <1>4

(* Every step keeps the variables in their types.                          *)
LEMMA TypeNext ==
    ASSUME TypeOK, Control, [Next]_vars
    PROVE  TypeOK'
<1>a. event.fd \in Conns
  BY DEF TypeOK
<1>b. ASSUME buf # <<>>  PROVE Tail(buf) \in Seq(Byte) /\ Head(buf) \in Byte
  BY <1>b, HeadTailProperties DEF TypeOK
<1>c. Len(msg_in) \in Nat /\ Len(<<>>) = 0 /\ <<>> \in Seq(Byte)
  BY DEF TypeOK
<1>1. ASSUME NEW c \in Conns, conn_poll_for_conn(c)  PROVE TypeOK'
  <2>1. WriteEffect(c, <<"hello">>)
    BY <1>1 DEF conn_poll_for_conn, Write, WriteEffect
  <2>2. fd' \in [Conns -> {"none", "pending", "open", "closed"}] /\ pc' \in {pc, "killed"}
    BY <1>1 DEF conn_poll_for_conn, Write, Killed, TypeOK
  <2>3. UNCHANGED <<up, event, msg_in, handled, pieces, directorVars>> /\ buf' \in {buf, <<>>}
    BY <1>1 DEF conn_poll_for_conn, Write, Killed
  <2> QED
    <3>1. buf' \in Seq(Byte)
      BY <2>3, Texts DEF TypeOK
    <3> QED
      BY <3>1, <2>1, <2>2, <2>3, WriteType, Texts DEF TypeOK, directorVars
<1>2. ASSUME NEW c \in Conns, conn_poll_for_msg(c)  PROVE TypeOK'
  <2>1. PICK n \in 0 .. Len(up[c]) :
            /\ buf' = SubSeq(up[c], 1, n)
            /\ up' = [up EXCEPT ![c] = SubSeq(@, n + 1, Len(@))]
            /\ pc' = IF n = 0 THEN "control" ELSE "byte"
            /\ pieces' = IF c = "operator" /\ n > 0 THEN pieces + 1 ELSE pieces
    BY <1>2 DEF conn_poll_for_msg
  <2>2. up[c] \in Seq(Byte)
    BY DEF TypeOK
  <2>3. buf' \in Seq(Byte) /\ SubSeq(up[c], n + 1, Len(up[c])) \in Seq(Byte)
    BY <2>1, <2>2, Split
  <2>4. up' \in [Conns -> Seq(Byte)] /\ pieces' \in Nat /\ pc' \in {"byte", "control"}
    BY <2>1, <2>2, <2>3 DEF TypeOK
  <2>5. event' \in [fd : Conns, hup : BOOLEAN]
    BY <1>2 DEF conn_poll_for_msg
  <2> QED
    BY <2>3, <2>4, <2>5, <1>2 DEF conn_poll_for_msg, directorVars, TypeOK
<1>3. ASSUME UNCHANGED <<up, directorVars>>, NEW what \in Seq(Text), WriteEffect(event.fd, what),
             pieces' = pieces, fd' = fd, event' = event, pc' \in {"byte", "control", "killed"},
             buf' \in Seq(Byte), msg_in' \in Seq(Byte), Len(msg_in') <= MsgInLenMax,
             handled' \in Seq([msg : Seq(Byte), fd : Conns])
      PROVE  TypeOK'
  BY <1>a, <1>3, WriteType DEF TypeOK, directorVars
<1>4. ASSUME \/ \E m \in Seq(Byte) : Len(m) <= MsgInLenMax /\ buf # <<>> /\ Advance(m)
             \/ Return
             \/ Killed,
             pc = "byte"
      PROVE  /\ fd' = fd /\ event' = event /\ pc' \in {"byte", "control", "killed"}
             /\ buf' \in Seq(Byte) /\ msg_in' \in Seq(Byte) /\ Len(msg_in') <= MsgInLenMax
  BY <1>4, <1>b, <1>c DEF Advance, Return, Killed, TypeOK
<1>5. CASE Newline
  <2>1. handled' \in Seq([msg : Seq(Byte), fd : Conns])
    BY <1>a, <1>5, AppendProperties DEF Newline, TypeOK
  <2>2. \/ buf # <<>> /\ Advance(<<>>)
        \/ Return
        \/ Killed
    BY <1>5 DEF Newline, Write
  <2>3. Len(<<>>) <= MsgInLenMax
    BY <1>c, Numbers
  <2>4. WriteEffect(event.fd, <<"answer">>)
    BY <1>5 DEF Newline, Write, WriteEffect
  <2>5. UNCHANGED <<up, directorVars>> /\ pieces' = pieces /\ pc = "byte"
    BY <1>5 DEF Newline
  <2> QED
    BY <2>1, <2>2, <2>3, <2>4, <2>5, <1>3, <1>4, <1>c, Texts
<1>6. CASE Store
  <2>1. /\ Append(msg_in, Head(buf)) \in Seq(Byte) /\ Len(Append(msg_in, Head(buf))) <= MsgInLenMax
        /\ buf # <<>> /\ pc = "byte" /\ Advance(Append(msg_in, Head(buf)))
    <3>1. /\ buf # <<>> /\ pc = "byte" /\ Advance(Append(msg_in, Head(buf))) /\ Len(msg_in) < MsgInLenMax
      BY <1>6 DEF Store
    <3>2. Append(msg_in, Head(buf)) \in Seq(Byte) /\ Len(Append(msg_in, Head(buf))) = Len(msg_in) + 1
      BY <3>1, <1>b, AppendProperties DEF TypeOK
    <3> QED
      BY <3>1, <3>2, <1>c, Numbers
  <2>2. UNCHANGED <<up, directorVars>> /\ pieces' = pieces /\ WriteEffect(event.fd, <<>>)
        /\ handled' \in Seq([msg : Seq(Byte), fd : Conns])
    BY <1>6 DEF Store, WriteEffect, TypeOK
  <2> QED
    BY <2>1, <2>2, <1>3, <1>4, Texts
<1>7. CASE TooLong
  <2>2. \/ buf # <<>> /\ Advance(<<>>)
        \/ Return
        \/ Killed
    BY <1>7 DEF TooLong, Write
  <2>3. Len(<<>>) <= MsgInLenMax
    BY <1>c, Numbers
  <2>4. WriteEffect(event.fd, <<"too long">>)
    BY <1>7 DEF TooLong, Write, WriteEffect
  <2>5. UNCHANGED <<up, directorVars>> /\ pieces' = pieces /\ pc = "byte"
        /\ handled' \in Seq([msg : Seq(Byte), fd : Conns])
    BY <1>7 DEF TooLong, TypeOK
  <2> QED
    BY <2>2, <2>3, <2>4, <2>5, <1>3, <1>4, <1>c, Texts
<1>8. CASE Prompt
  <2>2. \/ Return
        \/ Killed
    BY <1>8 DEF Prompt, Write
  <2>4. WriteEffect(event.fd, <<>>)
    BY <1>8 DEF Prompt, Write, WriteEffect
  <2>5. UNCHANGED <<up, directorVars>> /\ pieces' = pieces /\ pc = "byte"
        /\ handled' \in Seq([msg : Seq(Byte), fd : Conns])
    BY <1>8 DEF Prompt, TypeOK
  <2> QED
    BY <2>2, <2>4, <2>5, <1>3, <1>4, Texts
<1>9. CASE control_event_handle
  BY <1>9 DEF control_event_handle, directorVars, TypeOK
<1>10. CASE Construct
  BY <1>10 DEF Construct, serverVars, TypeOK
<1>11. CASE Hello
  BY <1>11, Texts DEF Hello, serverVars, TypeOK
<1>12. CASE send_command
  <2>1. k \in 1 .. NCommands
    BY <1>12, Numbers DEF send_command, TypeOK
  <2>2. up["director"] \o Line(k) \in Seq(Byte)
    BY <2>1, UnitsType, ConcatProperties DEF Conns, TypeOK
  <2>3. up' \in [Conns -> Seq(Byte)]
    BY <2>2, <1>12 DEF send_command, TypeOK
  <2>4. count' \in 0 .. Tries
    BY <1>12, Numbers DEF send_command
  <2> QED
    BY <2>3, <2>4, <1>12 DEF send_command, serverVars, TypeOK
<1>13. CASE Receive
  <2>1. k' \in 1 .. NCommands + 1
    <3>1. dpc = "wait" /\ k' \in {k, k + 1}
      BY <1>13 DEF Receive
    <3>2. k <= NCommands /\ k \in 1 .. NCommands + 1
      BY <3>1 DEF Control, TypeOK
    <3> QED
      BY <3>1, <3>2, Numbers
  <2>2. down' = <<>> /\ dpc' \in {"idle", "retry"} /\ UNCHANGED <<fd, peer, up, serverVars, count>>
    BY <1>13 DEF Receive
  <2> QED
    BY <2>1, <2>2, Texts DEF serverVars, TypeOK
<1>14. CASE Retry
  <2>1. count' \in 0 .. Tries
    <3>1. count' = count + 1 /\ count < Tries /\ count \in 0 .. Tries
      BY <1>14 DEF Retry, Control, TypeOK
    <3> QED
      BY <3>1, Numbers
  <2> QED
    BY <2>1, <1>14 DEF Retry, serverVars, TypeOK
<1>15. CASE Reset
  <2>1. PICK n \in 0 .. Len(up["director"]) :
            up' = [up EXCEPT !["director"] = SubSeq(@, 1, n)]
    BY <1>15 DEF Reset
  <2>2. up["director"] \in Seq(Byte)
    BY DEF TypeOK, Conns
  <2>3. SubSeq(up["director"], 1, n) \in Seq(Byte)
    BY <2>1, <2>2, Split
  <2>4. up' \in [Conns -> Seq(Byte)]
    BY <2>1, <2>3 DEF TypeOK
  <2>5. down' \in Seq(Text)
    <3>1. down' = down \/ down' = <<>>
      BY <1>15 DEF Reset
    <3>2. <<>> \in Seq(Text)
      OBVIOUS
    <3> QED
      BY <3>1, <3>2 DEF TypeOK
  <2> QED
    BY <2>4, <2>5, <1>15 DEF Reset, serverVars, directorVars, TypeOK
<1>16. CASE OperatorTypes
  <2>1. PICK n \in 1 .. Len(OperatorText) :
            up' = [up EXCEPT !["operator"] = SubSeq(OperatorText, 1, n)]
    BY <1>16 DEF OperatorTypes
  <2>2. OperatorText \in Seq(Byte) /\ n \in 0 .. Len(OperatorText)
    BY ConnAssumption
  <2>3. SubSeq(OperatorText, 1, n) \in Seq(Byte)
    BY <2>2, Split
  <2>4. up' \in [Conns -> Seq(Byte)]
    BY <2>1, <2>3 DEF TypeOK
  <2> QED
    BY <2>4, <1>16 DEF OperatorTypes, serverVars, directorVars, TypeOK
<1>17. CASE OperatorLeaves
  BY <1>17 DEF OperatorLeaves, serverVars, directorVars, TypeOK
<1>18. CASE UNCHANGED vars
  BY <1>18 DEF vars, serverVars, directorVars, TypeOK
<1> QED
  BY <1>1, <1>2, <1>5, <1>6, <1>7, <1>8, <1>9, <1>10, <1>11, <1>12, <1>13, <1>14,
     <1>15, <1>16, <1>17, <1>18 DEF Next, Server, DataEvent, Director

(* What is stored holds no newline.                                        *)
LEMMA NLFreeAppend ==
    /\ NLFree(<<>>)
    /\ \A m \in Seq(Byte), x \in Byte : NLFree(m) /\ x # NL => NLFree(Append(m, x))
<1>1. NLFree(<<>>)
  BY DEF NLFree, NoNL
<1>2. ASSUME NEW m \in Seq(Byte), NEW x \in Byte, NLFree(m), x # NL  PROVE NLFree(Append(m, x))
  <2>1. Len(Append(m, x)) = Len(m) + 1 /\ Append(m, x)[Len(m) + 1] = x /\ Len(m) \in Nat
        /\ \A i \in 1 .. Len(m) : Append(m, x)[i] = m[i]
    BY AppendProperties
  <2>2. ASSUME NEW i \in 1 .. Len(m) + 1  PROVE Append(m, x)[i] # NL
    <3>1. CASE i <= Len(m)
      BY <3>1, <2>1, <1>2 DEF NLFree, NoNL
    <3>2. CASE i = Len(m) + 1
      BY <3>2, <2>1, <1>2
    <3> QED
      BY <3>1, <3>2, <2>1
  <2> QED
    BY <2>1, <2>2 DEF NLFree, NoNL
<1> QED
  BY <1>1, <1>2

(* Every step keeps the order of the protocol.                             *)
LEMMA ControlNext ==
    ASSUME TypeOK, TypeOK', Control, [Next]_vars
    PROVE  Control'
<1>a. event.fd \in Conns /\ peer["director"] \in {"here", "rst", "broken"}
  BY DEF TypeOK, Control
<1>1. ASSUME NEW c \in Conns, conn_poll_for_conn(c)  PROVE Control'
  BY <1>1 DEF conn_poll_for_conn, Write, Killed, directorVars, Control, TypeOK, Conns, Here, Alive
<1>2. ASSUME NEW c \in Conns, conn_poll_for_msg(c)  PROVE Control'
  <2>1. PICK n \in 0 .. Len(up[c]) :
            /\ n = 0 => up[c] = <<>>
            /\ peer[c] # "here" => n = Len(up[c])
            /\ buf' = SubSeq(up[c], 1, n)
            /\ up' = [up EXCEPT ![c] = SubSeq(@, n + 1, Len(@))]
            /\ pc' = IF n = 0 THEN "control" ELSE "byte"
    BY <1>2 DEF conn_poll_for_msg
  <2>2. up[c] \in Seq(Byte)
    BY DEF TypeOK
  <2>3. (n = 0 => buf' = <<>>) /\ (peer[c] # "here" => up'[c] = <<>>) /\ (up[c] = <<>> => up'[c] = <<>>)
    <3>1. n = 0 => buf' = <<>>
      BY <2>1, <2>2, Split
    <3>2. n = Len(up[c]) => SubSeq(up[c], n + 1, Len(up[c])) = <<>>
      BY <2>1, <2>2, Split
    <3>3. up'[c] = SubSeq(up[c], n + 1, Len(up[c]))
      BY <2>1 DEF TypeOK
    <3>4. up[c] = <<>> => n = Len(up[c])
      BY <2>1
    <3> QED
      BY <2>1, <3>1, <3>2, <3>3, <3>4
  <2>4. \A d \in Conns : d # c => up'[d] = up[d]
    BY <2>1 DEF TypeOK
  <2>5. event' = [fd |-> c, hup |-> peer[c] # "here"] /\ fd[c] = "open"
        /\ UNCHANGED <<fd, peer, down, msg_in, directorVars>>
    BY <1>2 DEF conn_poll_for_msg
  <2>6. event'.fd = c /\ (event'.hup <=> peer[c] # "here")
    BY <2>5
  <2>7. pc' \in {"poll", "control"} => buf' = <<>>
    BY <2>1, <2>3
  <2>8. event'.fd = "director" /\ event'.hup => ~Here' /\ up'["director"] = <<>>
    BY <2>3, <2>5, <2>6 DEF Here
  <2>9. pc' = "byte" => fd'[event'.fd] = "open"
    BY <2>5, <2>6
  <2>10. pc' \in {"byte", "control"} /\ pc = "poll"
    BY <2>1, <1>2 DEF conn_poll_for_msg
  <2> QED
    BY <2>5, <2>7, <2>8, <2>9, <2>10 DEF Control, Here, directorVars, Alive
<1>3. ASSUME Newline \/ Store \/ TooLong \/ Prompt  PROVE Control'
  <2>1. UNCHANGED <<fd, event, up, directorVars>> /\ pc = "byte"
    BY <1>3 DEF Newline, Store, TooLong, Prompt, Write, Killed, Advance, Return
  <2>2. pc' \in {"byte", "control", "killed"} /\ (pc' # "byte" => buf' = <<>>)
    BY <1>3, <2>1 DEF Newline, Store, TooLong, Prompt, Write, Killed, Advance, Return
  <2>3. NLFree(msg_in)'
    <3>1. msg_in' = msg_in \/ msg_in' = <<>> \/ (msg_in' = Append(msg_in, Head(buf)) /\ Head(buf) # NL /\ buf # <<>>)
      BY <1>3 DEF Newline, Store, TooLong, Prompt, Write, Killed, Advance, Return
    <3>2. NLFree(msg_in) /\ msg_in \in Seq(Byte)
      BY DEF Control, TypeOK
    <3>3. buf # <<>> => Head(buf) \in Byte
      BY HeadTailProperties DEF TypeOK
    <3> QED
      BY <3>1, <3>2, <3>3, NLFreeAppend
  <2>4. \/ peer' = peer
        \/ peer[event.fd] # "here" /\ peer' = [peer EXCEPT ![event.fd] = "broken"]
    BY <1>3 DEF Newline, Store, TooLong, Prompt, Write, Killed, Advance, Return
  <2>5. /\ peer'["director"] \in {"here", "rst", "broken"} /\ peer'["operator"] # "rst"
        /\ Here' = Here
        /\ peer'["operator"] = "broken" => peer["operator"] = "broken" \/ event.fd = "operator"
    BY <2>4, <1>a DEF TypeOK, Conns, Control, Here
  <2>8. peer'["director"] = "broken" /\ pc' = "byte" /\ event.fd = "director" => event.hup
    <3>1. pc' = "byte" /\ event.fd = "director" => peer'["director"] = peer["director"]
      <4>1. pc' = "byte" => \/ peer' = peer
                            \/ peer[event.fd] = "fin"
        BY <1>3 DEF Newline, Store, TooLong, Prompt, Write, Killed, Advance, Return
      <4> QED
        BY <4>1, <1>a
    <3> QED
      BY <3>1, <2>1 DEF Control
  <2>6. \/ UNCHANGED down
        \/ event.fd = "director"
    BY <1>3 DEF Newline, Store, TooLong, Prompt, Write, Killed, Advance, Return
  <2>7. fd[event.fd] = "open"
    BY <2>1 DEF Control
  <2> QED
    BY <2>1, <2>2, <2>3, <2>5, <2>6, <2>7, <2>8 DEF Control, Here, Alive, directorVars
<1>9. CASE control_event_handle
  BY <1>a, <1>9 DEF control_event_handle, directorVars, TypeOK, Control, Here, Alive, Conns
<1>10. CASE Construct
  BY <1>10 DEF Construct, serverVars, TypeOK, Control, Here, Alive, Conns
<1>11. CASE Hello
  BY <1>11 DEF Hello, serverVars, TypeOK, Control, Here, Alive
<1>12. CASE send_command
  BY <1>12, Numbers DEF send_command, serverVars, TypeOK, Control, Here, Alive, Conns
<1>13. CASE Receive
  <2>1. count' = count /\ dpc = "wait" /\ dpc' \in {"idle", "retry"} /\ down' = <<>> /\ UNCHANGED <<fd, peer, up, serverVars>>
    BY <1>13 DEF Receive
  <2>2. dpc' = "retry" => count' < Tries
    BY <2>1, Numbers DEF Control
  <2> QED
    BY <2>1, <2>2 DEF serverVars, Control, Here, Alive
<1>14. CASE Retry
  BY <1>14, Numbers DEF Retry, serverVars, TypeOK, Control, Here, Alive
<1>15. CASE Reset
  BY <1>15 DEF Reset, serverVars, directorVars, TypeOK, Control, Here, Alive, Conns
<1>16. CASE OperatorTypes
  BY <1>16 DEF OperatorTypes, serverVars, directorVars, TypeOK, Control, Here, Alive, Conns
<1>17. CASE OperatorLeaves
  BY <1>17 DEF OperatorLeaves, serverVars, directorVars, TypeOK, Control, Here, Alive, Conns
<1>18. CASE UNCHANGED vars
  BY <1>18 DEF vars, serverVars, directorVars, Control, Here, Alive
<1> QED
  BY <1>1, <1>2, <1>3, <1>9, <1>10, <1>11, <1>12, <1>13, <1>14,
     <1>15, <1>16, <1>17, <1>18 DEF Next, Server, DataEvent, Director

-------------------------------------------------------------------------------
(* The entries of handled are finitely many, and so are those of a kind.   *)
LEMMA Counts ==
    ASSUME TypeOK
    PROVE  /\ \A c : IsFiniteSet(From(c)) /\ Cardinality(From(c)) \in Nat
           /\ IsFiniteSet(Torn) /\ Cardinality(Torn) \in Nat
<1>1. DOMAIN handled = 1 .. Len(handled) /\ Len(handled) \in Nat
  BY DEF TypeOK
<1>2. IsFiniteSet(1 .. Len(handled))
  BY <1>1, FS_Interval
<1>3. ASSUME NEW c  PROVE IsFiniteSet(From(c)) /\ Cardinality(From(c)) \in Nat
  <2>1. From(c) \subseteq 1 .. Len(handled)
    BY <1>1 DEF From
  <2> QED
    BY <2>1, <1>2, FS_Subset, FS_CardinalityType
<1>4. Torn \subseteq 1 .. Len(handled)
  BY <1>1 DEF Torn, From
<1> QED
  BY <1>2, <1>3, <1>4, FS_Subset, FS_CardinalityType

(* A set of numbers, and the set that has perhaps the next number too.     *)
LEMMA OneMore ==
    ASSUME NEW l \in Nat, NEW A, NEW B, NEW P,
           A \subseteq 1 .. l, B \subseteq 1 .. l + 1,
           \A i \in 1 .. l : i \in A <=> i \in B,
           l + 1 \in B <=> P
    PROVE  B = IF P THEN A \union {l + 1} ELSE A
<1>1. \A i \in 1 .. l + 1 : i \in 1 .. l \/ i = l + 1
  OBVIOUS
<1>2. l + 1 \notin 1 .. l
  OBVIOUS
<1>3. 1 .. l \subseteq 1 .. l + 1
  OBVIOUS
<1>4. CASE P
  <2>1. l + 1 \in B
    BY <1>4
  <2>2. \A x : x \in B <=> x \in A \union {l + 1}
    BY <2>1, <1>1, <1>2, <1>3
  <2> QED
    BY <2>2, <1>4
<1>5. CASE ~P
  <2>1. l + 1 \notin B
    BY <1>5
  <2>2. \A x : x \in B <=> x \in A
    BY <2>1, <1>1, <1>2, <1>3
  <2> QED
    BY <2>2, <1>5
<1> QED
  BY <1>4, <1>5

(* One entry more counts for its connection, and as torn if it is one of   *)
(* the director's and no command.                                          *)
LEMMA Handling ==
    ASSUME TypeOK, NEW m \in Seq(Byte), NEW c \in Conns,
           handled' = Append(handled, [msg |-> m, fd |-> c])
    PROVE  /\ Cardinality(From("director"))' =
                 Cardinality(From("director")) + IF c = "director" THEN 1 ELSE 0
           /\ Cardinality(Torn)' =
                 Cardinality(Torn) + IF c = "director" /\ ~Command(m) THEN 1 ELSE 0
<1> DEFINE l == Len(handled)
           e == [msg |-> m, fd |-> c]
<1>1. l \in Nat /\ handled \in Seq([msg : Seq(Byte), fd : Conns])
      /\ DOMAIN handled = 1 .. l /\ e \in [msg : Seq(Byte), fd : Conns]
  BY DEF TypeOK
<1>2. /\ DOMAIN handled' = 1 .. l + 1 /\ handled'[l + 1] = e
      /\ \A i \in 1 .. l : handled'[i] = handled[i]
  BY <1>1, AppendProperties
<1>3. e.msg = m /\ e.fd = c
  OBVIOUS
<1>4. (l + 1) \notin From("director") /\ (l + 1) \notin Torn
  BY <1>1 DEF From, Torn
<1> HIDE DEF l, e
<1>a. From("director") \subseteq 1 .. l /\ From("director")' \subseteq 1 .. l + 1
  BY <1>1, <1>2 DEF From
<1>b. \A i \in 1 .. l : i \in From("director") <=> i \in From("director")'
  BY <1>1, <1>2 DEF From
<1>c. l + 1 \in From("director")' <=> c = "director"
  BY <1>1, <1>2, <1>3 DEF From
<1>5. From("director")' = IF c = "director" THEN From("director") \union {l + 1} ELSE From("director")
  BY <1>1, <1>a, <1>b, <1>c, OneMore
<1>d. \A i \in 1 .. l : i \in Torn <=> i \in Torn'
  BY <1>1, <1>2, <1>b DEF Torn, Command
<1>e. l + 1 \in Torn' <=> c = "director" /\ ~Command(m)
  BY <1>1, <1>2, <1>3, <1>c DEF Torn, Command
<1>f. Torn \subseteq 1 .. l /\ Torn' \subseteq 1 .. l + 1
  BY <1>a DEF Torn
<1>6. Torn' = IF c = "director" /\ ~Command(m) THEN Torn \union {l + 1} ELSE Torn
  <2>1. (c = "director" /\ ~Command(m)) \in BOOLEAN
    OBVIOUS
  <2> QED
    BY <2>1, <1>1, <1>d, <1>e, <1>f, OneMore
<1>7. \A S : IsFiniteSet(S) /\ l + 1 \notin S => Cardinality(S \union {l + 1}) = Cardinality(S) + 1
  BY FS_AddElement
<1>8. IsFiniteSet(From("director")) /\ IsFiniteSet(Torn)
      /\ Cardinality(From("director")) \in Nat /\ Cardinality(Torn) \in Nat
  BY Counts
<1>9. Cardinality(From("director")') =
          Cardinality(From("director")) + IF c = "director" THEN 1 ELSE 0
  BY <1>4, <1>5, <1>7, <1>8
<1>10. Cardinality(Torn') =
          Cardinality(Torn) + IF c = "director" /\ ~Command(m) THEN 1 ELSE 0
  BY <1>4, <1>6, <1>7, <1>8
<1> QED
  BY <1>9, <1>10

(* What the invariant counts are numbers, most of them 0 or 1.             *)
LEMMA Small ==
    /\ Spoiled \in {0, 1} /\ Spoiled' \in {0, 1}
    /\ Overflows \in {0, 1} /\ Overflows' \in {0, 1}
    /\ Waiting \in {0, 1} /\ Waiting' \in {0, 1}
    /\ Lost \in {0, 1} /\ Lost' \in {0, 1}
<1>1. \A b \in BOOLEAN : Debt(b) \in {0, 1}
  BY DEF Debt
<1>2. Spoiled \in {0, 1} /\ Overflows \in {0, 1}
  BY DEF Debt, Spoiled, Overflows
<1>3. Spoiled' \in {0, 1} /\ Overflows' \in {0, 1}
  BY DEF Debt, Spoiled, Overflows
<1> QED
  BY <1>2, <1>3 DEF Waiting, Lost

(* The budgets, as what each step adds to their two sides.                 *)
LEMMA BudgetStep ==
    ASSUME TypeOK, TypeOK', AheadBudget, TornBudget,
           NEW f \in Nat, Cardinality(From("director"))' = Cardinality(From("director")) + f,
           NEW t \in Nat, Cardinality(Torn)' = Cardinality(Torn) + t,
           Alive' => Alive /\ k' + Waiting' + Overflows' + pieces
                                 <= k + Waiting + Overflows + pieces' + f,
           t + Spoiled' + pieces + Lost <= Spoiled + pieces' + Lost'
    PROVE  AheadBudget' /\ TornBudget'
<1> DEFINE F == Cardinality(From("director"))
           T == Cardinality(Torn)
           w == Waiting   w2 == Waiting'
           o == Overflows o2 == Overflows'
           s == Spoiled   s2 == Spoiled'
           l == Lost      l2 == Lost'
           q == pieces    q2 == pieces'
           n == k         n2 == k'
<1>1. F \in Int /\ T \in Int /\ f \in Int /\ t \in Int
  BY Counts
<1>2. n \in Int /\ n2 \in Int /\ q \in Int /\ q2 \in Int
  BY Numbers DEF TypeOK
<1>3. F' = F + f /\ T' = T + t
  OBVIOUS
<1>4. Alive => n - 1 + w + o <= F + q
  BY DEF AheadBudget
<1>5. T + s <= q + l
  BY DEF TornBudget
<1>6. w \in Int /\ w2 \in Int /\ o \in Int /\ o2 \in Int
      /\ s \in Int /\ s2 \in Int /\ l \in Int /\ l2 \in Int
  BY Small
<1>7. Alive' => Alive /\ n2 + w2 + o2 + q <= n + w + o + q2 + f
  OBVIOUS
<1>8. t + s2 + q + l <= s + q2 + l2
  OBVIOUS
<1> HIDE DEF F, T, w, w2, o, o2, s, s2, l, l2, q, q2, n, n2
<1>9. Alive' => n2 - 1 + w2 + o2 <= F + f + q2
  BY <1>1, <1>2, <1>4, <1>6, <1>7
<1>10. T + t + s2 <= q2 + l2
  BY <1>1, <1>2, <1>5, <1>6, <1>8
<1> QED
  BY <1>3, <1>9, <1>10 DEF F, T, w2, o2, s2, l2, q2, n2, AheadBudget, TornBudget

(* A step that handles nothing and reads nothing of the operator, and      *)
(* after which no more is waiting, spoiled or lost.                        *)
LEMMA Frame ==
    ASSUME TypeOK, TypeOK', AheadBudget, TornBudget, Alive' => Alive,
           handled' = handled, pieces' = pieces, k' = k, Waiting' <= Waiting,
           Overflows' <= Overflows, Spoiled' <= Spoiled, Fresh' => Fresh
    PROVE  AheadBudget' /\ TornBudget'
<1> DEFINE w == Waiting   w2 == Waiting'
           o == Overflows o2 == Overflows'
           s == Spoiled   s2 == Spoiled'
           l == Lost      l2 == Lost'
<1>1. Cardinality(From("director"))' = Cardinality(From("director")) + 0
      /\ Cardinality(Torn)' = Cardinality(Torn) + 0
  <2>1. From("director")' = From("director") /\ Torn' = Torn
    BY DEF From, Torn, Command
  <2> QED
    BY <2>1, Counts
<1>2. k \in Int /\ pieces \in Int
  BY Numbers DEF TypeOK
<1>3. l <= l2
  BY DEF Lost
<1>6. w \in Int /\ w2 \in Int /\ o \in Int /\ o2 \in Int
      /\ s \in Int /\ s2 \in Int /\ l \in Int /\ l2 \in Int
  BY Small
<1>7. w2 <= w /\ o2 <= o /\ s2 <= s
  OBVIOUS
<1> HIDE DEF w, w2, o, o2, s, s2, l, l2
<1>4. k' + w2 + o2 + pieces <= k + w + o + pieces' + 0
  BY <1>2, <1>6, <1>7
<1>5. 0 + s2 + pieces + l <= s + pieces' + l2
  BY <1>2, <1>3, <1>6, <1>7
<1>8. 0 \in Nat
  OBVIOUS
<1> QED
  BY <1>1, <1>4, <1>5, <1>8, BudgetStep DEF w, w2, o, o2, s, s2, l, l2

(* What the server and the director's connection hold is a sequence.       *)
LEMMA StreamType ==
    ASSUME TypeOK
    PROVE  /\ Read \in Seq(Byte) /\ up["director"] \in Seq(Byte)
           /\ Coming \in Seq(Byte) /\ Stream \in Seq(Byte)
<1>1. Read \in Seq(Byte) /\ up["director"] \in Seq(Byte) /\ msg_in \in Seq(Byte)
  BY DEF TypeOK, Read, Conns
<1> QED
  BY <1>1, ConcatProperties DEF Coming, Stream

(* A stream that is as it was spoils no more than it did.                  *)
LEMMA SameStream ==
    ASSUME Stream' = Stream, Here' => Here,
           (event.fd = "operator" => buf = <<>>) => (event'.fd = "operator" => buf' = <<>>)
    PROVE  Spoiled' <= Spoiled /\ Overflows' <= Overflows
<1>1. Spoiled' = 0 \/ Spoiled = 1
  BY DEF Spoiled, Debt
<1>2. Overflows' = 0 \/ Overflows = 1
  BY DEF Overflows, Debt
<1> DEFINE s == Spoiled   s2 == Spoiled'
           o == Overflows o2 == Overflows'
<1>3. s \in {0, 1} /\ s2 \in {0, 1} /\ o \in {0, 1} /\ o2 \in {0, 1}
  BY Small
<1>4. (s2 = 0 \/ s = 1) /\ (o2 = 0 \/ o = 1)
  BY <1>1, <1>2
<1> HIDE DEF s, s2, o, o2
<1>5. s2 <= s /\ o2 <= o
  BY <1>3, <1>4
<1> QED
  BY <1>5 DEF s, s2, o, o2

(* While a piece of the operator's is looked at, its debt stands.          *)
LEMMA Owed ==
    ASSUME event.fd = "operator", buf # <<>>, Here' => Here
    PROVE  Spoiled' <= Spoiled /\ Overflows' <= Overflows
<1>1. Spoiled = 1
  BY DEF Spoiled, Debt
<1>2. Overflows' = 0 \/ Overflows = 1
  BY DEF Overflows, Debt
<1> DEFINE s == Spoiled   s2 == Spoiled'
           o == Overflows o2 == Overflows'
<1>3. s \in {0, 1} /\ s2 \in {0, 1} /\ o \in {0, 1} /\ o2 \in {0, 1}
  BY Small
<1>4. s = 1 /\ (o2 = 0 \/ o = 1)
  BY <1>1, <1>2
<1> HIDE DEF s, s2, o, o2
<1>5. s2 <= s /\ o2 <= o
  BY <1>3, <1>4
<1> QED
  BY <1>5 DEF s, s2, o, o2

(* What is coming once one byte of the director's has been looked at.      *)
LEMMA NextByte ==
    ASSUME TypeOK, Lines, event.fd = "director", buf # <<>>
    PROVE  /\ Coming \in Seq(Byte) /\ Coming # <<>> /\ Coming[1] = Head(buf)
           /\ Tail(Coming) = Tail(buf) \o up["director"]
           /\ Tail(Coming) \in Seq(Byte) /\ <<>> \o Tail(Coming) = Tail(Coming)
           /\ Rest(Tail(Coming)) /\ Short(Tail(Coming))
           /\ Here => Ended(Tail(Coming))
           /\ Head(buf) = NL => Clean(Tail(Coming))
<1> DEFINE p == Coming
           t == Tail(Coming)
<1>1. buf \in Seq(Byte) /\ up["director"] \in Seq(Byte) /\ p = buf \o up["director"]
  BY StreamType DEF TypeOK, Coming, Read
<1>2. p \in Seq(Byte) /\ p # <<>> /\ p[1] = Head(buf) /\ t = Tail(buf) \o up["director"]
  BY <1>1, FrontOf
<1>3. Rest(p) /\ Short(p) /\ (Here => Ended(p))
  BY DEF Lines
<1> HIDE DEF p
<1>4. t \in Seq(Byte) /\ Len(t) = Len(p) - 1 /\ Len(p) \in Nat
      /\ \A i \in 1 .. Len(t) : t[i] = p[i + 1]
  BY <1>2, HeadTailProperties DEF p
<1> HIDE DEF t
<1>5. Len(p) = 1 + Len(t) /\ 1 \in Nat /\ 1 > 0 /\ Len(t) \in Nat
  BY <1>4
<1>6. /\ Rest(p) => Rest(t)
      /\ Short(p) => Short(t)
      /\ Ended(p) => Ended(t)
      /\ Rest(p) /\ 1 > 0 /\ p[1] = NL => Clean(t)
  BY <1>2, <1>4, <1>5, Suffix
<1>7. <<>> \o t = t
  BY <1>4, StreamOf
<1>8. t = Tail(Coming) /\ p = Coming
  BY DEF t, p
<1>9. Rest(t) /\ Short(t) /\ (Here => Ended(t)) /\ (Head(buf) = NL => Clean(t))
  BY <1>2, <1>3, <1>5, <1>6
<1>10. p \in Seq(Byte) /\ p # <<>> /\ p[1] = Head(buf) /\ t = Tail(buf) \o up["director"]
       /\ t \in Seq(Byte)
  BY <1>2, <1>4
<1> QED
  BY <1>7, <1>8, <1>9, <1>10

(* What is coming once the rest of what was read has been dropped.         *)
LEMMA Dropped ==
    ASSUME TypeOK, Lines, event.fd = "director"
    PROVE  /\ Rest(up["director"]) /\ Short(up["director"])
           /\ <<>> \o up["director"] = up["director"]
<1> DEFINE p == Coming
           t == up["director"]
           d == Len(buf)
<1>1. buf \in Seq(Byte) /\ t \in Seq(Byte) /\ p = buf \o t
  BY StreamType DEF TypeOK, Coming, Read
<1>2. Rest(p) /\ Short(p)
  BY DEF Lines
<1> HIDE DEF p, t
<1>3. p \in Seq(Byte) /\ Len(p) = d + Len(t) /\ d \in Nat /\ Len(t) \in Nat
      /\ \A i \in 1 .. d + Len(t) : p[i] = IF i <= d THEN buf[i] ELSE t[i - d]
  BY <1>1, ConcatProperties
<1> HIDE DEF d
<1>4. ASSUME NEW i \in 1 .. Len(t)  PROVE t[i] = p[i + d]
  <2>1. i + d \in 1 .. d + Len(t) /\ ~(i + d <= d) /\ i + d - d = i
    BY <1>3
  <2> QED
    BY <2>1, <1>3
<1>5. (Rest(p) => Rest(t)) /\ (Short(p) => Short(t))
  BY <1>1, <1>3, <1>4, Suffix
<1>6. <<>> \o t = t
  BY <1>1, StreamOf
<1> QED
  BY <1>2, <1>5, <1>6 DEF t

(* A step that leaves alone what the director sent and the server read.    *)
LEMMA Aside ==
    ASSUME TypeOK, TypeOK', Account,
           UNCHANGED <<msg_in, event, buf, handled, pieces, k>>,
           up'["director"] = up["director"], Here' = Here,
           Alive' => Alive, pc' = "byte" => pc = "byte", Waiting' <= Waiting
    PROVE  Account'
<1>1. Coming' = Coming /\ Stream' = Stream
  BY DEF Coming, Stream, Read
<1>2. Here' = Here /\ (Fresh' => Fresh)
  BY DEF Here, Fresh
<1>3. Lines'
  BY <1>1, <1>2 DEF Account, Lines
<1>4. Spoiled' <= Spoiled /\ Overflows' <= Overflows
  BY <1>1, <1>2, SameStream
<1>5. AheadBudget' /\ TornBudget'
  BY <1>2, <1>4, Frame DEF Account
<1> QED
  BY <1>3, <1>5 DEF Account

(* Reading from a client: the director's bytes go from the connection to   *)
(* buf, a piece of the operator's is counted.                              *)
LEMMA AccountPoll ==
    ASSUME TypeOK, TypeOK', Control, Account, NEW c \in Conns, conn_poll_for_msg(c)
    PROVE  Account'
<1>1. PICK n \in 0 .. Len(up[c]) :
          /\ n = 0 => up[c] = <<>>
          /\ buf' = SubSeq(up[c], 1, n)
          /\ up' = [up EXCEPT ![c] = SubSeq(@, n + 1, Len(@))]
          /\ pieces' = IF c = "operator" /\ n > 0 THEN pieces + 1 ELSE pieces
  BY DEF conn_poll_for_msg
<1>2. /\ pc = "poll" /\ pc' \in {"byte", "control"} /\ event'.fd = c /\ event'.hup = (peer[c] # "here")
      /\ UNCHANGED <<fd, peer, down, msg_in, handled, dpc, k>>
  BY DEF conn_poll_for_msg, directorVars
<1>3. buf = <<>> /\ up[c] \in Seq(Byte) /\ up["director"] \in Seq(Byte)
  BY <1>2, StreamType DEF Control, TypeOK
<1>4. Coming = up["director"]
  BY <1>3, StreamOf DEF Coming, Read
<1>5. Coming' = Coming
  <2>1. CASE c = "director"
    <3>1. up'["director"] = SubSeq(up["director"], n + 1, Len(up["director"]))
      BY <1>1, <2>1 DEF TypeOK
    <3>2. Coming' = SubSeq(up["director"], 1, n) \o SubSeq(up["director"], n + 1, Len(up["director"]))
      BY <3>1, <1>1, <1>2, <2>1 DEF Coming, Read
    <3> QED
      BY <3>2, <1>1, <1>3, <1>4, <2>1, Split
  <2>2. CASE c # "director"
    <3>1. up'["director"] = up["director"] /\ Read' = <<>>
      BY <1>1, <1>2, <2>2 DEF TypeOK, Read
    <3> QED
      BY <3>1, <1>3, <1>4, StreamOf DEF Coming
  <2> QED
    BY <2>1, <2>2
<1>6. Stream' = Stream /\ Here' = Here
  BY <1>2, <1>5 DEF Stream, Here
<1>7. Fresh' => Fresh
  BY <1>2 DEF Fresh, Here
<1>8. Lines'
  BY <1>5, <1>6 DEF Account, Lines
<1>9. (Alive' => Alive) /\ Waiting' = Waiting
  BY <1>2 DEF Alive, Waiting
<1>10. CASE c = "operator" /\ n > 0
  <2>1. pieces' = pieces + 1
    BY <1>1, <1>10
  <2>2. From("director")' = From("director") /\ Torn' = Torn
    BY <1>2 DEF From, Torn, Command
  <2>3. Cardinality(From("director"))' = Cardinality(From("director")) + 0
        /\ Cardinality(Torn)' = Cardinality(Torn) + 0 /\ 0 \in Nat
    BY <2>2, Counts
  <2> DEFINE w == Waiting   w2 == Waiting'
             o == Overflows o2 == Overflows'
             s == Spoiled   s2 == Spoiled'
             l == Lost      l2 == Lost'
             n1 == k        n2 == k'
             q == pieces    q2 == pieces'
  <2>4. /\ w2 \in {0, 1} /\ w \in {0, 1} /\ w2 = w /\ o \in {0, 1} /\ o2 \in {0, 1}
        /\ s \in {0, 1} /\ s2 \in {0, 1} /\ l \in {0, 1} /\ l2 \in {0, 1} /\ l <= l2
    BY <1>7, <1>9, Small DEF Lost
  <2>5. n2 = n1 /\ q2 = q + 1 /\ n1 \in Nat /\ q \in Nat
    BY <2>1, <1>2, Numbers DEF TypeOK
  <2> HIDE DEF w, w2, o, o2, s, s2, l, l2, n1, n2, q, q2
  <2>6. n2 + w2 + o2 + q <= n1 + w + o + q2 + 0
    BY <2>4, <2>5
  <2>7. 0 + s2 + q + l <= s + q2 + l2
    BY <2>4, <2>5
  <2>8. AheadBudget' /\ TornBudget'
    BY <2>3, <2>6, <2>7, <1>9, BudgetStep DEF Account, w, w2, o, o2, s, s2, l, l2, n1, n2, q, q2
  <2> QED
    BY <2>8, <1>8 DEF Account
<1>11. CASE ~(c = "operator" /\ n > 0)
  <2>1. event'.fd = "operator" => buf' = <<>>
    BY <1>1, <1>2, <1>3, <1>11, Split
  <2>2. Spoiled' <= Spoiled /\ Overflows' <= Overflows
    BY <2>1, <1>6, SameStream
  <2>3. pieces' = pieces /\ handled' = handled /\ k' = k
    BY <1>1, <1>2, <1>11
  <2>4. Waiting' <= Waiting
    BY <1>2 DEF Waiting
  <2>5. AheadBudget' /\ TornBudget'
    BY <2>2, <2>3, <2>4, <1>7, <1>9, Frame DEF Account
  <2> QED
    BY <2>5, <1>8 DEF Account
<1> QED
  BY <1>10, <1>11

(* Storing a byte: the stream is as it was, or the operator's.             *)
LEMMA AccountStore ==
    ASSUME TypeOK, TypeOK', Control, Account, Store
    PROVE  Account'
<1>1. /\ buf # <<>> /\ msg_in' = Append(msg_in, Head(buf)) /\ buf' = Tail(buf)
      /\ UNCHANGED <<fd, peer, up, down, pc, event, handled, pieces, dpc, k>>
  BY DEF Store, Advance, directorVars
<1>2. Here' = Here /\ (Fresh' => Fresh) /\ (Alive' => Alive)
  BY <1>1 DEF Here, Fresh, Alive
<1>3. Waiting' <= Waiting
  BY <1>1 DEF Waiting
<1>4. CASE event.fd = "director"
  <2>1. Coming' = Tail(Coming)
    BY <1>1, <1>4, NextByte DEF Account, Coming, Read
  <2>2. Lines'
    BY <2>1, <1>1, <1>2, <1>4, NextByte DEF Account, Lines
  <2>3. Stream' = Stream
    <3>1. msg_in \in Seq(Byte) /\ Coming \in Seq(Byte) /\ Coming # <<>> /\ Coming[1] = Head(buf)
      BY <1>1, <1>4, NextByte DEF Account, TypeOK
    <3> QED
      BY <3>1, <2>1, <1>1, StoreKeeps DEF Stream
  <2>4. Spoiled' <= Spoiled /\ Overflows' <= Overflows
    BY <2>3, <1>1, <1>2, <1>4, SameStream
  <2> QED
    BY <2>2, <2>4, <1>1, <1>2, <1>3, Frame DEF Account
<1>5. CASE event.fd = "operator"
  <2>1. Coming' = Coming
    BY <1>1, <1>5 DEF Coming, Read
  <2>2. Spoiled' <= Spoiled /\ Overflows' <= Overflows
    BY <1>1, <1>2, <1>5, Owed
  <2> QED
    BY <2>1, <2>2, <1>1, <1>2, <1>3, Frame DEF Account, Lines
<1> QED
  BY <1>4, <1>5 DEF TypeOK, Conns

(* What an answer comes to: it is taken and the server goes on with the    *)
(* next byte; the director is gone; or the operator is, and SIGPIPE comes. *)
LEMMA Answer ==
    ASSUME TypeOK, Control, pc = "byte", NEW what,
           \/ Write(event.fd, what, Advance(<<>>), Return)
           \/ Advance(<<>>) /\ UNCHANGED <<down, peer>>
    PROVE  /\ fd' = fd /\ event' = event /\ Here' = Here
           /\ event.fd = "operator" => down' = down
           /\ \/ pc' = pc /\ msg_in' = <<>> /\ buf' = Tail(buf)
              \/ /\ event.fd = "director" => ~Here
                 /\ pc' \in {"control", "killed"} /\ buf' = <<>>
                 /\ msg_in' = msg_in /\ down' = down
<1>1. event.fd \in {"director", "operator"} /\ peer \in [Conns -> {"here", "rst", "fin", "broken"}]
  BY DEF TypeOK, Conns
<1>2. fd' = fd /\ event' = event
  BY DEF Write, Killed, Advance, Return
<1>3. \/ peer' = peer
      \/ peer[event.fd] # "here" /\ peer' = [peer EXCEPT ![event.fd] = "broken"]
  BY DEF Write
<1>4. Here' = Here
  BY <1>1, <1>3 DEF Here, Conns
<1>5. event.fd = "operator" => down' = down
  BY DEF Write
<1>6. \/ pc' = pc /\ msg_in' = <<>> /\ buf' = Tail(buf)
      \/ /\ peer[event.fd] # "here"
         /\ pc' \in {"control", "killed"} /\ buf' = <<>> /\ msg_in' = msg_in /\ down' = down
  BY DEF Write, Killed, Advance, Return
<1> QED
  BY <1>1, <1>2, <1>4, <1>5, <1>6 DEF Here

(* What is being dropped spoils at most the director's next command.       *)
LEMMA LinesDropped ==
    ASSUME TypeOK, TypeOK', Lines, ~Here, event.fd = "director", event' = event,
           Here' = Here, up' = up, buf' = <<>>, pc' # "byte"
    PROVE  Lines' /\ ~Here' /\ ~Fresh' /\ Overflows' = 0
           /\ Coming' = up["director"]
<1>1. Coming' = up["director"]
  BY Dropped DEF Coming, Read
<1>2. ~Here' /\ ~Fresh' /\ Overflows' = 0
  BY DEF Here, Fresh, Overflows
<1>3. Lines'
  BY <1>1, <1>2, Dropped DEF Lines
<1> QED
  BY <1>1, <1>2, <1>3

(* A newline of the director's: the line is a command unless a spoiled one *)
(* was due, and what follows is not spoiled.                               *)
LEMMA AccountNewline ==
    ASSUME TypeOK, TypeOK', Control, Account, Newline
    PROVE  Account'
<1>1. /\ pc = "byte" /\ buf # <<>> /\ Head(buf) = NL
      /\ handled' = Append(handled, [msg |-> msg_in, fd |-> event.fd])
      /\ UNCHANGED <<up, pieces, dpc, k>>
  BY DEF Newline, directorVars
<1>2. \/ Write(event.fd, <<"answer">>, Advance(<<>>), Return)
      \/ Advance(<<>>) /\ UNCHANGED <<down, peer>>
  BY DEF Newline
<1>3. /\ fd' = fd /\ event' = event /\ Here' = Here
      /\ event.fd = "operator" => down' = down
      /\ \/ pc' = pc /\ msg_in' = <<>> /\ buf' = Tail(buf)
         \/ /\ event.fd = "director" => ~Here
            /\ pc' \in {"control", "killed"} /\ buf' = <<>> /\ msg_in' = msg_in /\ down' = down
  BY <1>1, <1>2, Answer
<1>4. /\ Cardinality(From("director"))' =
            Cardinality(From("director")) + IF event.fd = "director" THEN 1 ELSE 0
      /\ Cardinality(Torn)' =
            Cardinality(Torn) + IF event.fd = "director" /\ ~Command(msg_in) THEN 1 ELSE 0
  BY <1>1, Handling DEF TypeOK
<1>5. Here' = Here /\ (Fresh' => Fresh) /\ (Alive' => Alive)
  BY <1>1, <1>3 DEF Fresh, Alive
<1> DEFINE w == Waiting   w2 == Waiting'
           o == Overflows o2 == Overflows'
           s == Spoiled   s2 == Spoiled'
           l == Lost      l2 == Lost'
           n == k         q == pieces
           f == IF event.fd = "director" THEN 1 ELSE 0
           t == IF event.fd = "director" /\ ~Command(msg_in) THEN 1 ELSE 0
<1>6. /\ w \in {0, 1} /\ w2 \in {0, 1} /\ o \in {0, 1} /\ o2 \in {0, 1}
      /\ s \in {0, 1} /\ s2 \in {0, 1} /\ l \in {0, 1} /\ l2 \in {0, 1}
      /\ n \in Nat /\ q \in Nat /\ f \in {0, 1} /\ t \in {0, 1}
  BY Small, Numbers DEF TypeOK
<1>7. l <= l2
  BY <1>5 DEF Lost
<1>8. ASSUME Lines', w2 + o2 <= w + o + f, t + s2 + l <= s + l2
      PROVE  Account'
  <2>1. k' + Waiting' + Overflows' + pieces <= k + Waiting + Overflows + pieces' + f
    <3> HIDE DEF w, w2, o, o2, n, q, f
    <3>1. n + w2 + o2 + q <= n + w + o + q + f
      BY <1>6, <1>8
    <3> QED
      BY <3>1, <1>1 DEF w, w2, o, o2, n, q
  <2>2. t + Spoiled' + pieces + Lost <= Spoiled + pieces' + Lost'
    <3> HIDE DEF s, s2, l, l2, q, t
    <3>1. t + s2 + q + l <= s + q + l2
      BY <1>6, <1>8
    <3> QED
      BY <3>1, <1>1 DEF s, s2, l, l2, q
  <2>3. f \in Nat /\ t \in Nat
    BY <1>6
  <2>4. AheadBudget' /\ TornBudget'
    <3> HIDE DEF w, w2, o, o2, s, s2, l, l2, n, q
    <3> QED
      BY <2>1, <2>2, <2>3, <1>4, <1>5, BudgetStep DEF Account, f, t
  <2> QED
    BY <2>4, <1>8 DEF Account
<1>9. CASE event.fd = "operator"
  <2>1. Coming' = Coming
    BY <1>1, <1>3, <1>9 DEF Coming, Read
  <2>2. Lines'
    BY <2>1, <1>5 DEF Account, Lines
  <2>3. s2 <= s /\ o2 <= o
    BY <1>1, <1>5, <1>9, Owed
  <2>4. w2 = w /\ f = 0 /\ t = 0
    BY <1>1, <1>3, <1>9 DEF Waiting
  <2> HIDE DEF w, w2, o, o2, s, s2, l, l2, f, t
  <2>5. w2 + o2 <= w + o + f /\ t + s2 + l <= s + l2
    BY <2>3, <2>4, <1>6, <1>7
  <2> QED
    BY <2>2, <2>5, <1>8
<1>10. CASE event.fd = "director"
  <2>1. f = 1
    BY <1>10
  <2>2. t = 1 => s = 1
    <3> SUFFICES ASSUME ~Command(msg_in)  PROVE Spoiled = 1
      BY <1>10
    <3>1. ~Clean(Stream)
      <4>1. msg_in \in Seq(Byte) /\ NLFree(msg_in) /\ Coming \in Seq(Byte)
            /\ Coming # <<>> /\ Coming[1] = NL
        BY <1>1, <1>10, NextByte DEF TypeOK, Control, Account
      <4> QED
        BY <4>1, CleanCommand DEF Stream
    <3> QED
      BY <3>1 DEF Spoiled, Debt
  <2>3. CASE pc' = pc /\ msg_in' = <<>> /\ buf' = Tail(buf)
    <3>1. Coming' = Tail(Coming)
      BY <1>1, <1>3, <1>10, <2>3, NextByte DEF Account, Coming, Read
    <3>2. Stream' = Tail(Coming)
      BY <3>1, <2>3, <1>1, <1>10, NextByte DEF Account, Stream
    <3>3. Lines'
      BY <3>1, <1>1, <1>5, <1>10, NextByte DEF Account, Lines
    <3>4. s2 = 0 /\ o2 = 0
      <4>1. Clean(Stream') /\ Short(Stream') /\ (Here' => Ended(Stream')) /\ event'.fd # "operator"
        BY <3>2, <1>1, <1>3, <1>5, <1>10, NextByte DEF Account
      <4>2. s2 = 0
        BY <4>1 DEF Spoiled, Debt
      <4>3. o2 = 0
        BY <4>1 DEF Overflows, Debt
      <4> QED
        BY <4>2, <4>3
    <3> HIDE DEF w, w2, o, o2, s, s2, l, l2, f, t
    <3>5. w2 + o2 <= w + o + f /\ t + s2 + l <= s + l2
      BY <3>4, <2>1, <2>2, <1>6, <1>7
    <3> QED
      BY <3>3, <3>5, <1>8
  <2>4. CASE /\ event.fd = "director" => ~Here
             /\ pc' \in {"control", "killed"} /\ buf' = <<>> /\ msg_in' = msg_in /\ down' = down
    <3>1. ~Here /\ pc' # "byte" /\ UNCHANGED <<msg_in, down>> /\ buf' = <<>>
      BY <2>4, <1>10
    <3>2. Lines' /\ ~Fresh' /\ o2 = 0 /\ Coming' = up["director"]
      BY <3>1, <1>1, <1>3, <1>10, LinesDropped DEF Account
    <3>3. w2 = w
      BY <1>1, <2>4 DEF Waiting
    <3>4. l2 = 1
      BY <3>2 DEF Lost
    <3>5. l = 0 \/ s2 = 0
      <4>1. CASE event.hup
        <5>1. up["director"] = <<>> /\ NLFree(msg_in) /\ msg_in \in Seq(Byte) /\ Len(msg_in) <= MsgInLenMax
          BY <4>1, <1>10 DEF Control, TypeOK
        <5>2. Stream' = msg_in \o <<>>
          BY <5>1, <3>2, <2>4 DEF Stream
        <5>3. Clean(Stream') /\ Short(Stream')
          BY <5>1, <5>2, AloneClean
        <5>4. ~Here' /\ event'.fd # "operator"
          BY <3>1, <1>3, <1>5, <1>10
        <5> QED
          BY <5>3, <5>4 DEF Spoiled, Debt
      <4>2. CASE ~event.hup
        BY <4>2, <1>1, <1>10 DEF Lost, Fresh
      <4> QED
        BY <4>1, <4>2
    <3> HIDE DEF w, w2, o, o2, s, s2, l, l2, f, t
    <3>6. w2 + o2 <= w + o + f
      BY <3>2, <3>3, <2>1, <1>6
    <3>7. t + s2 + l <= s + l2
      BY <3>4, <3>5, <2>2, <1>6
    <3> QED
      BY <3>2, <3>6, <3>7, <1>8
  <2> QED
    BY <2>3, <2>4, <1>3, <1>10
<1> QED
  BY <1>9, <1>10 DEF TypeOK, Conns

(* A line too long: the director is told so only where it was due to be.   *)
LEMMA AccountTooLong ==
    ASSUME TypeOK, TypeOK', Control, Account, TooLong
    PROVE  Account'
<1>1. /\ pc = "byte" /\ buf # <<>> /\ Head(buf) # NL /\ Len(msg_in) >= MsgInLenMax
      /\ UNCHANGED <<up, handled, pieces, dpc, k>>
  BY DEF TooLong, directorVars
<1>2. Write(event.fd, <<"too long">>, Advance(<<>>), Return)
  BY DEF TooLong
<1>3. /\ fd' = fd /\ event' = event /\ Here' = Here
      /\ event.fd = "operator" => down' = down
      /\ \/ pc' = pc /\ msg_in' = <<>> /\ buf' = Tail(buf)
         \/ /\ event.fd = "director" => ~Here
            /\ pc' \in {"control", "killed"} /\ buf' = <<>> /\ msg_in' = msg_in /\ down' = down
  BY <1>1, <1>2, Answer
<1>5. Here' = Here /\ (Fresh' => Fresh) /\ (Alive' => Alive)
  BY <1>1, <1>3 DEF Fresh, Alive
<1>9. CASE event.fd = "operator"
  <2>1. Coming' = Coming
    BY <1>1, <1>3, <1>9 DEF Coming, Read
  <2>2. Lines'
    BY <2>1, <1>5 DEF Account, Lines
  <2>3. Spoiled' <= Spoiled /\ Overflows' <= Overflows
    BY <1>1, <1>5, <1>9, Owed
  <2>4. Waiting' <= Waiting
    BY <1>1, <1>3, <1>9 DEF Waiting
  <2> QED
    BY <2>2, <2>3, <2>4, <1>1, <1>5, Frame DEF Account
<1>10. CASE event.fd = "director"
  <2>1. ~Short(Stream)
    <3>1. msg_in \in Seq(Byte) /\ NLFree(msg_in) /\ Coming \in Seq(Byte)
          /\ Coming # <<>> /\ Coming[1] # NL
      BY <1>1, <1>10, NextByte DEF TypeOK, Control, Account
    <3>2. ~(Len(msg_in) < MsgInLenMax)
      BY <1>1, Numbers DEF TypeOK
    <3> QED
      BY <3>1, <3>2, NoOverflow DEF Stream
  <2>2. Spoiled = 1 /\ (Here => Overflows = 1)
    BY <2>1 DEF Spoiled, Overflows, Debt
  <2>3. CASE pc' = pc /\ msg_in' = <<>> /\ buf' = Tail(buf)
    <3>1. Coming' = Tail(Coming)
      BY <1>1, <1>3, <1>10, <2>3, NextByte DEF Account, Coming, Read
    <3>2. Stream' = Tail(Coming)
      BY <3>1, <2>3, <1>1, <1>10, NextByte DEF Account, Stream
    <3>3. Lines'
      BY <3>1, <1>1, <1>5, <1>10, NextByte DEF Account, Lines
    <3>4. Here
      <4>1. peer["director"] \in {"here", "fin"}
        BY <1>1, <1>2, <1>10, <2>3 DEF Write, Killed, Return
      <4> QED
        BY <4>1 DEF Here, Control
    <3>5. Overflows' = 0
      <4>1. Short(Stream') /\ Ended(Stream') /\ event'.fd # "operator"
        BY <3>2, <3>4, <1>1, <1>3, <1>10, NextByte DEF Account
      <4> QED
        BY <4>1 DEF Overflows, Debt
    <3>6. Cardinality(From("director"))' = Cardinality(From("director")) + 0
          /\ Cardinality(Torn)' = Cardinality(Torn) + 0 /\ 0 \in Nat
      <4>1. From("director")' = From("director") /\ Torn' = Torn
        BY <1>1 DEF From, Torn, Command
      <4> QED
        BY <4>1, Counts
    <3> DEFINE w == Waiting   w2 == Waiting'
               o == Overflows o2 == Overflows'
               s == Spoiled   s2 == Spoiled'
               l == Lost      l2 == Lost'
               n == k         q == pieces
    <3>7. /\ w \in {0, 1} /\ w2 \in {0, 1} /\ o = 1 /\ o2 = 0
          /\ s = 1 /\ s2 \in {0, 1} /\ l \in {0, 1} /\ l2 \in {0, 1}
          /\ n \in Nat /\ q \in Nat
      BY <2>2, <3>4, <3>5, Small, Numbers DEF TypeOK
    <3>8. l <= l2
      BY <1>5 DEF Lost
    <3>9. k' = n /\ pieces' = q
      BY <1>1
    <3> HIDE DEF w, w2, o, o2, s, s2, l, l2, n, q
    <3>10. n + w2 + o2 + q <= n + w + o + q + 0
      BY <3>7
    <3>11. 0 + s2 + q + l <= s + q + l2
      BY <3>7, <3>8
    <3>12. AheadBudget' /\ TornBudget'
      BY <3>6, <3>9, <3>10, <3>11, <1>5, BudgetStep DEF Account, w, w2, o, o2, s, s2, l, l2, n, q
    <3> QED
      BY <3>3, <3>12 DEF Account
  <2>4. CASE /\ event.fd = "director" => ~Here
             /\ pc' \in {"control", "killed"} /\ buf' = <<>> /\ msg_in' = msg_in /\ down' = down
    <3>1. ~Here /\ pc' # "byte" /\ UNCHANGED <<msg_in, down>> /\ buf' = <<>>
      BY <2>4, <1>10
    <3>2. Lines' /\ Overflows' = 0
      BY <3>1, <1>1, <1>3, <1>10, LinesDropped DEF Account
    <3>3. Waiting' <= Waiting
      BY <1>1, <2>4 DEF Waiting
    <3>4. Spoiled' <= Spoiled
      <4>1. Spoiled' = 0 \/ Spoiled' = 1
        BY Small
      <4> QED
        BY <4>1, <2>2
    <3>5. Overflows' <= Overflows
      BY <3>1, <3>2 DEF Overflows
    <3> QED
      BY <3>2, <3>3, <3>4, <3>5, <1>1, <1>5, Frame DEF Account
  <2> QED
    BY <2>3, <2>4, <1>3, <1>10
<1> QED
  BY <1>9, <1>10 DEF TypeOK, Conns

(* The director's next command, after a newline.                           *)
LEMMA AccountSend ==
    ASSUME TypeOK, TypeOK', Control, Account, dpc = "idle", k \in 1 .. NCommands, Here,
           up' = [up EXCEPT !["director"] = @ \o Line(k)],
           UNCHANGED <<fd, peer, down, pc, event, buf, msg_in, handled, pieces, k>>, dpc' = "wait"
    PROVE  Account'
<1>1. /\ Read \in Seq(Byte) /\ up["director"] \in Seq(Byte)
      /\ Coming \in Seq(Byte) /\ Stream \in Seq(Byte) /\ msg_in \in Seq(Byte)
  BY StreamType DEF TypeOK
<1>2. Line(k) \in Seq(Byte)
  BY UnitsType
<1>3. Coming' = Coming \o Line(k)
  <2>3. Read' = Read
    BY DEF Read
  <2>1. up'["director"] = up["director"] \o Line(k)
    <3>1. up \in [Conns -> Seq(Byte)] /\ "director" \in Conns
      BY DEF TypeOK, Conns
    <3> QED
      BY <3>1
  <2>2. Read \o (up["director"] \o Line(k)) = (Read \o up["director"]) \o Line(k)
    <3> DEFINE r == Read
               u == up["director"]
               t == Line(k)
    <3>1. r \in Seq(Byte) /\ u \in Seq(Byte) /\ t \in Seq(Byte)
      BY <1>1, <1>2
    <3> HIDE DEF r, u, t
    <3>2. r \o (u \o t) = (r \o u) \o t
      BY <3>1, ConcatAssociative
    <3> QED
      BY <3>2 DEF r, u, t
  <2> QED
    BY <2>1, <2>2, <2>3 DEF Coming
<1>4. Stream' = Stream \o Line(k)
  <2>1. msg_in \o (Coming \o Line(k)) = (msg_in \o Coming) \o Line(k)
    <3> DEFINE u == Coming
               t == Line(k)
    <3>1. msg_in \in Seq(Byte) /\ u \in Seq(Byte) /\ t \in Seq(Byte)
      BY <1>1, <1>2
    <3> HIDE DEF u, t
    <3>2. msg_in \o (u \o t) = (msg_in \o u) \o t
      BY <3>1, ConcatAssociative
    <3> QED
      BY <3>2 DEF u, t
  <2> QED
    BY <2>1, <1>3 DEF Stream
<1>5. Coming' \in Seq(Byte) /\ Stream' \in Seq(Byte)
  BY <1>1, <1>2, <1>3, <1>4, ConcatProperties
<1>6. Here' /\ (Fresh' => Fresh) /\ (Alive' => Alive) /\ Waiting' <= Waiting
  BY DEF Here, Fresh, Alive, Waiting
<1>7. Ended(Coming) /\ Rest(Coming) /\ Short(Coming)
  BY DEF Account, Lines
<1>8. Lines'
  <2>1. Rest(Coming') /\ Short(Coming') /\ Ended(Coming')
    BY <1>1, <1>3, <1>5, <1>7, Extended
  <2> QED
    BY <2>1 DEF Lines
<1>9. Ended(Stream) =>
        /\ Clean(Stream) => Clean(Stream')
        /\ Short(Stream) => Short(Stream')
        /\ Ended(Stream')
  BY <1>1, <1>4, <1>5, Extended
<1>10. Spoiled' = 0 \/ Spoiled = 1
  BY <1>9 DEF Spoiled, Debt
<1>11. Overflows' = 0 \/ Overflows = 1
  BY <1>9 DEF Overflows, Debt
<1>12. Spoiled' <= Spoiled /\ Overflows' <= Overflows
  <2> DEFINE s == Spoiled   s2 == Spoiled'
             o == Overflows o2 == Overflows'
  <2>1. s \in {0, 1} /\ s2 \in {0, 1} /\ o \in {0, 1} /\ o2 \in {0, 1}
    BY Small
  <2>2. (s2 = 0 \/ s = 1) /\ (o2 = 0 \/ o = 1)
    BY <1>10, <1>11
  <2> HIDE DEF s, s2, o, o2
  <2>3. s2 <= s /\ o2 <= o
    BY <2>1, <2>2
  <2> QED
    BY <2>3 DEF s, s2, o, o2
<1> QED
  BY <1>6, <1>8, <1>12, Frame DEF Account

(* A reset: what is coming is a part of what was, from the front.          *)
LEMMA ResetPrefix ==
    ASSUME TypeOK, Reset
    PROVE  /\ Coming \in Seq(Byte) /\ Coming' \in Seq(Byte) /\ Len(Coming') <= Len(Coming)
           /\ \A i \in 1 .. Len(Coming') : Coming'[i] = Coming[i]
           /\ Stream \in Seq(Byte) /\ Stream' \in Seq(Byte) /\ Len(Stream') <= Len(Stream)
           /\ \A i \in 1 .. Len(Stream') : Stream'[i] = Stream[i]
<1>1. PICK n \in 0 .. Len(up["director"]) :
          up' = [up EXCEPT !["director"] = SubSeq(@, 1, n)]
  BY DEF Reset
<1>2. UNCHANGED <<event, buf, msg_in>>
  BY DEF Reset, serverVars
<1> DEFINE u == up["director"]
           v == SubSeq(u, 1, n)
           r == Read
           p == Coming
           p2 == Coming'
           z == Stream
           z2 == Stream'
<1>3. u \in Seq(Byte) /\ r \in Seq(Byte) /\ p \in Seq(Byte) /\ z \in Seq(Byte) /\ msg_in \in Seq(Byte)
  BY StreamType DEF TypeOK
<1>4. v \in Seq(Byte) /\ Len(v) = n /\ n <= Len(u) /\ n \in Nat /\ \A i \in 1 .. n : v[i] = u[i]
  BY <1>1, <1>3, Split
<1>5. up'["director"] = v
  BY <1>1 DEF TypeOK, Conns
<1>6. p = r \o u /\ p2 = r \o v
  BY <1>2, <1>5 DEF Coming, Read
<1>7. z = msg_in \o p /\ z2 = msg_in \o p2
  BY <1>2 DEF Stream
<1> HIDE DEF u, v, r, p, p2, z, z2
<1>8. ASSUME NEW a \in Seq(Byte), NEW b \in Seq(Byte), NEW d \in Seq(Byte), Len(d) <= Len(b),
             \A i \in 1 .. Len(d) : d[i] = b[i]
      PROVE  /\ a \o d \in Seq(Byte) /\ Len(a \o d) <= Len(a \o b)
             /\ \A i \in 1 .. Len(a \o d) : (a \o d)[i] = (a \o b)[i]
  <2>1. Len(a) \in Nat /\ Len(b) \in Nat /\ Len(d) \in Nat
    OBVIOUS
  <2>2. /\ a \o d \in Seq(Byte) /\ Len(a \o d) = Len(a) + Len(d) /\ Len(a \o b) = Len(a) + Len(b)
        /\ \A i \in 1 .. Len(a) + Len(d) : (a \o d)[i] = IF i <= Len(a) THEN a[i] ELSE d[i - Len(a)]
        /\ \A i \in 1 .. Len(a) + Len(b) : (a \o b)[i] = IF i <= Len(a) THEN a[i] ELSE b[i - Len(a)]
    BY ConcatProperties
  <2>3. ASSUME NEW i \in 1 .. Len(a) + Len(d)  PROVE (a \o d)[i] = (a \o b)[i]
    <3>1. i \in 1 .. Len(a) + Len(b) /\ (~(i <= Len(a)) => i - Len(a) \in 1 .. Len(d))
      BY <1>8, <2>1
    <3> QED
      BY <3>1, <1>8, <2>2
  <2> QED
    BY <1>8, <2>1, <2>2, <2>3
<1>9. p2 \in Seq(Byte) /\ Len(p2) <= Len(p) /\ \A i \in 1 .. Len(p2) : p2[i] = p[i]
  BY <1>3, <1>4, <1>6, <1>8
<1>10. z2 \in Seq(Byte) /\ Len(z2) <= Len(z) /\ \A i \in 1 .. Len(z2) : z2[i] = z[i]
  BY <1>3, <1>7, <1>8, <1>9
<1> QED
  BY <1>3, <1>9, <1>10 DEF p, p2, z, z2

(* A reset takes from the end of what is coming, and buys a spoiled line.  *)
LEMMA AccountReset ==
    ASSUME TypeOK, TypeOK', Control, Account, Reset
    PROVE  Account'
<1>1. /\ Here /\ ~Here' /\ UNCHANGED <<fd, pc, event, buf, msg_in, handled, pieces, dpc, k>>
      /\ down' \in {down, <<>>}
  BY DEF Reset, serverVars, directorVars, Here, TypeOK, Conns
<1>2. Lines'
  <2>1. Rest(Coming') /\ Short(Coming')
    BY ResetPrefix, Prefix DEF Account, Lines
  <2> QED
    BY <2>1, <1>1 DEF Lines
<1>3. Fresh /\ (Alive' => Alive) /\ Overflows' = 0
  BY <1>1 DEF Fresh, Alive, Overflows
<1>4. Waiting' <= Waiting
  BY <1>1 DEF Waiting
<1>5. Spoiled' = 0 \/ Spoiled = 1
  <2>1. (Clean(Stream) => Clean(Stream')) /\ (Short(Stream) => Short(Stream'))
    BY ResetPrefix, Prefix
  <2> QED
    BY <2>1, <1>1 DEF Spoiled, Debt
<1>6. Spoiled' <= Spoiled /\ Overflows' <= Overflows
  <2> DEFINE s == Spoiled   s2 == Spoiled'
             o == Overflows o2 == Overflows'
  <2>1. s \in {0, 1} /\ s2 \in {0, 1} /\ o \in {0, 1} /\ o2 = 0 /\ (s2 = 0 \/ s = 1)
    BY <1>3, <1>5, Small
  <2> HIDE DEF s, s2, o, o2
  <2>3. s2 <= s /\ o2 <= o
    BY <2>1
  <2> QED
    BY <2>3 DEF s, s2, o, o2
<1> QED
  BY <1>1, <1>2, <1>3, <1>4, <1>6, Frame DEF Account

(* Every step keeps the account.                                           *)
LEMMA AccountNext ==
    ASSUME TypeOK, TypeOK', Control, Control', Account, [Next]_vars
    PROVE  Account'
<1>a. up \in [Conns -> Seq(Byte)] /\ peer \in [Conns -> {"here", "rst", "fin", "broken"}]
      /\ "director" \in Conns /\ "operator" \in Conns
  BY DEF TypeOK, Conns
<1>b. ASSUME down' = down, dpc' = dpc  PROVE Waiting' <= Waiting
  BY <1>b DEF Waiting
<1>c. ASSUME down' = <<>> \/ dpc' \notin {"idle", "wait"}  PROVE Waiting' <= Waiting
  BY <1>c DEF Waiting
<1>1. ASSUME NEW c \in Conns, conn_poll_for_conn(c)  PROVE Account'
  <2>1. /\ pc = "poll" /\ fd[c] = "pending" /\ pc' \in {"poll", "killed"}
        /\ UNCHANGED <<up, event, msg_in, handled, pieces, dpc, k>> /\ buf' = buf
    BY <1>1 DEF conn_poll_for_conn, Write, Killed, directorVars, Control
  <2>2. peer' = peer \/ (peer[c] # "here" /\ peer' = [peer EXCEPT ![c] = "broken"])
    BY <1>1 DEF conn_poll_for_conn, Write
  <2>3. Here' = Here
    BY <2>2, <1>a DEF Here, Conns
  <2>4. Waiting' <= Waiting
    <3>1. CASE down' = down
      BY <3>1, <2>1, <1>b
    <3>2. CASE down' # down
      <4>1. c = "director"
        BY <3>2, <1>1 DEF conn_poll_for_conn, Write
      <4>2. dpc = "hello"
        BY <4>1, <2>1 DEF Control, Alive
      <4> QED
        BY <4>2, <2>1, <1>c
    <3> QED
      BY <3>1, <3>2
  <2> QED
    BY <2>1, <2>3, <2>4, Aside DEF Alive, Here
<1>2. ASSUME NEW c \in Conns, conn_poll_for_msg(c)  PROVE Account'
  BY <1>2, AccountPoll
<1>3. CASE Newline
  BY <1>3, AccountNewline
<1>4. CASE Store
  BY <1>4, AccountStore
<1>5. CASE TooLong
  BY <1>5, AccountTooLong
<1>6. CASE Prompt
  <2>1. /\ pc = "byte" /\ buf = <<>>
        /\ UNCHANGED <<up, handled, pieces, dpc, k>>
    BY <1>6 DEF Prompt, directorVars
  <2>2. UNCHANGED <<event, msg_in>> /\ buf' = buf /\ pc' # "byte"
        /\ \/ peer' = peer
           \/ peer[event.fd] # "here" /\ peer' = [peer EXCEPT ![event.fd] = "broken"]
    BY <1>6, <2>1 DEF Prompt, Write, Killed, Return
  <2>5. Here' = Here
    BY <2>2, <1>a DEF Here, TypeOK, Conns
  <2>3. down' = down
    BY <1>6, ConcatEmptySeq DEF Prompt, Write, TypeOK
  <2>4. Waiting' <= Waiting
    BY <2>1, <2>3, <1>b
  <2> QED
    BY <2>1, <2>2, <2>4, <2>5, Aside DEF Alive
<1>7. CASE control_event_handle
  <2>1. pc' = "poll" /\ pc = "control" /\ UNCHANGED <<peer, up, down, event, buf, msg_in, handled, pieces, dpc, k>>
    BY <1>7 DEF control_event_handle, directorVars
  <2> QED
    BY <2>1, <1>b, Aside DEF Alive, Here
<1>8. CASE Construct
  <2>1. UNCHANGED <<peer, up, down, pc, event, buf, msg_in, handled, pieces, k>> /\ dpc' = "hello"
    BY <1>8 DEF Construct, serverVars
  <2> QED
    BY <2>1, <1>c, Aside DEF Alive, Here
<1>9. CASE Hello
  <2>1. UNCHANGED <<peer, up, pc, event, buf, msg_in, handled, pieces, k>> /\ down' = <<>>
    BY <1>9 DEF Hello, serverVars
  <2> QED
    BY <2>1, <1>c, Aside DEF Alive, Here
<1>10. CASE send_command
  <2>1. /\ UNCHANGED <<fd, peer, down, pc, event, buf, msg_in, handled, pieces, k>>
        /\ dpc = "idle" /\ k <= NCommands
    BY <1>10 DEF send_command, serverVars
  <2>2. k \in 1 .. NCommands
    BY <2>1, Numbers DEF TypeOK
  <2>3. CASE Alive /\ peer["director"] = "here"
    <3>1. up' = [up EXCEPT !["director"] = @ \o Line(k)] /\ dpc' = "wait"
      BY <1>10, <2>3 DEF send_command
    <3> QED
      BY <2>1, <2>2, <2>3, <3>1, AccountSend DEF Here
  <2>4. CASE ~(Alive /\ peer["director"] = "here")
    <3>1. up' = up /\ dpc' = "retry"
      BY <1>10, <2>4 DEF send_command
    <3> QED
      BY <2>1, <3>1, <1>c, Aside DEF Alive, Here
  <2> QED
    BY <2>3, <2>4
<1>11. CASE Receive
  <2>1. /\ UNCHANGED <<fd, peer, up, pc, event, buf, msg_in, handled, pieces>>
        /\ down' = <<>> /\ dpc = "wait"
    BY <1>11 DEF Receive, serverVars
  <2>2. CASE k' = k
    BY <2>1, <2>2, <1>c, Aside DEF Alive, Here
  <2>3. CASE k' # k
    <3>1. k' = k + 1 /\ (down # <<>> \/ ~Alive)
      BY <1>11, <2>3 DEF Receive
    <3>2. UNCHANGED <<Coming, Stream, Here, Fresh, Alive>>
      BY <2>1 DEF Coming, Stream, Read, Here, Fresh, Alive
    <3>3. Lines'
      BY <3>2 DEF Account, Lines
    <3>4. Spoiled' <= Spoiled /\ Overflows' <= Overflows
      BY <2>1, <3>2, SameStream
    <3>5. From("director")' = From("director") /\ Torn' = Torn
      BY <2>1 DEF From, Torn, Command
    <3>6. Cardinality(From("director"))' = Cardinality(From("director")) + 0
          /\ Cardinality(Torn)' = Cardinality(Torn) + 0 /\ 0 \in Nat
      BY <3>5, Counts
    <3>7. Waiting' = 0 /\ (Alive => Waiting = 1)
      BY <2>1, <3>1 DEF Waiting
    <3> DEFINE w == Waiting   w2 == Waiting'
               o == Overflows o2 == Overflows'
               s == Spoiled   s2 == Spoiled'
               l == Lost      l2 == Lost'
               n == k         n2 == k'
               q == pieces    q2 == pieces'
    <3>8. /\ o \in {0, 1} /\ o2 \in {0, 1} /\ w2 = 0 /\ (Alive => w = 1)
          /\ s \in {0, 1} /\ s2 \in {0, 1} /\ l \in {0, 1}
          /\ n \in Nat /\ q \in Nat
      BY <3>7, Small, Numbers DEF TypeOK
    <3>9. o2 <= o /\ s2 <= s /\ l2 = l /\ q2 = q /\ n2 = n + 1
      BY <2>1, <3>1, <3>2, <3>4 DEF Lost
    <3> HIDE DEF w, w2, o, o2, s, s2, l, l2, n, n2, q, q2
    <3>10. Alive => n2 + w2 + o2 + q <= n + w + o + q2 + 0
      BY <3>8, <3>9
    <3>11. 0 + s2 + q + l <= s + q2 + l2
      BY <3>8, <3>9
    <3>12. AheadBudget' /\ TornBudget'
      BY <3>2, <3>6, <3>10, <3>11, BudgetStep DEF Account, w, w2, o, o2, s, s2, l, l2, n, n2, q, q2
    <3> QED
      BY <3>3, <3>12 DEF Account
  <2> QED
    BY <2>2, <2>3
<1>12. CASE Retry
  <2>1. /\ UNCHANGED <<peer, up, pc, event, buf, msg_in, handled, pieces, k>>
        /\ dpc' \in {"raised", "retry"}
    BY <1>12 DEF Retry, serverVars
  <2> QED
    BY <2>1, <1>c, Aside DEF Alive, Here
<1>13. CASE Reset
  BY <1>13, AccountReset
<1>14. CASE OperatorTypes
  <2>1. /\ UNCHANGED <<peer, down, pc, event, buf, msg_in, handled, pieces, dpc, k>>
        /\ \E x : up' = [up EXCEPT !["operator"] = x]
    BY <1>14 DEF OperatorTypes, serverVars, directorVars
  <2>2. up'["director"] = up["director"]
    BY <2>1, <1>a
  <2> QED
    BY <2>1, <2>2, <1>b, Aside DEF Alive, Here
<1>15. CASE OperatorLeaves
  <2>1. /\ UNCHANGED <<up, down, pc, event, buf, msg_in, handled, pieces, dpc, k>>
        /\ peer' = [peer EXCEPT !["operator"] = "fin"]
    BY <1>15 DEF OperatorLeaves, serverVars, directorVars
  <2>2. peer'["director"] = peer["director"]
    BY <2>1, <1>a
  <2> QED
    BY <2>1, <2>2, <1>b, Aside DEF Alive, Here
<1>16. CASE UNCHANGED vars
  <2>1. UNCHANGED <<peer, up, down, pc, event, buf, msg_in, handled, pieces, dpc, k>>
    BY <1>16 DEF vars, serverVars, directorVars
  <2> QED
    BY <2>1, <1>b, Aside DEF Alive, Here
<1> QED
  BY <1>1, <1>2, <1>3, <1>4, <1>5, <1>6, <1>7, <1>8, <1>9, <1>10, <1>11, <1>12, <1>13, <1>14,
     <1>15, <1>16 DEF Next, Server, DataEvent, Director

-------------------------------------------------------------------------------
(* The front of a command's line, with what is next.                       *)
LEMMA LineFront ==
    ASSUME NEW n \in 1 .. NCommands, NEW m \in Seq(Byte), NEW p \in Seq(Byte),
           NLFree(m), p # <<>>, NEW x \in 0 .. Len(Line(n)), m \o p = SubSeq(Line(n), 1, x)
    PROVE  /\ p[1] = NL => m = Units(n) /\ Len(p) = 1
           /\ p[1] # NL => Len(m) < MsgInLenMax
<1> DEFINE l == Len(m)
           c == Length(n)
           s == m \o p
           u == Units(n)
           q == Len(p)
<1>1. /\ Line(n) \in Seq(Byte) /\ Len(Line(n)) = c + 1 /\ c \in Nat /\ c <= MsgInLenMax
      /\ MsgInLenMax \in Nat /\ n \in Nat
      /\ \A i \in 1 .. c : Line(n)[i] = <<"director", n>>
      /\ Line(n)[c + 1] = NL
  BY UnitsType, Numbers
<1>2. /\ u \in Seq(Byte) /\ Len(u) = c /\ \A i \in 1 .. c : u[i] = <<"director", n>>
  BY UnitsType
<1>3. <<"director", n>> # NL
  BY <1>1, Bytes
<1>a. l \in Nat /\ q \in Nat
  OBVIOUS
<1>b. q > 0
  BY EmptySeq
<1>c. s \in Seq(Byte)
  BY ConcatProperties
<1>4. Len(s) = l + q
      /\ \A i \in 1 .. l + q : s[i] = IF i <= l THEN m[i] ELSE p[i - l]
  BY ConcatProperties
<1>5. x \in 0 .. c + 1 /\ Len(s) = x /\ \A i \in 1 .. x : s[i] = Line(n)[i]
  <2>1. Len(SubSeq(Line(n), 1, x)) = x /\ \A i \in 1 .. x : SubSeq(Line(n), 1, x)[i] = Line(n)[i]
    BY <1>1, Split
  <2> QED
    BY <2>1, <1>1
<1> HIDE DEF l, c, s, u, q
<1>6. x = l + q /\ x \in Nat /\ x <= c + 1 /\ l + 1 \in 1 .. x
  BY <1>1, <1>4, <1>5, <1>a, <1>b
<1>7. s[l + 1] = p[1]
  BY <1>4, <1>a, <1>b
<1>8. s[l + 1] = Line(n)[l + 1]
  BY <1>5, <1>6
<1>9. l + 1 <= c \/ l = c
  BY <1>1, <1>a, <1>b, <1>6
<1>10. CASE l + 1 <= c
  <2>1. p[1] # NL
    <3>1. l + 1 \in 1 .. c
      BY <1>10, <1>1, <1>a
    <3> QED
      BY <3>1, <1>1, <1>3, <1>7, <1>8
  <2>2. l < MsgInLenMax
    BY <1>10, <1>1, <1>a
  <2> QED
    BY <2>1, <2>2 DEF l
<1>11. CASE l = c
  <2>1. p[1] = NL
    BY <1>11, <1>1, <1>7, <1>8
  <2>2. Len(p) = 1
    <3>1. q = 1
      BY <1>a, <1>b, <1>6, <1>11, <1>1
    <3> QED
      BY <3>1 DEF q
  <2>3. ASSUME NEW i \in 1 .. l  PROVE m[i] = u[i]
    <3>1. i \in 1 .. c /\ i \in 1 .. x /\ i \in 1 .. l + q /\ i <= l
      BY <1>11, <1>1, <1>a, <1>b, <1>6
    <3> QED
      BY <3>1, <1>1, <1>2, <1>4, <1>5
  <2>4. m = u
    <3>1. Len(m) = Len(u)
      BY <1>2, <1>11 DEF l
    <3> QED
      BY <3>1, <2>3, <1>2, SeqEqual DEF l
  <2> QED
    BY <2>1, <2>2, <2>4 DEF u
<1> QED
  BY <1>9, <1>10, <1>11

(* What is left of a command, and what is quiet, while nobody looks.       *)
LEMMA StillUnhandled ==
    ASSUME Coming' = Coming, Stream' = Stream, msg_in' = msg_in, Here' = Here, k' = k,
           dpc' = dpc, down' = down
    PROVE  (Unhandled => Unhandled') /\ (Quiet => Quiet')
<1>1. Quiet => Quiet'
  BY DEF Quiet
<1>2. Unhandled => Unhandled'
  BY <1>1 DEF Unhandled
<1> QED
  BY <1>1, <1>2

(* A step that handles nothing while the director is alone.                *)
LEMMA AloneStill ==
    ASSUME TypeOK, Alone, handled' = handled, k' = k, pieces' = pieces,
           event'.fd = event.fd, Alive' => Alive,
           Alive' /\ fd'["operator"] \in {"pending", "open"} =>
               fd["operator"] \in {"pending", "open"} /\ up'["operator"] = up["operator"],
           Alive' /\ Len(handled) = k - 1 /\ Unhandled => Unhandled',
           Alive' /\ dpc \in {"wait", "retry", "raised"} /\ Quiet =>
               dpc' \in {"wait", "retry", "raised"} /\ Quiet'
    PROVE  Alone'
<1> SUFFICES ASSUME pieces = 0
             PROVE  /\ \A i \in DOMAIN handled :
                          handled[i] = [msg |-> Units(i), fd |-> "director"]
                    /\ Len(handled) <= NCommands
                    /\ Alive' =>
                          /\ event'.fd = "director"
                          /\ fd'["operator"] \in {"pending", "open"} => up'["operator"] # <<>>
                          /\ \/ Len(handled) = k - 1 /\ Unhandled'
                             \/ Len(handled) = k /\ k <= NCommands
                                /\ dpc' \in {"wait", "retry", "raised"} /\ Quiet'
  BY DEF Alone
<1>1. /\ \A i \in DOMAIN handled : handled[i] = [msg |-> Units(i), fd |-> "director"]
      /\ Len(handled) <= NCommands
      /\ Alive =>
            /\ event.fd = "director"
            /\ fd["operator"] \in {"pending", "open"} => up["operator"] # <<>>
            /\ \/ Len(handled) = k - 1 /\ Unhandled
               \/ Len(handled) = k /\ k <= NCommands
                  /\ dpc \in {"wait", "retry", "raised"} /\ Quiet
  BY DEF Alone
<1> QED
  BY <1>1

(* The server is gone, and handles nothing any more.                       *)
LEMMA AloneGone ==
    ASSUME Alone, handled' = handled, pieces' = pieces, ~Alive'
    PROVE  Alone'
BY DEF Alone

(* The director's bytes are taken from its connection.                     *)
LEMMA AlonePoll ==
    ASSUME TypeOK, TypeOK', Control, Alone, NEW c \in Conns, conn_poll_for_msg(c)
    PROVE  Alone'
<1> SUFFICES ASSUME pieces' = 0  PROVE Alone'
  BY DEF Alone
<1>1. PICK n \in 0 .. Len(up[c]) :
          /\ n = 0 => up[c] = <<>>
          /\ buf' = SubSeq(up[c], 1, n)
          /\ up' = [up EXCEPT ![c] = SubSeq(@, n + 1, Len(@))]
          /\ pieces' = IF c = "operator" /\ n > 0 THEN pieces + 1 ELSE pieces
  BY DEF conn_poll_for_msg
<1>2. /\ pc = "poll" /\ pc' \in {"byte", "control"} /\ event'.fd = c /\ fd[c] = "open"
      /\ UNCHANGED <<fd, peer, down, msg_in, handled, dpc, k>>
  BY DEF conn_poll_for_msg, directorVars
<1>3. buf = <<>> /\ up[c] \in Seq(Byte) /\ up["director"] \in Seq(Byte) /\ n \in Nat
  BY <1>2, StreamType DEF Control, TypeOK
<1>4. pieces' = pieces
  <2>1. pieces \in Nat /\ pieces' \in {pieces, pieces + 1}
    BY <1>1 DEF TypeOK
  <2> QED
    BY <2>1
<1>5. c = "director"
  <2> SUFFICES ASSUME c = "operator"  PROVE FALSE
    BY DEF Conns
  <2>1. up[c] # <<>>
    BY <1>2, <1>4 DEF Alone, Alive
  <2>2. n > 0
    BY <2>1, <1>1, <1>3
  <2>3. pieces' = pieces + 1 /\ pieces \in Nat
    BY <2>2, <1>1 DEF TypeOK
  <2> QED
    BY <2>3, <1>4
<1>6. event.fd = "director" /\ Alive
  BY <1>2, <1>4 DEF Alone, Alive
<1>7. Coming' = Coming
  <2>1. Coming = up["director"]
    BY <1>3, StreamOf DEF Coming, Read
  <2>2. up'["director"] = SubSeq(up["director"], n + 1, Len(up["director"]))
    BY <1>1, <1>5 DEF TypeOK
  <2>3. Coming' = SubSeq(up["director"], 1, n) \o SubSeq(up["director"], n + 1, Len(up["director"]))
    BY <2>2, <1>1, <1>2, <1>5 DEF Coming, Read
  <2> QED
    BY <2>1, <2>3, <1>1, <1>3, <1>5, Split
<1>8. Stream' = Stream /\ Here' = Here
  BY <1>2, <1>7 DEF Stream, Here
<1>9. up'["operator"] = up["operator"]
  BY <1>1, <1>5 DEF TypeOK, Conns
<1>10. (Unhandled => Unhandled') /\ (Quiet => Quiet')
  BY <1>2, <1>7, <1>8, StillUnhandled
<1>11. Alive'
  BY <1>2 DEF Alive
<1> QED
  BY <1>2, <1>4, <1>5, <1>6, <1>9, <1>10, <1>11, AloneStill

(* A byte, or a newline, of the director's.                                *)
LEMMA AloneByte ==
    ASSUME TypeOK, TypeOK', Control, Account, Alone, Newline \/ Store \/ TooLong
    PROVE  Alone'
<1> SUFFICES ASSUME pieces' = 0  PROVE Alone'
  BY DEF Alone
<1>1. /\ pc = "byte" /\ buf # <<>>
      /\ UNCHANGED <<up, pieces, dpc, k>>
  BY DEF Newline, Store, TooLong, directorVars
<1>2. pieces = 0 /\ event.fd = "director" /\ Alive
      /\ (fd["operator"] \in {"pending", "open"} => up["operator"] # <<>>)
      /\ (\A i \in DOMAIN handled : handled[i] = [msg |-> Units(i), fd |-> "director"])
  BY <1>1 DEF Alone, Alive
<1>3. /\ Coming \in Seq(Byte) /\ Coming # <<>> /\ Coming[1] = Head(buf)
      /\ Tail(Coming) = Tail(buf) \o up["director"]
  BY <1>1, <1>2, NextByte DEF Account
<1>4. ~Quiet
  BY <1>3 DEF Quiet
<1>5. Len(handled) = k - 1 /\ Unhandled
  BY <1>2, <1>4 DEF Alone
<1>6. /\ dpc \in {"wait", "retry", "raised"} /\ k <= NCommands /\ (dpc = "wait" => down = <<>>)
      /\ \E n \in 0 .. Len(Line(k)) :
            Stream = SubSeq(Line(k), 1, n) /\ (Here => n = Len(Line(k)))
  BY <1>4, <1>5 DEF Unhandled
<1>7. PICK n \in 0 .. Len(Line(k)) : Stream = SubSeq(Line(k), 1, n)
  BY <1>6
<1>8. k \in 1 .. NCommands /\ k \in Nat
  BY <1>6, Numbers DEF TypeOK
<1>9. msg_in \in Seq(Byte) /\ NLFree(msg_in) /\ handled \in Seq([msg : Seq(Byte), fd : Conns])
  BY DEF TypeOK, Control
<1>10. /\ Head(buf) = NL => msg_in = Units(k) /\ Len(Coming) = 1
       /\ Head(buf) # NL => Len(msg_in) < MsgInLenMax
  BY <1>3, <1>7, <1>8, <1>9, LineFront DEF Stream
<1>11. CASE Store
  <2>1. /\ msg_in' = Append(msg_in, Head(buf)) /\ buf' = Tail(buf)
        /\ UNCHANGED <<fd, peer, up, down, pc, event, handled, pieces, dpc, k>>
    BY <1>11 DEF Store, Advance, directorVars
  <2>2. Coming' = Tail(Coming)
    BY <2>1, <1>2, <1>3 DEF Coming, Read
  <2>3. Stream' = Stream
    BY <2>1, <2>2, <1>3, <1>9, StoreKeeps DEF Stream
  <2>4. Here' = Here /\ Alive'
    BY <2>1, <1>2 DEF Here, Alive
  <2>5. Unhandled'
    BY <2>1, <2>3, <2>4, <1>6 DEF Unhandled
  <2> QED
    BY <2>1, <2>4, <2>5, <1>2, <1>4, AloneStill
<1>12. CASE TooLong
  <2>1. Head(buf) # NL /\ Len(msg_in) >= MsgInLenMax
    BY <1>12 DEF TooLong
  <2> QED
    BY <2>1, <1>9, <1>10, Numbers
<1>13. CASE Newline
  <2>1. Head(buf) = NL /\ handled' = Append(handled, [msg |-> msg_in, fd |-> event.fd])
    BY <1>13 DEF Newline
  <2>2. \/ Write(event.fd, <<"answer">>, Advance(<<>>), Return)
        \/ Advance(<<>>) /\ UNCHANGED <<down, peer>>
    BY <1>13 DEF Newline
  <2>3. /\ fd' = fd /\ event' = event /\ Here' = Here
        /\ \/ pc' = pc /\ msg_in' = <<>> /\ buf' = Tail(buf)
           \/ ~Here /\ buf' = <<>>
    BY <2>2, <1>1, <1>2, Answer
  <2>4. msg_in = Units(k) /\ Len(Coming) = 1
    BY <2>1, <1>10
  <2>5. up["director"] = <<>> /\ Tail(Coming) = <<>>
    <3>1. buf \in Seq(Byte) /\ up["director"] \in Seq(Byte) /\ Coming = buf \o up["director"]
      BY <1>2, StreamType DEF TypeOK, Coming, Read
    <3>3. Len(up["director"]) = 0
      <4> DEFINE u == up["director"]
                 a == Len(buf)
                 b == Len(u)
                 p == Coming
      <4>1. u \in Seq(Byte) /\ p = buf \o u /\ Len(p) = 1
        BY <3>1, <2>4
      <4> HIDE DEF u, p
      <4>2. Len(p) = a + b /\ a \in Nat /\ b \in Nat
        BY <3>1, <4>1
      <4>3. a > 0
        BY <3>1, <1>1, EmptySeq
      <4> HIDE DEF a, b
      <4>4. b = 0
        BY <4>1, <4>2, <4>3
      <4> QED
        BY <4>4 DEF b, u
    <3>4. Len(Tail(Coming)) = 0 /\ Tail(Coming) \in Seq(Byte)
      BY <2>4, <1>3, HeadTailProperties
    <3> QED
      BY <3>1, <3>3, <3>4, EmptySeq
  <2>6. Quiet'
    <3>1. Here' = Here
      BY <2>3
    <3>2. CASE pc' = pc /\ msg_in' = <<>> /\ buf' = Tail(buf)
      <4>1. Coming' = <<>>
        BY <3>2, <2>3, <2>5, <1>1, <1>2, <1>3 DEF Coming, Read
      <4> QED
        BY <4>1, <3>2 DEF Quiet
    <3>3. CASE ~Here /\ buf' = <<>>
      <4>1. Coming' = <<>> \o <<>>
        BY <3>3, <2>3, <2>5, <1>1, <1>2 DEF Coming, Read
      <4>2. ~Here'
        BY <3>1, <3>3
      <4> QED
        BY <4>1, <4>2, ConcatEmptySeq DEF Quiet
    <3> QED
      BY <2>3, <3>2, <3>3
  <2>8. /\ Len(handled') = k
        /\ \A i \in DOMAIN handled' : handled'[i] = [msg |-> Units(i), fd |-> "director"]
    <3> DEFINE l == Len(handled)
               e == [msg |-> msg_in, fd |-> event.fd]
    <3>1. e \in [msg : Seq(Byte), fd : Conns] /\ l \in Nat /\ DOMAIN handled = 1 .. l
      BY <1>9 DEF TypeOK
    <3>2. l = k - 1
      BY <1>5
    <3>3. e = [msg |-> Units(k), fd |-> "director"]
      BY <2>4, <1>2
    <3> HIDE DEF e, l
    <3>4. /\ Len(handled') = l + 1 /\ DOMAIN handled' = 1 .. l + 1 /\ handled'[l + 1] = e
          /\ \A i \in 1 .. l : handled'[i] = handled[i]
      BY <3>1, <2>1, <1>9, AppendProperties DEF e, l
    <3>5. l + 1 = k
      BY <3>1, <3>2, <1>8
    <3>6. \A i \in 1 .. l + 1 : i \in 1 .. l \/ i = l + 1
      BY <3>1
    <3> QED
      BY <3>1, <3>3, <3>4, <3>5, <3>6, <1>2
  <2>9. event'.fd = "director" /\ UNCHANGED <<fd, up, k, dpc, pieces>>
    BY <2>3, <1>1, <1>2
  <2> QED
    BY <2>6, <2>8, <2>9, <1>2, <1>6 DEF Alone
<1> QED
  BY <1>11, <1>12, <1>13

(* Every step keeps the commands whole, once and in order, as long as the  *)
(* server has read nothing of the operator's.                              *)
LEMMA AloneNext ==
    ASSUME TypeOK, TypeOK', Control, Control', Account, Alone, [Next]_vars
    PROVE  Alone'
<1>a. up \in [Conns -> Seq(Byte)] /\ peer \in [Conns -> {"here", "rst", "fin", "broken"}]
      /\ fd \in [Conns -> {"none", "pending", "open", "closed"}]
      /\ "director" \in Conns /\ "operator" \in Conns
  BY DEF TypeOK, Conns
<1>b. ASSUME UNCHANGED <<event, buf, msg_in>>, up'["director"] = up["director"],
             Here' = Here
      PROVE  Coming' = Coming /\ Stream' = Stream /\ Here' = Here
  BY <1>b DEF Coming, Stream, Read
<1>c. ASSUME peer'["director"] = peer["director"]  PROVE Here' = Here
  BY <1>c DEF Here
<1>1. ASSUME NEW c \in Conns, conn_poll_for_conn(c)  PROVE Alone'
  <2>1. /\ pc = "poll" /\ fd[c] = "pending"
        /\ UNCHANGED <<up, event, msg_in, handled, pieces, dpc, k>> /\ buf' = buf
    BY <1>1 DEF conn_poll_for_conn, Write, Killed, directorVars, Control
  <2>a. CASE pc' = "killed"
    BY <2>a, <2>1, AloneGone DEF Alive
  <2> SUFFICES ASSUME pc' # "killed"  PROVE Alone'
    BY <2>a
  <2>3. /\ pc' = pc /\ fd' \in {[fd EXCEPT ![c] = "open"], [fd EXCEPT ![c] = "closed"]}
        /\ peer' = peer \/ (peer[c] # "here" /\ peer' = [peer EXCEPT ![c] = "broken"])
        /\ down' = down \/ c = "director"
    BY <1>1 DEF conn_poll_for_conn, Write, Killed
  <2>4. Here' = Here
    BY <2>3, <1>a DEF Here, Conns
  <2>5. Coming' = Coming /\ Stream' = Stream /\ Here' = Here
    BY <2>1, <2>4, <1>b
  <2>6. Alive' /\ Alive
    BY <2>1, <2>3 DEF Alive
  <2>7. fd'["operator"] \in {"pending", "open"} => fd["operator"] \in {"pending", "open"}
    BY <2>1, <2>3, <1>a
  <2>8. CASE c = "director"
    <3>1. dpc = "hello"
      BY <2>1, <2>6, <2>8 DEF Control
    <3>2. Unhandled => Unhandled'
      BY <3>1, <2>1, <2>5 DEF Unhandled, Quiet
    <3> QED
      BY <3>1, <3>2, <2>1, <2>6, <2>7, AloneStill
  <2>9. CASE c # "director"
    <3>1. (Unhandled => Unhandled') /\ (Quiet => Quiet')
      BY <2>1, <2>3, <2>5, <2>9, StillUnhandled
    <3> QED
      BY <3>1, <2>1, <2>6, <2>7, AloneStill
  <2> QED
    BY <2>8, <2>9
<1>2. ASSUME NEW c \in Conns, conn_poll_for_msg(c)  PROVE Alone'
  BY <1>2, AlonePoll
<1>3. CASE Newline \/ Store \/ TooLong
  BY <1>3, AloneByte
<1>6. CASE Prompt
  <2>1. /\ pc = "byte" /\ buf = <<>>
        /\ UNCHANGED <<up, handled, pieces, dpc, k>>
    BY <1>6 DEF Prompt, directorVars
  <2>2. UNCHANGED <<event, msg_in, fd>> /\ buf' = buf
        /\ \/ peer' = peer
           \/ peer[event.fd] # "here" /\ peer' = [peer EXCEPT ![event.fd] = "broken"]
    BY <1>6, <2>1 DEF Prompt, Write, Killed, Return
  <2>3. down' = down
    BY <1>6, ConcatEmptySeq DEF Prompt, Write, TypeOK
  <2>5. Here' = Here
    BY <2>2, <1>a DEF Here, TypeOK, Conns
  <2>4. (Unhandled => Unhandled') /\ (Quiet => Quiet')
    BY <2>1, <2>2, <2>3, <2>5, <1>b, <1>c, StillUnhandled
  <2>6. Alive
    BY <2>1 DEF Alive
  <2> QED
    BY <2>1, <2>2, <2>4, <2>6, AloneStill
<1>7. CASE control_event_handle
  <2>1. /\ pc' = "poll" /\ UNCHANGED <<peer, up, down, event, buf, msg_in, handled, pieces, dpc, k>>
        /\ fd' \in {fd, [fd EXCEPT ![event.fd] = "closed"]}
    BY <1>7 DEF control_event_handle, directorVars
  <2>2. fd'["operator"] \in {"pending", "open"} => fd["operator"] \in {"pending", "open"}
    BY <2>1, <1>a
  <2>3. (Unhandled => Unhandled') /\ (Quiet => Quiet')
    BY <2>1, <1>b, <1>c, StillUnhandled
  <2>4. Alive
    BY <1>7 DEF control_event_handle, Alive
  <2> QED
    BY <2>1, <2>2, <2>3, <2>4, AloneStill
<1>8. CASE Construct
  <2>1. /\ UNCHANGED <<peer, up, down, pc, event, buf, msg_in, handled, pieces, k>>
        /\ dpc = "start" /\ dpc' = "hello" /\ fd' = [fd EXCEPT !["director"] = "pending"]
    BY <1>8 DEF Construct, serverVars
  <2>2. fd'["operator"] = fd["operator"]
    BY <2>1, <1>a
  <2>3. Unhandled => Unhandled'
    BY <2>1, <1>b, <1>c DEF Unhandled, Quiet
  <2> QED
    BY <2>1, <2>2, <2>3, AloneStill DEF Alive
<1>9. CASE Hello
  <2>1. /\ UNCHANGED <<fd, peer, up, pc, event, buf, msg_in, handled, pieces, k>>
        /\ dpc = "hello" /\ dpc' = "idle" /\ down' = <<>>
    BY <1>9 DEF Hello, serverVars
  <2>3. Unhandled => Unhandled'
    BY <2>1, <1>b, <1>c DEF Unhandled, Quiet
  <2> QED
    BY <2>1, <2>3, AloneStill DEF Alive
<1>10. CASE send_command
  <2>1. /\ UNCHANGED <<fd, peer, down, pc, event, buf, msg_in, handled, pieces, k>>
        /\ dpc = "idle" /\ k <= NCommands
    BY <1>10 DEF send_command, serverVars
  <2>2. k \in 1 .. NCommands
    BY <2>1, Numbers DEF TypeOK
  <2>3. CASE Alive /\ peer["director"] = "here"
    <3>1. up' = [up EXCEPT !["director"] = @ \o Line(k)] /\ dpc' = "wait"
      BY <1>10, <2>3 DEF send_command
    <3>2. up'["operator"] = up["operator"] /\ up'["director"] = up["director"] \o Line(k)
      BY <3>1, <1>a
    <3>3. Unhandled => Unhandled'
      <4> SUFFICES ASSUME Unhandled  PROVE Unhandled'
        OBVIOUS
      <4>1. Coming = <<>> /\ msg_in = <<>> /\ down = <<>>
        BY <2>1, <2>3 DEF Unhandled, Quiet, Here
      <4>2. up["director"] = <<>> /\ Read = <<>>
        BY <4>1, StreamType, StreamOf DEF Coming
      <4>3. Line(k) \in Seq(Byte) /\ Len(Line(k)) \in Nat
        BY <2>2, UnitsType
      <4>4. Stream' = Line(k)
        <5>1. Stream' = <<>> \o (<<>> \o (<<>> \o Line(k)))
          BY <4>1, <4>2, <3>2, <2>1 DEF Stream, Coming, Read
        <5> QED
          BY <5>1, <4>3, ConcatEmptySeq
      <4>5. Line(k) = SubSeq(Line(k), 1, Len(Line(k)))
        BY <4>3, SubSeqFull
      <4>6. \E n \in 0 .. Len(Line(k)) :
               Stream' = SubSeq(Line(k), 1, n) /\ (Here' => n = Len(Line(k)))
        <5> DEFINE s == Line(k)
                   n == Len(s)
        <5>1. n \in 0 .. n
          BY <4>3
        <5>2. Stream' = SubSeq(s, 1, n)
          BY <4>4, <4>5
        <5> HIDE DEF n
        <5>3. \E x \in 0 .. n : Stream' = SubSeq(s, 1, x) /\ x = n
          BY <5>1, <5>2
        <5> QED
          BY <5>3 DEF n
      <4> QED
        BY <4>1, <4>6, <3>1, <2>1 DEF Unhandled
    <3> QED
      BY <2>1, <3>1, <3>2, <3>3, AloneStill DEF Alive
  <2>4. CASE ~(Alive /\ peer["director"] = "here")
    <3>1. up' = up /\ dpc' = "retry"
      BY <1>10, <2>4 DEF send_command
    <3>2. Unhandled => Unhandled'
      BY <2>1, <3>1, <1>b, <1>c DEF Unhandled, Quiet
    <3> QED
      BY <2>1, <3>1, <3>2, AloneStill DEF Alive
  <2> QED
    BY <2>3, <2>4
<1>11. CASE Receive
  <2>1. /\ UNCHANGED <<fd, peer, up, pc, event, buf, msg_in, handled, pieces>>
        /\ down' = <<>> /\ dpc = "wait"
    BY <1>11 DEF Receive, serverVars
  <2> SUFFICES ASSUME pieces = 0  PROVE Alone'
    BY <2>1 DEF Alone
  <2>a. CASE ~Alive
    BY <2>a, <2>1, AloneGone DEF Alive
  <2> SUFFICES ASSUME Alive  PROVE Alone'
    BY <2>a
  <2>2. /\ event.fd = "director"
        /\ fd["operator"] \in {"pending", "open"} => up["operator"] # <<>>
        /\ \A i \in DOMAIN handled : handled[i] = [msg |-> Units(i), fd |-> "director"]
        /\ Len(handled) <= NCommands
        /\ \/ Len(handled) = k - 1 /\ Unhandled
           \/ Len(handled) = k /\ k <= NCommands
              /\ dpc \in {"wait", "retry", "raised"} /\ Quiet
    BY DEF Alone
  <2>3. Alive' /\ Coming' = Coming /\ Stream' = Stream /\ Here' = Here /\ (Quiet => Quiet')
    BY <2>1, <2>2, <1>b, <1>c DEF Alive, Quiet
  <2>4. CASE down # <<>>
    <3>1. dpc' = "idle" /\ k' = k + 1
      BY <1>11, <2>4 DEF Receive
    <3>2. Len(handled) = k /\ Quiet
      BY <2>1, <2>2, <2>4 DEF Unhandled
    <3>3. k \in Nat
      BY Numbers DEF TypeOK
    <3>4. Len(handled) = k' - 1
      BY <3>1, <3>2, <3>3
    <3>5. Unhandled'
      BY <2>1, <2>3, <3>1, <3>2 DEF Unhandled
    <3> QED
      BY <2>1, <2>2, <2>3, <3>4, <3>5 DEF Alone
  <2>5. CASE down = <<>>
    <3>1. dpc' = "retry" /\ k' = k
      BY <1>11, <2>2, <2>5 DEF Receive
    <3>2. Unhandled => Unhandled'
      BY <2>1, <2>3, <3>1 DEF Unhandled
    <3> QED
      BY <2>1, <2>2, <2>3, <3>1, <3>2 DEF Alone
  <2> QED
    BY <2>4, <2>5
<1>12. CASE Retry
  <2>1. /\ UNCHANGED <<fd, peer, up, down, pc, event, buf, msg_in, handled, pieces, k>>
        /\ dpc = "retry" /\ dpc' \in {"raised", "retry"}
    BY <1>12 DEF Retry, serverVars
  <2>2. (Unhandled => Unhandled') /\ (Quiet => Quiet')
    BY <2>1, <1>b, <1>c DEF Unhandled, Quiet
  <2> QED
    BY <2>1, <2>2, AloneStill DEF Alive
<1>13. CASE Reset
  <2>1. /\ Here /\ ~Here' /\ UNCHANGED <<fd, pc, event, buf, msg_in, handled, pieces, dpc, k>>
        /\ down' \in {down, <<>>} /\ dpc \in {"idle", "wait"}
    BY <1>13 DEF Reset, serverVars, directorVars, Here, TypeOK, Conns
  <2>2. up'["operator"] = up["operator"]
    <3>1. \E x : up' = [up EXCEPT !["director"] = x]
      BY <1>13 DEF Reset
    <3> QED
      BY <3>1, <1>a
  <2>3. Quiet => Quiet'
    <3> SUFFICES ASSUME Coming = <<>>  PROVE Coming' = <<>>
      BY <2>1 DEF Quiet
    <3>1. Coming' \in Seq(Byte) /\ Len(Coming') <= 0
      BY <1>13, ResetPrefix
    <3> QED
      BY <3>1, EmptySeq
  <2>4. Unhandled => Unhandled'
    <3>1. CASE dpc = "idle"
      BY <3>1, <2>1, <2>3 DEF Unhandled
    <3>2. CASE dpc = "wait"
      <4> SUFFICES ASSUME Unhandled  PROVE Unhandled'
        OBVIOUS
      <4>1. /\ k <= NCommands /\ down = <<>>
            /\ \E n \in 0 .. Len(Line(k)) : Stream = SubSeq(Line(k), 1, n)
        BY <3>2 DEF Unhandled
      <4>2. PICK n \in 0 .. Len(Line(k)) : Stream = SubSeq(Line(k), 1, n)
        BY <4>1
      <4>3. k \in 1 .. NCommands
        BY <4>1, Numbers DEF TypeOK
      <4>4. Line(k) \in Seq(Byte)
        BY <4>3, UnitsType
      <4> DEFINE s == Line(k)
                 z == Stream
                 z2 == Stream'
                 m == Len(z2)
      <4>5. s \in Seq(Byte) /\ n \in 0 .. Len(s) /\ z = SubSeq(s, 1, n)
        BY <4>2, <4>4
      <4>6. /\ z2 \in Seq(Byte) /\ Len(z2) <= Len(z)
            /\ \A i \in 1 .. Len(z2) : z2[i] = z[i]
        BY <1>13, ResetPrefix
      <4> HIDE DEF s, z, z2
      <4>7. Len(z) = n /\ \A i \in 1 .. n : z[i] = s[i]
        BY <4>5, Split
      <4>8. m \in 0 .. Len(s) /\ \A i \in 1 .. m : z2[i] = s[i]
        BY <4>5, <4>6, <4>7
      <4>9. Len(SubSeq(s, 1, m)) = m /\ SubSeq(s, 1, m) \in Seq(Byte)
            /\ \A i \in 1 .. m : SubSeq(s, 1, m)[i] = s[i]
        BY <4>5, <4>8, Split
      <4>10. z2 = SubSeq(s, 1, m)
        BY <4>6, <4>8, <4>9, SeqEqual
      <4>11. \E x \in 0 .. Len(Line(k)) : Stream' = SubSeq(Line(k), 1, x)
        BY <4>8, <4>10 DEF z2, s
      <4> QED
        BY <4>1, <4>11, <2>1, <3>2 DEF Unhandled
    <3> QED
      BY <3>1, <3>2, <2>1
  <2> QED
    BY <2>1, <2>2, <2>3, <2>4, AloneStill DEF Alive
<1>14. CASE OperatorTypes
  <2>1. UNCHANGED <<peer, down, pc, event, buf, msg_in, handled, pieces, dpc, k>>
    BY <1>14 DEF OperatorTypes, serverVars, directorVars
  <2>2. PICK n \in 1 .. Len(OperatorText) :
            up' = [up EXCEPT !["operator"] = SubSeq(OperatorText, 1, n)]
    BY <1>14 DEF OperatorTypes
  <2>3. up'["director"] = up["director"] /\ up'["operator"] = SubSeq(OperatorText, 1, n)
    BY <2>2, <1>a
  <2>4. SubSeq(OperatorText, 1, n) # <<>>
    <3>1. OperatorText \in Seq(Byte) /\ n \in 0 .. Len(OperatorText) /\ n > 0
      BY ConnAssumption
    <3> QED
      BY <3>1, Split
  <2>5. (Unhandled => Unhandled') /\ (Quiet => Quiet')
    BY <2>1, <2>3, <1>b, <1>c, StillUnhandled
  <2>6. Alive' = Alive
    BY <2>1 DEF Alive
  <2> QED
    BY <2>1, <2>3, <2>4, <2>5, <2>6 DEF Alone
<1>15. CASE OperatorLeaves
  <2>1. /\ UNCHANGED <<fd, up, down, pc, event, buf, msg_in, handled, pieces, dpc, k>>
        /\ peer' = [peer EXCEPT !["operator"] = "fin"]
    BY <1>15 DEF OperatorLeaves, serverVars, directorVars
  <2>2. peer'["director"] = peer["director"]
    BY <2>1, <1>a
  <2>3. (Unhandled => Unhandled') /\ (Quiet => Quiet')
    BY <2>1, <2>2, <1>b, <1>c, StillUnhandled
  <2> QED
    BY <2>1, <2>3, AloneStill DEF Alive
<1>16. CASE UNCHANGED vars
  <2>1. UNCHANGED <<fd, peer, up, down, pc, event, buf, msg_in, handled, pieces, dpc, k>>
    BY <1>16 DEF vars, serverVars, directorVars
  <2>3. (Unhandled => Unhandled') /\ (Quiet => Quiet')
    BY <2>1, <1>b, <1>c, StillUnhandled
  <2> QED
    BY <2>1, <2>3, AloneStill DEF Alive
<1> QED
  BY <1>1, <1>2, <1>3, <1>6, <1>7, <1>8, <1>9, <1>10, <1>11, <1>12, <1>13, <1>14,
     <1>15, <1>16 DEF Next, Server, DataEvent, Director

-------------------------------------------------------------------------------
(* Nothing has happened yet.                                               *)
LEMMA InitInvariant ==
    ASSUME Init
    PROVE  IInv
<1>1. TypeOK
  <2>1. <<>> \in Seq(Byte) /\ <<>> \in Seq(Text) /\ Len(<<>>) = 0
        /\ <<>> \in Seq([msg : Seq(Byte), fd : Conns])
    OBVIOUS
  <2>2. 1 \in 1 .. NCommands + 1 /\ 0 \in 0 .. Tries /\ 0 <= MsgInLenMax
    BY Numbers
  <2> QED
    BY <2>1, <2>2 DEF Init, TypeOK, Conns
<1>2. up["director"] = <<>> /\ Coming = <<>> /\ Stream = <<>> /\ Here /\ Alive
  <2>1. up["director"] = <<>>
    BY DEF Init, Conns
  <2>2. Coming = <<>> /\ Stream = <<>>
    BY <2>1, ConcatEmptySeq DEF Init, Coming, Stream, Read
  <2> QED
    BY <2>1, <2>2 DEF Init, Here, Alive, Conns
<1>3. Control
  BY <1>2, NLFreeAppend DEF Init, Control, Conns
<1>4. Rest(<<>>) /\ Short(<<>>) /\ Clean(<<>>) /\ Ended(<<>>)
  BY DEF Rest, Short, Clean, Ended
<1>5. Spoiled = 0 /\ Overflows = 0
  BY <1>2, <1>4 DEF Spoiled, Overflows, Debt, Init
<1>6. Waiting = 0 /\ Lost = 0
  BY <1>2 DEF Waiting, Lost, Fresh, Init
<1>7. Cardinality(From("director")) = 0 /\ Cardinality(Torn) = 0
  <2>1. From("director") = {} /\ Torn = {}
    BY DEF Init, From, Torn
  <2> QED
    BY <2>1, FS_EmptySet
<1>8. Account
  <2>1. Lines
    BY <1>2, <1>4 DEF Lines
  <2>2. AheadBudget
    BY <1>5, <1>6, <1>7 DEF AheadBudget, Init
  <2>3. TornBudget
    BY <1>5, <1>6, <1>7 DEF TornBudget, Init
  <2> QED
    BY <2>1, <2>2, <2>3 DEF Account
<1>9. Alone
  <2>1. handled = <<>> /\ k = 1 /\ Len(handled) = 0
    BY DEF Init
  <2> QED
    BY <2>1, <1>2, Numbers DEF Alone, Unhandled, Quiet, Init, Conns
<1> QED
  BY <1>1, <1>3, <1>8, <1>9 DEF IInv

(* Every step keeps the invariant.                                         *)
LEMMA StepInvariant ==
    ASSUME IInv, [Next]_vars
    PROVE  IInv'
<1>1. TypeOK'
  BY TypeNext DEF IInv
<1>2. Control'
  BY <1>1, ControlNext DEF IInv
<1>3. Account'
  BY <1>1, <1>2, AccountNext DEF IInv
<1>4. Alone'
  BY <1>1, <1>2, AloneNext DEF IInv
<1> QED
  BY <1>1, <1>2, <1>3, <1>4 DEF IInv

(* The types, the order of the protocol, the account of the director's     *)
(* bytes and the state while it is alone hold together in every state.     *)
THEOREM Invariance == Spec => []IInv
<1>1. Init => IInv
  BY InitInvariant
<1>2. IInv /\ [Next]_vars => IInv'
  BY StepInvariant
<1> QED
  BY <1>1, <1>2, PTL DEF Spec

(* msg_in never outgrows its allocation, and no variable its type.         *)
THEOREM TypeCorrect == Spec => []TypeOK
<1>1. IInv => TypeOK
  BY DEF IInv
<1> QED
  BY <1>1, Invariance, PTL

(* While the server has read nothing of another client, cli_process is     *)
(* given the director's commands whole, once and in order.                 *)
THEOREM AloneCorrect == Spec => []AloneOnceInOrder
<1>1. IInv => AloneOnceInOrder
  <2> SUFFICES ASSUME IInv, pieces = 0
               PROVE  /\ \A i \in DOMAIN handled :
                            handled[i] = [msg |-> Units(i), fd |-> "director"]
                      /\ Alive => Len(handled) \in {k - 1, k}
    BY DEF AloneOnceInOrder
  <2> QED
    BY DEF IInv, Alone
<1> QED
  BY <1>1, Invariance, PTL

(* A piece of the operator's spoils one command of the director's at most, *)
(* and a lost answer one more.                                             *)
THEOREM TornCorrect == Spec => []TornBounded
<1>1. IInv => TornBounded
  <2> SUFFICES ASSUME IInv  PROVE TornBounded
    OBVIOUS
  <2>1. CASE pieces = 0
    <3>1. Torn = {}
      <4> SUFFICES ASSUME NEW i \in DOMAIN handled, ~Command(handled[i].msg)  PROVE FALSE
        BY DEF Torn, From
      <4>1. handled[i].msg = Units(i)
        BY <2>1 DEF IInv, Alone
      <4>2. i \in 1 .. NCommands
        <5>1. i \in 1 .. Len(handled) /\ Len(handled) \in Nat
          BY DEF IInv, TypeOK
        <5>2. Len(handled) <= NCommands
          BY <2>1 DEF IInv, Alone
        <5> QED
          BY <5>1, <5>2, Numbers
      <4> QED
        BY <4>1, <4>2 DEF Command
    <3>2. Cardinality(Torn) = 0
      BY <3>1, FS_EmptySet
    <3> QED
      BY <2>1, <3>2 DEF TornBounded
  <2>2. CASE pieces # 0
    <3> DEFINE T == Cardinality(Torn)
               s == Spoiled
               l == Lost
               r == IF peer["director"] # "here" THEN 1 ELSE 0
    <3>1. T \in Nat /\ s \in {0, 1} /\ l \in {0, 1} /\ r \in {0, 1} /\ pieces \in Nat
      BY Counts, Small DEF IInv, TypeOK
    <3>2. T + s <= pieces + l
      BY DEF IInv, Account, TornBudget
    <3>3. l = 0 \/ r = 1
      BY DEF IInv, Control, Lost, Fresh, Here
    <3> HIDE DEF T, s, l, r
    <3>4. T <= pieces + r
      BY <3>1, <3>2, <3>3
    <3> QED
      BY <2>2, <3>4 DEF TornBounded, T, r
  <2> QED
    BY <2>1, <2>2
<1> QED
  BY <1>1, Invariance, PTL

(* The director is ahead of the server by one command for each piece of    *)
(* the operator's and no more.                                             *)
THEOREM AheadCorrect == Spec => []AheadOfServer
<1>1. IInv => AheadOfServer
  <2> SUFFICES ASSUME IInv, Alive
               PROVE  k - 1 <= Cardinality(From("director")) + pieces
    BY DEF AheadOfServer
  <2> DEFINE F == Cardinality(From("director"))
             w == Waiting
             o == Overflows
             n == k
  <2>1. F \in Nat /\ w \in {0, 1} /\ o \in {0, 1} /\ n \in Nat /\ pieces \in Nat
    BY Counts, Small, Numbers DEF IInv, TypeOK
  <2>2. n - 1 + w + o <= F + pieces
    BY DEF IInv, Account, AheadBudget
  <2> HIDE DEF F, w, o, n
  <2>3. n - 1 <= F + pieces
    BY <2>1, <2>2
  <2> QED
    BY <2>3 DEF F, n
<1> QED
  BY <1>1, Invariance, PTL
====

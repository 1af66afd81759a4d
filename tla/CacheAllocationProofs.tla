-------------------------- MODULE CacheAllocationProofs --------------------------
(***************************************************************************)
(* What cat.c leaves of the cores, the classes and the groups, proved for  *)
(* every machine and every argument.                                       *)
(***************************************************************************)
EXTENDS CacheAllocation, CollectionLemmas

(* The masks that the groups of a parsed argument ask for.                 *)
MasksOf(g) == {[code |-> g[i].code, data |-> g[i].data] : i \in DOMAIN g}
MaskValues == {NoMask} \union (UNION {MasksOf(parse_l3ca(r.text)) : r \in Requests})

(* The types of what the process and the library hold.                     *)
CatTypeOK ==
    /\ pc \in {"idle", "revert", "fini", "parse", "library", "validate", "select", "configure",
               "fail", "ended"}
    /\ request \in Requests /\ inits \in Nat
    /\ m_cap \in BOOLEAN /\ handlers \in BOOLEAN /\ cut \in BOOLEAN
    /\ m_sockets \in {"null", "live", "freed"} /\ process \in {"runs", "undefined"}
    /\ assoc \in [Lcores -> Classes]
    /\ mask \in [Sockets -> [Classes -> MaskValues]]

(* Where the library is initialised and what the handlers know.            *)
Stages ==
    /\ pc \in {"validate", "select", "configure", "revert"} => m_cap
    /\ pc \in {"idle", "revert"} /\ m_cap => handlers
    /\ handlers => inits >= 1
    /\ handlers /\ inits <= 1 => pc \in {"idle", "fail", "ended"}
    /\ pc = "idle" /\ ~m_cap => m_config = << >>

(* Until a second cat_init nothing is freed but by the last cat_fini.      *)
FirstLife ==
    /\ inits <= 1 =>
         /\ process = "runs" /\ pc \notin {"revert", "fini"}
         /\ m_sockets = "freed" => pc \in {"idle", "ended"} /\ ~m_cap
    /\ inits = 0 => m_sockets = "null" /\ ~m_cap /\ pc \in {"idle", "ended"}

(* From the checks on the groups are the argument's and are sound, until   *)
(* cat_fini clears them.                                                   *)
Parsed == m_config = parse_l3ca(request.text) /\ m_config # << >>
Checked ==
    /\ \A i \in GroupIds : m_config[i].cpus \subseteq Lcores
    /\ check_cbm_len_and_contention /\ check_cpus_overlapping
Groups ==
    /\ pc \in {"library", "validate", "select", "configure"} \/ (pc = "idle" /\ m_cap) => Parsed
    /\ pc \in {"select", "configure"} \/ (pc = "idle" /\ m_cap) => Checked

(* What may be reverted is no other program's, but in a second cat_init.   *)
Clean ==
    pc \in {"select", "configure", "revert", "fini", "idle"} \/ (handlers /\ inits <= 1) =>
        \A k \in Requested : Others[k] = 0

(* Without a cut the cores are as they were found but for those of a       *)
(* request that is being configured, stands or is reverted.                *)
Untouched ==
    ~cut =>
        /\ pc \in {"parse", "library", "validate", "select", "fini", "fail"}
              \/ (pc = "idle" /\ ~m_cap) => assoc = Others
        /\ pc \in {"configure", "revert"} \/ (pc = "idle" /\ m_cap) =>
              \A k \in Lcores \ Requested : assoc[k] = Others[k]
        /\ pc = "ended" => \A k \in Lcores : assoc[k] \in {0, Others[k]}

(* Calls of configure_cat: all masks come before the first core, no core   *)
(* but a requested one is moved, and no other program's class is written.  *)
MaskCalls ==
    [call : {"pqos_l3ca_set"}, socket : Sockets, class : Classes, mask : MasksOf(m_config)]
AssocCalls == [call : {"pqos_alloc_assoc_set"}, core : Requested, class : Classes]
Calls == MaskCalls \union AssocCalls
MasksFirst(t) ==
    \A x, y \in DOMAIN t : t[x] \in AssocCalls /\ t[y] \in MaskCalls => y < x
SparesOthers(t) ==
    \A x \in DOMAIN t : t[x] \in MaskCalls =>
        \A k \in Lcores : SocketOf(k) = t[x].socket /\ Others[k] # 0 => t[x].class # Others[k]
Pending ==
    pc = "configure" =>
        /\ todo \in Seq(Calls) /\ MasksFirst(todo) /\ SparesOthers(todo)
        /\ (\E x \in DOMAIN todo : todo[x] \in MaskCalls) /\ ~cut => assoc = Others

(* Each group has a class of its own on each of its sockets, which no core *)
(* outside the request has there; its masks and its cores are set, or t    *)
(* still has the call; and t has no call but such.                         *)
Goal(i) == [code |-> m_config[i].code, data |-> m_config[i].data]
OwnClasses(cos) ==
    \A i \in GroupIds, s \in Sockets :
        On(i, s) =>
            /\ cos[<<i, s>>] # 0
            /\ \A j \in GroupIds : On(j, s) /\ cos[<<i, s>>] = cos[<<j, s>>] => i = j
            /\ \A k \in Lcores \ Requested : SocketOf(k) = s => assoc[k] # cos[<<i, s>>]
MasksSet(cos, t) ==
    \A i \in GroupIds, s \in Sockets :
        On(i, s) =>
            \/ mask[s][cos[<<i, s>>]] = Goal(i)
            \/ \E x \in DOMAIN t : /\ t[x] \in MaskCalls
                                   /\ t[x].socket = s /\ t[x].class = cos[<<i, s>>]
CoresSet(cos, t) ==
    \A i \in GroupIds : \A k \in m_config[i].cpus :
        \/ assoc[k] = cos[<<i, SocketOf(k)>>]
        \/ \E x \in DOMAIN t : t[x] \in AssocCalls /\ t[x].core = k
Conforms(cos, m) ==
    \/ /\ m \in MaskCalls
       /\ \E i \in GroupIds : /\ On(i, m.socket) /\ m.class = cos[<<i, m.socket>>]
                              /\ m.mask = Goal(i)
    \/ /\ m \in AssocCalls
       /\ \E i \in GroupIds : m.core \in m_config[i].cpus /\ m.class = cos[<<i, SocketOf(m.core)>>]
Allots(cos, t) ==
    /\ OwnClasses(cos) /\ MasksSet(cos, t) /\ CoresSet(cos, t)
    /\ \A x \in DOMAIN t : Conforms(cos, t[x])
Allotted ==
    /\ pc = "select" => \A k \in Requested : assoc[k] = 0
    /\ pc = "configure" \/ (pc = "idle" /\ m_cap) =>
          \E cos \in [GroupIds \X Sockets -> Classes] : Allots(cos, todo)
    /\ pc = "idle" => todo = << >>

IInv == CatTypeOK /\ Stages /\ FirstLife /\ Groups /\ Clean /\ OthersKept /\ Untouched
        /\ Pending /\ Allotted

-------------------------------------------------------------------------------
(* The machine is finite, and classes and packages are numbers.            *)
LEMMA Machine ==
    /\ Lcores \subseteq Nat /\ IsFiniteSet(Lcores)
    /\ Sockets \subseteq Nat /\ IsFiniteSet(Sockets)
    /\ \A k \in Lcores : SocketOf(k) \in Sockets
    /\ Classes \subseteq Nat /\ IsFiniteSet(Classes) /\ 0 \in Classes
<1>1. Lcores \subseteq Nat /\ Lcores \in SUBSET (0 .. MaxCores - 1)
  BY CatAssumption
<1>2. IsFiniteSet(0 .. MaxCores - 1)
  BY CatAssumption, FS_Interval
<1>3. IsFiniteSet(Lcores)
  BY <1>1, <1>2, FS_Subset
<1>4. [k \in Lcores |-> SocketOf(k)] \in Surjection(Lcores, Sockets)
  BY DEF Surjection, Sockets
<1>5. IsFiniteSet(Sockets)
  BY <1>3, <1>4, FS_Surjection
<1>6. Sockets \subseteq Nat /\ \A k \in Lcores : SocketOf(k) \in Sockets
  BY CatAssumption DEF Sockets
<1> QED BY <1>1, <1>3, <1>5, <1>6, CatAssumption

(* The parser returns no groups or a sequence of them.                     *)
LEMMA ParseShape ==
    ASSUME NEW t, parse_l3ca(t) # << >>
    PROVE  \E n \in Nat \ {0} : DOMAIN parse_l3ca(t) = 1 .. n
<1> DEFINE start == CHOOSE f : f = [n \in 1 .. MaxCores |->
                        IF n = 1 THEN 1 ELSE ParseEntry(t, f[n - 1]).end + 1]
           Entry(n) == ParseEntry(t, start[n])
           T == {n \in 1 .. MaxCores : Tok(t, Entry(n).end) = End} \union {MaxCores}
           last == Min(T)
<1>1. parse_l3ca(t) = IF \A n \in 1 .. last : Entry(n).ok
                      THEN [n \in 1 .. last |-> Entry(n).group] ELSE << >>
  BY DEF parse_l3ca
<1>2. DOMAIN parse_l3ca(t) = 1 .. last
  BY <1>1
<1>3. T \subseteq Nat \ {0} /\ T # {}
  BY CatAssumption
<1> HIDE DEF T
<1>4. last \in Nat \ {0}
  BY <1>3, MinIn
<1> QED BY <1>2, <1>4

-------------------------------------------------------------------------------
(* The next call of configure_cat, and those that follow.                  *)
LEMMA NextCall ==
    ASSUME IInv, pc = "configure", todo # << >>
    PROVE  /\ Head(todo) \in Calls /\ Tail(todo) \in Seq(Calls)
           /\ 1 \in DOMAIN todo /\ Head(todo) = todo[1]
           /\ \A x \in DOMAIN Tail(todo) :
                 x \in Nat /\ x + 1 \in DOMAIN todo /\ Tail(todo)[x] = todo[x + 1]
           /\ \A x \in DOMAIN todo :
                 x = 1 \/ (x - 1 \in DOMAIN Tail(todo) /\ Tail(todo)[x - 1] = todo[x])
<1>1. todo \in Seq(Calls)
  BY DEF IInv, Pending
<1> QED BY <1>1, Ends

(* A call is one of the two kinds.                                         *)
LEMMA CallKinds ==
    /\ \A m \in MaskCalls : /\ m.call = "pqos_l3ca_set" /\ m.socket \in Sockets
                            /\ m.class \in Classes /\ m.mask \in MasksOf(m_config)
    /\ \A m \in AssocCalls : /\ m.call = "pqos_alloc_assoc_set" /\ m.core \in Requested
                             /\ m.class \in Classes
    /\ Requested \subseteq Lcores
BY DEF MaskCalls, AssocCalls, Requested

LEMMA PerformKinds ==
    ASSUME NEW m \in Calls
    PROVE  /\ m.call = "pqos_l3ca_set" <=> m \in MaskCalls
           /\ m.call = "pqos_alloc_assoc_set" <=> m \in AssocCalls
           /\ Perform(m) <=>
                 \/ /\ m \in MaskCalls /\ UNCHANGED assoc
                    /\ mask' = [mask EXCEPT ![m.socket][m.class] = m.mask]
                 \/ /\ m \in AssocCalls /\ UNCHANGED mask
                    /\ assoc' = [assoc EXCEPT ![m.core] = m.class]
<1>1. "pqos_l3ca_set" # "pqos_alloc_assoc_set"
  OBVIOUS
<1> QED BY <1>1, CallKinds DEF Calls, Perform

-------------------------------------------------------------------------------
(* Types.                                                                  *)
LEMMA TypeInit == CatInit => CatTypeOK
<1> SUFFICES ASSUME CatInit PROVE CatTypeOK
  OBVIOUS
<1>1. assoc \in [Lcores -> Classes]
  BY CatAssumption DEF CatInit
<1>2. mask \in [Sockets -> [Classes -> MaskValues]]
  BY DEF CatInit, MaskValues
<1> QED BY <1>1, <1>2 DEF CatInit, CatTypeOK

LEMMA RevertType ==
    ASSUME assoc \in [Lcores -> Classes], cut \in BOOLEAN, Revert
    PROVE  assoc' \in [Lcores -> Classes] /\ cut' \in BOOLEAN
BY Machine DEF Revert

(* pqos_l3ca_set writes one mask.                                          *)
LEMMA MaskWritten ==
    ASSUME IInv, pc = "configure", NEW m \in MaskCalls,
           mask' = [mask EXCEPT ![m.socket][m.class] = m.mask]
    PROVE  /\ mask' \in [Sockets -> [Classes -> MaskValues]]
           /\ \A s \in Sockets, k \in Classes :
                 mask'[s][k] = IF s = m.socket /\ k = m.class THEN m.mask ELSE mask[s][k]
<1>1. MasksOf(m_config) \subseteq MaskValues
  BY DEF IInv, CatTypeOK, Groups, Parsed, MaskValues
<1>2. m.socket \in Sockets /\ m.class \in Classes /\ m.mask \in MaskValues
  BY <1>1, CallKinds
<1>3. PICK V : V = MaskValues
  OBVIOUS
<1>4. mask \in [Sockets -> [Classes -> V]]
  BY <1>3 DEF IInv, CatTypeOK
<1> QED BY <1>2, <1>3, <1>4, TableUpdate

LEMMA TypeNext ==
    ASSUME IInv, [CatNext]_catvars  PROVE CatTypeOK'
<1> USE DEF CatTypeOK, config_of, caller, Goto
<1>1. CASE UNCHANGED catvars
  BY <1>1 DEF IInv, catvars
<1>2. CASE cat_init
  BY <1>2 DEF IInv, cat_init
<1>3. CASE cat_exit_Again
  <2>1. CASE Goto("revert", "fini") /\ Revert /\ UNCHANGED <<mask, config_of, todo, caller, process>>
    BY <2>1, RevertType DEF IInv
  <2>2. CASE Goto("fini", "parse") /\ cat_fini /\ UNCHANGED <<assoc, mask, caller, cut>>
    BY <2>2 DEF IInv, cat_fini
  <2> QED BY <1>3, <2>1, <2>2 DEF cat_exit_Again
<1>4. CASE Fail
  BY <1>4 DEF IInv, Fail, cat_fini
<1>5. CASE parse_args
  BY <1>5 DEF IInv, parse_args
<1>6. CASE Library
  BY <1>6 DEF IInv, Library
<1>7. CASE cat_validate
  BY <1>7 DEF IInv, cat_validate
<1>8. CASE cat_set
  BY <1>8 DEF IInv, cat_set
<1>9. CASE Configure
  <2>1. Head(todo) \in Calls
    BY <1>9, NextCall DEF Configure
  <2>2. CASE Goto("configure", "configure") /\ Perform(Head(todo)) /\ UNCHANGED cut
    <3> PICK m \in Calls : m = Head(todo)
      BY <2>1
    <3>1. CASE /\ m \in MaskCalls /\ UNCHANGED assoc
               /\ mask' = [mask EXCEPT ![m.socket][m.class] = m.mask]
      <4>1. mask' \in [Sockets -> [Classes -> MaskValues]]
        BY <2>2, <3>1, MaskWritten
      <4> QED BY <1>9, <2>2, <3>1, <4>1 DEF IInv, Configure
    <3>2. CASE /\ m \in AssocCalls /\ UNCHANGED mask
               /\ assoc' = [assoc EXCEPT ![m.core] = m.class]
      <4>1. assoc' \in [Lcores -> Classes]
        BY <3>2, CallKinds DEF IInv
      <4> QED BY <1>9, <2>2, <3>2, <4>1 DEF IInv, Configure
    <3> QED BY <2>2, <3>1, <3>2, PerformKinds
  <2>3. CASE /\ Goto("configure", "fail") /\ UNCHANGED <<assoc, mask>>
             /\ cut' = (cut \/ Head(todo).call = "pqos_alloc_assoc_set")
    BY <1>9, <2>3 DEF IInv, Configure
  <2> QED BY <1>9, <2>2, <2>3 DEF Configure
<1>10. CASE Install
  BY <1>10 DEF IInv, Install
<1>11. CASE Exit
  BY <1>11, RevertType DEF IInv, Exit, cat_exit, cat_fini
<1>12. CASE signal_handler
  BY <1>12, RevertType DEF IInv, signal_handler, cat_exit, cat_fini
<1> QED BY <1>1, <1>2, <1>3, <1>4, <1>5, <1>6, <1>7, <1>8, <1>9, <1>10, <1>11, <1>12 DEF CatNext

-------------------------------------------------------------------------------
(* The stages of the process, and what is freed in its first life.         *)
LEMMA StagesInit == CatInit => Stages /\ FirstLife
BY DEF CatInit, Stages, FirstLife

LEMMA StagesNext ==
    ASSUME IInv, [CatNext]_catvars  PROVE Stages' /\ FirstLife'
<1> USE DEF IInv, CatTypeOK, Stages, FirstLife, config_of, caller, Goto
<1>1. CASE UNCHANGED catvars
  BY <1>1 DEF catvars
<1>2. CASE cat_init
  BY <1>2 DEF cat_init
<1>3. CASE cat_exit_Again
  BY <1>3 DEF cat_exit_Again, cat_fini
<1>4. CASE Fail
  BY <1>4 DEF Fail, cat_fini
<1>5. CASE parse_args
  BY <1>5 DEF parse_args
<1>6. CASE Library
  BY <1>6 DEF Library
<1>7. CASE cat_validate
  BY <1>7 DEF cat_validate
<1>8. CASE cat_set
  BY <1>8 DEF cat_set
<1>9. CASE Configure
  BY <1>9 DEF Configure
<1>10. CASE Install
  BY <1>10 DEF Install
<1>11. CASE Exit
  BY <1>11 DEF Exit, cat_exit, cat_fini
<1>12. CASE signal_handler
  BY <1>12 DEF signal_handler, cat_exit, cat_fini
<1> QED BY <1>1, <1>2, <1>3, <1>4, <1>5, <1>6, <1>7, <1>8, <1>9, <1>10, <1>11, <1>12 DEF CatNext

-------------------------------------------------------------------------------
(* The groups.                                                             *)
LEMMA GroupsInit == CatInit => Groups
BY DEF CatInit, Groups

LEMMA SameGroups ==
    ASSUME UNCHANGED m_config
    PROVE  /\ GroupIds' = GroupIds /\ Requested' = Requested
           /\ MasksOf(m_config)' = MasksOf(m_config)
           /\ Checked' <=> Checked
           /\ \A i, s : On(i, s)' <=> On(i, s)
BY DEF GroupIds, Requested, MasksOf, Checked, check_cbm_len_and_contention,
       check_cpus_overlapping, On

LEMMA NoGroups ==
    ASSUME m_config' = << >>  PROVE GroupIds' = {} /\ Requested' = {}
BY DEF GroupIds, Requested

LEMMA GroupsNext ==
    ASSUME IInv, [CatNext]_catvars  PROVE Groups'
<1> USE DEF IInv, CatTypeOK, Stages, Groups, Parsed, config_of, caller, Goto
<1>1. CASE UNCHANGED catvars
  BY <1>1, SameGroups DEF catvars
<1>2. CASE cat_init
  BY <1>2 DEF cat_init
<1>3. CASE cat_exit_Again
  BY <1>3 DEF cat_exit_Again, cat_fini
<1>4. CASE Fail
  BY <1>4 DEF Fail, cat_fini
<1>5. CASE parse_args
  BY <1>5 DEF parse_args
<1>6. CASE Library
  BY <1>6 DEF Library
<1>7. CASE cat_validate
  <2>1. check_cpus /\ check_cbm_len_and_contention /\ check_cpus_overlapping => Checked
    BY DEF check_cpus, Checked
  <2> QED BY <1>7, <2>1, SameGroups DEF cat_validate
<1>8. CASE cat_set
  BY <1>8, SameGroups DEF cat_set
<1>9. CASE Configure
  BY <1>9, SameGroups DEF Configure
<1>10. CASE Install
  BY <1>10, SameGroups DEF Install
<1>11. CASE Exit
  BY <1>11 DEF Exit
<1>12. CASE signal_handler
  BY <1>12 DEF signal_handler
<1> QED BY <1>1, <1>2, <1>3, <1>4, <1>5, <1>6, <1>7, <1>8, <1>9, <1>10, <1>11, <1>12 DEF CatNext

-------------------------------------------------------------------------------
(* What may be reverted, and what other programs have.                     *)
LEMMA CleanInit == CatInit => Clean /\ OthersKept
<1> SUFFICES ASSUME CatInit PROVE Clean /\ OthersKept
  OBVIOUS
<1>1. Clean
  BY DEF CatInit, Clean, Requested
<1>2. \A k \in Lcores : mask[SocketOf(k)][Others[k]] = NoMask /\ assoc[k] = Others[k]
  BY Machine, CatAssumption DEF CatInit
<1> QED BY <1>1, <1>2 DEF OthersKept

(* check_cpus refuses a core with a class, another program's among them.   *)
LEMMA ChecksClean ==
    ASSUME IInv, check_cpus, pc = "validate"
    PROVE  \A k \in Requested : k \in Lcores /\ assoc[k] = 0 /\ Others[k] = 0
<1>1. \A k \in Requested : k \in Lcores /\ assoc[k] = 0
  BY DEF check_cpus, Requested, GroupIds
<1>2. \A k \in Lcores : Others[k] # 0 => assoc[k] = Others[k]
  BY DEF IInv, OthersKept
<1> QED BY <1>1, <1>2

LEMMA CleanNext ==
    ASSUME IInv, [CatNext]_catvars  PROVE Clean'
<1> USE DEF IInv, CatTypeOK, Stages, Clean, config_of, caller, Goto
<1>1. CASE UNCHANGED catvars
  BY <1>1, SameGroups DEF catvars
<1>2. CASE cat_init
  BY <1>2, SameGroups DEF cat_init
<1>3. CASE cat_exit_Again
  BY <1>3, SameGroups, NoGroups DEF cat_exit_Again, cat_fini
<1>4. CASE Fail
  BY <1>4, NoGroups DEF Fail, cat_fini
<1>5. CASE parse_args
  BY <1>5 DEF parse_args
<1>6. CASE Library
  BY <1>6, SameGroups DEF Library
<1>7. CASE cat_validate
  BY <1>7, SameGroups, ChecksClean DEF cat_validate
<1>8. CASE cat_set
  BY <1>8, SameGroups DEF cat_set
<1>9. CASE Configure
  BY <1>9, SameGroups DEF Configure
<1>10. CASE Install
  BY <1>10, SameGroups DEF Install
<1>11. CASE Exit
  BY <1>11, SameGroups, NoGroups DEF Exit, cat_exit, cat_fini
<1>12. CASE signal_handler
  BY <1>12, SameGroups, NoGroups DEF signal_handler, cat_exit, cat_fini
<1> QED BY <1>1, <1>2, <1>3, <1>4, <1>5, <1>6, <1>7, <1>8, <1>9, <1>10, <1>11, <1>12 DEF CatNext

(* A revert takes away only what Requested names.                          *)
LEMMA RevertFacts ==
    ASSUME IInv, Revert
    PROVE  /\ \A k \in Lcores : assoc'[k] = assoc[k] \/ (k \in Requested /\ assoc'[k] = 0)
           /\ ~cut' => ~cut /\ \A k \in Lcores :
                                  assoc'[k] = IF k \in Requested THEN 0 ELSE assoc[k]
BY DEF Revert, IInv, CatTypeOK

LEMMA OthersNext ==
    ASSUME IInv, [CatNext]_catvars  PROVE OthersKept'
<1> DEFINE Masked(k) == mask[SocketOf(k)][Others[k]] = NoMask
           Lost == pc = "ended" /\ handlers /\ inits > 1
<1> USE DEF Goto
<1>1. \A k \in Lcores : Others[k] # 0 => Masked(k) /\ (assoc[k] = Others[k] \/ Lost)
  BY DEF IInv, OthersKept
<1>2. SUFFICES ASSUME NEW k \in Lcores, Others[k] # 0
               PROVE  Masked(k)' /\ (assoc'[k] = Others[k] \/ Lost')
  BY DEF OthersKept
<1>3. process = "runs" /\ pc # "ended" => assoc[k] = Others[k] /\ Masked(k)
  BY <1>1, <1>2
<1>4. CASE UNCHANGED catvars
  BY <1>1, <1>2, <1>4 DEF catvars
<1>5. CASE cat_init \/ Fail \/ parse_args \/ Library \/ cat_validate \/ cat_set \/ Install
  <2>1. process = "runs" /\ pc # "ended" /\ UNCHANGED <<assoc, mask>>
    BY <1>5 DEF cat_init, Fail, parse_args, Library, cat_validate, cat_set, Install
  <2> QED BY <1>3, <2>1
<1>6. CASE cat_exit_Again
  <2>1. CASE Goto("revert", "fini") /\ Revert /\ UNCHANGED <<mask, config_of, todo, caller, process>>
    <3>1. k \notin Requested
      BY <1>2, <2>1 DEF IInv, Clean
    <3> QED BY <1>3, <2>1, <3>1, RevertFacts
  <2>2. CASE Goto("fini", "parse") /\ cat_fini /\ UNCHANGED <<assoc, mask, caller, cut>>
    BY <1>3, <2>2
  <2> QED BY <1>6, <2>1, <2>2 DEF cat_exit_Again
<1>7. CASE Configure
  <2>1. process = "runs" /\ pc = "configure" /\ todo # << >>
    BY <1>7 DEF Configure
  <2>2. CASE UNCHANGED <<assoc, mask>>
    BY <1>3, <2>1, <2>2
  <2>3. CASE Perform(Head(todo))
    <3>1. PICK m \in Calls : m = Head(todo) /\ m = todo[1] /\ 1 \in DOMAIN todo
      BY <2>1, NextCall
    <3>2. CASE m \in MaskCalls /\ UNCHANGED assoc
               /\ mask' = [mask EXCEPT ![m.socket][m.class] = m.mask]
      <4>1. SocketOf(k) \in Sockets /\ Others[k] \in Classes
        BY Machine, CatAssumption
      <4>2. ~(SocketOf(k) = m.socket /\ Others[k] = m.class)
        BY <1>2, <2>1, <3>1, <3>2 DEF IInv, Pending, SparesOthers
      <4>3. mask'[SocketOf(k)][Others[k]] = mask[SocketOf(k)][Others[k]]
        BY <2>1, <3>2, <4>1, <4>2, MaskWritten
      <4> QED BY <1>3, <2>1, <3>2, <4>3
    <3>3. CASE m \in AssocCalls /\ UNCHANGED mask
               /\ assoc' = [assoc EXCEPT ![m.core] = m.class]
      <4>1. m.core # k
        BY <1>2, <2>1, <3>3, CallKinds DEF IInv, Clean
      <4> QED BY <1>3, <2>1, <3>3, <4>1 DEF IInv, CatTypeOK
    <3> QED BY <2>3, <3>1, <3>2, <3>3, PerformKinds
  <2> QED BY <1>7, <2>2, <2>3 DEF Configure
<1>8. CASE Exit
  <2>1. process = "runs" /\ pc = "idle" /\ k \notin Requested /\ UNCHANGED mask
    BY <1>2, <1>8 DEF Exit, IInv, Clean
  <2>2. Revert \/ UNCHANGED assoc
    BY <1>8 DEF Exit, cat_exit
  <2> QED BY <1>3, <2>1, <2>2, RevertFacts
<1>9. CASE signal_handler
  <2>1. /\ process = "runs" /\ pc # "ended" /\ pc' = "ended" /\ UNCHANGED <<mask, inits, handlers>>
    BY <1>9 DEF signal_handler, caller
  <2>2. (handlers /\ Revert) \/ UNCHANGED assoc
    BY <1>9 DEF signal_handler, cat_exit
  <2>3. handlers /\ ~(inits > 1) => k \notin Requested
    BY <1>2 DEF IInv, Clean, CatTypeOK
  <2> QED BY <1>3, <2>1, <2>2, <2>3, RevertFacts
<1> QED BY <1>4, <1>5, <1>6, <1>7, <1>8, <1>9 DEF CatNext

-------------------------------------------------------------------------------
(* What is left of a request.                                              *)
LEMMA UntouchedInit == CatInit => Untouched
BY DEF CatInit, Untouched

LEMMA UntouchedNext ==
    ASSUME IInv, [CatNext]_catvars  PROVE Untouched'
<1> USE DEF Untouched, Goto
<1>1. assoc \in [Lcores -> Classes] /\ assoc' \in [Lcores -> Classes] /\ Others \in [Lcores -> Classes]
  BY TypeNext, CatAssumption DEF IInv, CatTypeOK
<1>2. CASE UNCHANGED catvars
  BY <1>2, SameGroups DEF catvars, IInv
<1>3. CASE cat_init
  BY <1>3, SameGroups DEF cat_init, config_of, IInv
<1>4. CASE cat_exit_Again
  <2>1. CASE Goto("revert", "fini") /\ Revert /\ UNCHANGED <<mask, config_of, todo, caller, process>>
    <3> SUFFICES ASSUME ~cut' PROVE assoc' = Others
      BY <2>1
    <3>1. \A k \in Lcores : assoc'[k] = Others[k]
      BY <2>1, RevertFacts DEF IInv, Clean
    <3> QED BY <1>1, <3>1
  <2>2. CASE Goto("fini", "parse") /\ cat_fini /\ UNCHANGED <<assoc, mask, caller, cut>>
    BY <2>2 DEF IInv
  <2> QED BY <1>4, <2>1, <2>2 DEF cat_exit_Again
<1>5. CASE Fail
  BY <1>5 DEF Fail, cat_fini, IInv
<1>6. CASE parse_args
  BY <1>6 DEF parse_args, IInv
<1>7. CASE Library
  BY <1>7 DEF Library, IInv
<1>8. CASE cat_validate
  BY <1>8 DEF cat_validate, IInv
<1>9. CASE cat_set
  BY <1>9 DEF cat_set, IInv
<1>10. CASE Configure
  <2>1. process = "runs" /\ pc = "configure" /\ todo # << >> /\ UNCHANGED m_config
    BY <1>10 DEF Configure, config_of
  <2>2. PICK m \in Calls : m = Head(todo) /\ m = todo[1] /\ 1 \in DOMAIN todo
    BY <2>1, NextCall
  <2>3. CASE pc' = "configure" /\ Perform(m) /\ UNCHANGED cut
    <3>1. \A k \in Lcores \ Requested : assoc'[k] = assoc[k]
      BY <1>1, <2>2, <2>3, CallKinds, PerformKinds
    <3> QED BY <2>1, <2>3, <3>1, SameGroups DEF IInv
  <2>4. CASE /\ pc' = "fail" /\ UNCHANGED assoc
             /\ cut' = (cut \/ m.call = "pqos_alloc_assoc_set")
    <3> SUFFICES ASSUME ~cut' PROVE assoc = Others
      BY <2>4
    <3>1. m \in MaskCalls
      BY <2>2, <2>4, CallKinds DEF Calls
    <3> QED BY <2>1, <2>2, <2>4, <3>1 DEF IInv, Pending
  <2> QED BY <1>10, <2>2, <2>3, <2>4 DEF Configure
<1>11. CASE Install
  BY <1>11, SameGroups DEF Install, config_of, IInv, Stages, CatTypeOK
<1>12. CASE Exit
  <2>1. pc = "idle" /\ pc' = "ended"
    BY <1>12 DEF Exit
  <2> SUFFICES ASSUME ~cut', NEW k \in Lcores PROVE assoc'[k] \in {0, Others[k]}
    BY <2>1
  <2>2. CASE m_cap /\ Revert
    BY <2>1, <2>2, RevertFacts DEF IInv
  <2>3. CASE ~m_cap /\ UNCHANGED <<assoc, cut>>
    BY <2>1, <2>3 DEF IInv
  <2> QED BY <1>12, <2>2, <2>3 DEF Exit, cat_exit
<1>13. CASE signal_handler
  <2>1. pc # "ended" /\ pc' = "ended"
    BY <1>13 DEF signal_handler
  <2> SUFFICES ASSUME ~cut', NEW k \in Lcores PROVE assoc'[k] \in {0, Others[k]}
    BY <2>1
  <2>2. CASE m_cap /\ Revert
    BY <2>1, <2>2, RevertFacts DEF IInv, CatTypeOK
  <2>3. CASE ~m_cap /\ UNCHANGED <<assoc, cut>>
    BY <2>1, <2>3 DEF IInv, CatTypeOK, Stages
  <2>4. CASE ~handlers /\ cut' = (cut \/ pc = "configure") /\ UNCHANGED assoc
    BY <2>1, <2>4 DEF IInv, CatTypeOK, Stages
  <2> QED BY <1>13, <2>2, <2>3, <2>4 DEF signal_handler, cat_exit
<1> QED BY <1>2, <1>3, <1>4, <1>5, <1>6, <1>7, <1>8, <1>9, <1>10, <1>11, <1>12, <1>13 DEF CatNext

-------------------------------------------------------------------------------
(* The classes check_and_select_classes gives.                             *)
InUse(s) == {assoc[k] : k \in {k \in Lcores : SocketOf(k) = s}}

LEMMA FreeFacts ==
    ASSUME NEW s
    PROVE  /\ Len(Free(s)) \in Nat
           /\ \A x \in 1 .. Len(Free(s)) : Free(s)[x] \in Classes \ InUse(s)
           /\ \A x, y \in 1 .. Len(Free(s)) : Free(s)[x] = Free(s)[y] => x = y
<1>1. PICK C : C = Classes \ InUse(s)
  OBVIOUS
<1>2. C \in SUBSET Classes /\ C \subseteq Int
  <2>1. C \subseteq Classes
    BY <1>1
  <2>2. Classes \subseteq Int
    BY Machine
  <2> QED BY <2>1, <2>2
<1>3. IsFiniteSet(C)
  <2>1. IsFiniteSet(Classes)
    BY Machine
  <2> QED BY <1>2, <2>1, FS_Subset
<1>4. Free(s) = InOrderOf(C)
  BY <1>1 DEF Free, InUse
<1>5. /\ Cardinality(C) \in Nat /\ InOrderOf(C) \in [1 .. Cardinality(C) -> C]
      /\ Len(InOrderOf(C)) = Cardinality(C)
      /\ \A x, y \in 1 .. Cardinality(C) : InOrderOf(C)[x] = InOrderOf(C)[y] => x = y
  BY <1>2, <1>3, InOrderFacts
<1> QED BY <1>1, <1>4, <1>5

(* A later group on the same socket has a greater rank.                    *)
LEMMA RankGrows ==
    ASSUME NEW s, NEW i \in Nat \ {0}, NEW j \in Nat \ {0}, On(i, s), On(j, s)
    PROVE  Rank(i, s) \in Nat \ {0} /\ (Rank(i, s) = Rank(j, s) => i = j)
<1> DEFINE Seen(n) == {h \in 1 .. n : On(h, s)}
<1>1. ASSUME NEW n \in Nat \ {0}
      PROVE  IsFiniteSet(Seen(n)) /\ Cardinality(Seen(n)) \in Nat /\ Rank(n, s) = Cardinality(Seen(n))
  <2>1. Seen(n) \in SUBSET (1 .. n) /\ IsFiniteSet(1 .. n)
    BY FS_Interval
  <2>2. IsFiniteSet(Seen(n))
    BY <2>1, FS_Subset
  <2> QED BY <2>2, FS_CardinalityType DEF Rank
<1>2. ASSUME NEW n \in Nat \ {0}, On(n, s)
      PROVE  Cardinality(Seen(n)) # 0
  <2>1. n \in Seen(n)
    BY <1>2
  <2> QED BY <1>1, <2>1, FS_EmptySet
<1>3. ASSUME NEW m \in Nat \ {0}, NEW n \in Nat \ {0}, m < n, On(n, s)
      PROVE  Cardinality(Seen(m)) < Cardinality(Seen(n))
  <2>1. n \in Seen(n) /\ Seen(m) \in SUBSET (Seen(n) \ {n})
    BY <1>3
  <2>2. IsFiniteSet(Seen(n) \ {n}) /\ Cardinality(Seen(n) \ {n}) = Cardinality(Seen(n)) - 1
    BY <1>1, <2>1, FS_RemoveElement
  <2>3. Cardinality(Seen(m)) <= Cardinality(Seen(n) \ {n})
    BY <2>1, <2>2, FS_Subset
  <2>4. Cardinality(Seen(n)) \in Nat /\ Cardinality(Seen(m)) \in Nat
    BY <1>1
  <2> QED BY <2>2, <2>3, <2>4
<1>4. Rank(i, s) \in Nat /\ Rank(i, s) # 0
  BY <1>1, <1>2
<1>5. ASSUME Rank(i, s) = Rank(j, s), i # j PROVE FALSE
  <2>1. i < j \/ j < i
    BY <1>5
  <2>2. Rank(i, s) < Rank(j, s) \/ Rank(j, s) < Rank(i, s)
    BY <1>1, <1>3, <2>1
  <2>3. Rank(i, s) \in Nat /\ Rank(j, s) \in Nat
    BY <1>1
  <2> QED BY <1>5, <2>2, <2>3
<1> QED BY <1>4, <1>5

(* The groups of a checked argument are numbered from 1.                   *)
LEMMA GroupNumbers ==
    ASSUME IInv, pc = "select"
    PROVE  \E n \in Nat \ {0} : GroupIds = 1 .. n
BY ParseShape DEF IInv, Groups, Parsed, GroupIds

LEMMA ClassesChosen ==
    ASSUME IInv, pc = "select", check_and_select_classes
    PROVE  /\ \A i \in GroupIds, s \in Sockets : cos_id_map(i, s) \in Classes
           /\ \A i \in GroupIds, s \in Sockets : cos_id_map(i, s) # 0 <=> On(i, s)
           /\ \A i \in GroupIds, s \in Sockets : On(i, s) => cos_id_map(i, s) \notin InUse(s)
           /\ \A i, j \in GroupIds, s \in Sockets :
                 On(i, s) /\ On(j, s) /\ cos_id_map(i, s) = cos_id_map(j, s) => i = j
<1>1. PICK n \in Nat \ {0} : GroupIds = 1 .. n
  BY GroupNumbers
<1>2. ASSUME NEW i \in GroupIds, NEW s \in Sockets, On(i, s)
      PROVE  /\ Rank(i, s) \in 1 .. Len(Free(s))
             /\ cos_id_map(i, s) = Free(s)[Rank(i, s)]
             /\ 0 \in InUse(s)
  <2>1. Rank(i, s) \in Nat \ {0} /\ Rank(i, s) <= Len(Free(s)) /\ Len(Free(s)) \in Nat
    BY <1>1, <1>2, RankGrows, FreeFacts DEF check_and_select_classes
  <2>2. PICK k \in m_config[i].cpus \intersect Lcores : SocketOf(k) = s
    BY <1>2 DEF On
  <2>3. k \in Requested
    BY <2>2 DEF Requested, GroupIds
  <2>4. assoc[k] = 0
    BY <2>3 DEF IInv, Allotted
  <2> QED BY <1>2, <2>1, <2>2, <2>4 DEF cos_id_map, InUse
<1>3. ASSUME NEW i \in GroupIds, NEW s \in Sockets
      PROVE  /\ cos_id_map(i, s) \in Classes
             /\ cos_id_map(i, s) # 0 <=> On(i, s)
             /\ On(i, s) => cos_id_map(i, s) \notin InUse(s)
  <2>1. CASE On(i, s)
    <3>1. cos_id_map(i, s) \in Classes \ InUse(s) /\ 0 \in InUse(s)
      BY <1>2, <2>1, FreeFacts
    <3> QED BY <2>1, <3>1
  <2>2. CASE ~On(i, s)
    BY <2>2, Machine DEF cos_id_map
  <2> QED BY <2>1, <2>2
<1>4. ASSUME NEW i \in GroupIds, NEW j \in GroupIds, NEW s \in Sockets,
             On(i, s), On(j, s), cos_id_map(i, s) = cos_id_map(j, s)
      PROVE  i = j
  <2>1. Rank(i, s) = Rank(j, s)
    BY <1>2, <1>4, FreeFacts
  <2> QED BY <1>1, <1>4, <2>1, RankGrows
<1> QED BY <1>3, <1>4

-------------------------------------------------------------------------------
(* What configure_cat calls.                                               *)
MasksOn(i) == {s \in Sockets : cos_id_map(i, s) # 0}
CoresOf(i) == m_config[i].cpus \intersect Lcores
SetMask(i, s) ==
    [call |-> "pqos_l3ca_set", socket |-> s, class |-> cos_id_map(i, s),
     mask |-> [code |-> m_config[i].code, data |-> m_config[i].data]]
SetCore(i, k) ==
    [call |-> "pqos_alloc_assoc_set", core |-> k, class |-> cos_id_map(i, SocketOf(k))]
MaskPart(i) == [x \in DOMAIN InOrderOf(MasksOn(i)) |-> SetMask(i, InOrderOf(MasksOn(i))[x])]
CorePart(i) == [x \in DOMAIN InOrderOf(CoresOf(i)) |-> SetCore(i, InOrderOf(CoresOf(i))[x])]

LEMMA ConfigureParts ==
    configure_cat = FlattenSeq([i \in GroupIds |-> MaskPart(i)])
                    \o FlattenSeq([i \in GroupIds |-> CorePart(i)])
BY DEF configure_cat, ForGroups, MaskPart, CorePart, MasksOn, CoresOf, SetMask, SetCore

LEMMA MaskPartFacts ==
    ASSUME IInv, pc = "select", check_and_select_classes, NEW i \in GroupIds
    PROVE  /\ MaskPart(i) \in Seq(MaskCalls)
           /\ \A x \in DOMAIN MaskPart(i) :
                 \E s \in Sockets : On(i, s) /\ MaskPart(i)[x] = SetMask(i, s)
           /\ \A s \in Sockets : On(i, s) =>
                 \E x \in DOMAIN MaskPart(i) : MaskPart(i)[x] = SetMask(i, s)
<1> DEFINE g == [s \in Sockets |-> SetMask(i, s)]
<1>1. MasksOn(i) = {s \in Sockets : On(i, s)} /\ MasksOn(i) \in SUBSET Sockets
  BY ClassesChosen DEF MasksOn
<1>2. MasksOn(i) \subseteq Int /\ IsFiniteSet(MasksOn(i))
  <2>1. IsFiniteSet(Sockets) /\ Sockets \subseteq Int
    BY Machine
  <2>2. IsFiniteSet(MasksOn(i))
    BY <1>1, <2>1, FS_Subset
  <2> QED BY <1>1, <2>1, <2>2
<1>3. \A s \in MasksOn(i) : g[s] \in MaskCalls
  BY <1>1, ClassesChosen DEF SetMask, MaskCalls, MasksOf, GroupIds
<1>4. MaskPart(i) = [x \in DOMAIN InOrderOf(MasksOn(i)) |-> g[InOrderOf(MasksOn(i))[x]]]
  <2>1. \A x \in DOMAIN InOrderOf(MasksOn(i)) : InOrderOf(MasksOn(i))[x] \in Sockets
    BY <1>1, <1>2, InOrderFacts
  <2> QED BY <2>1 DEF MaskPart
<1> HIDE DEF g
<1>5. /\ MaskPart(i) \in Seq(MaskCalls)
      /\ \A x \in DOMAIN MaskPart(i) : \E s \in MasksOn(i) : MaskPart(i)[x] = g[s]
      /\ \A s \in MasksOn(i) : \E x \in DOMAIN MaskPart(i) : MaskPart(i)[x] = g[s]
  <2>1. PICK S : S = MasksOn(i)
    OBVIOUS
  <2>2. PICK V : V = MaskCalls
    OBVIOUS
  <2>3. PICK f : f = g
    OBVIOUS
  <2>4. PICK part : part = MaskPart(i)
    OBVIOUS
  <2>5. S \subseteq Int /\ IsFiniteSet(S)
    BY <1>2, <2>1
  <2>6. PICK n \in Nat : n = Cardinality(S)
    BY <2>5, InOrderFacts
  <2>7. PICK F : F = InOrderOf(S)
    OBVIOUS
  <2>8. F \in [1 .. n -> S] /\ DOMAIN F = 1 .. n /\ \A k \in S : \E x \in 1 .. n : F[x] = k
    BY <2>5, <2>6, <2>7, InOrderFacts
  <2>9. part = [x \in 1 .. n |-> f[F[x]]]
    BY <1>4, <2>1, <2>3, <2>4, <2>7, <2>8
  <2>10. part \in [1 .. n -> V] /\ \A x \in 1 .. n : part[x] = f[F[x]]
    BY <1>3, <2>1, <2>2, <2>3, <2>8, <2>9
  <2>11. /\ part \in Seq(V)
         /\ \A x \in DOMAIN part : \E k \in S : part[x] = f[k]
         /\ \A k \in S : \E x \in DOMAIN part : part[x] = f[k]
    BY <2>8, <2>10, PartFacts
  <2> QED BY <2>1, <2>2, <2>3, <2>4, <2>11
<1> QED BY <1>1, <1>5 DEF g

LEMMA CorePartFacts ==
    ASSUME IInv, pc = "select", check_and_select_classes, NEW i \in GroupIds
    PROVE  /\ CorePart(i) \in Seq(AssocCalls)
           /\ \A x \in DOMAIN CorePart(i) :
                 \E k \in m_config[i].cpus : k \in Lcores /\ CorePart(i)[x] = SetCore(i, k)
           /\ \A k \in m_config[i].cpus :
                 \E x \in DOMAIN CorePart(i) : CorePart(i)[x] = SetCore(i, k)
<1> DEFINE g == [k \in Lcores |-> SetCore(i, k)]
<1>1. CoresOf(i) = m_config[i].cpus /\ CoresOf(i) \in SUBSET Lcores /\ CoresOf(i) \subseteq Requested
  BY DEF CoresOf, IInv, Groups, Checked, Requested, GroupIds
<1>2. CoresOf(i) \subseteq Int /\ IsFiniteSet(CoresOf(i))
  <2>1. IsFiniteSet(Lcores) /\ Lcores \subseteq Int
    BY Machine
  <2>2. IsFiniteSet(CoresOf(i))
    BY <1>1, <2>1, FS_Subset
  <2> QED BY <1>1, <2>1, <2>2
<1>3. \A k \in CoresOf(i) : g[k] \in AssocCalls
  BY <1>1, ClassesChosen, Machine DEF SetCore, AssocCalls
<1>4. CorePart(i) = [x \in DOMAIN InOrderOf(CoresOf(i)) |-> g[InOrderOf(CoresOf(i))[x]]]
  <2>1. \A x \in DOMAIN InOrderOf(CoresOf(i)) : InOrderOf(CoresOf(i))[x] \in Lcores
    BY <1>1, <1>2, InOrderFacts
  <2> QED BY <2>1 DEF CorePart
<1> HIDE DEF g
<1>5. /\ CorePart(i) \in Seq(AssocCalls)
      /\ \A x \in DOMAIN CorePart(i) : \E k \in CoresOf(i) : CorePart(i)[x] = g[k]
      /\ \A k \in CoresOf(i) : \E x \in DOMAIN CorePart(i) : CorePart(i)[x] = g[k]
  <2>1. PICK S : S = CoresOf(i)
    OBVIOUS
  <2>2. PICK V : V = AssocCalls
    OBVIOUS
  <2>3. PICK f : f = g
    OBVIOUS
  <2>4. PICK part : part = CorePart(i)
    OBVIOUS
  <2>5. S \subseteq Int /\ IsFiniteSet(S)
    BY <1>2, <2>1
  <2>6. PICK n \in Nat : n = Cardinality(S)
    BY <2>5, InOrderFacts
  <2>7. PICK F : F = InOrderOf(S)
    OBVIOUS
  <2>8. F \in [1 .. n -> S] /\ DOMAIN F = 1 .. n /\ \A k \in S : \E x \in 1 .. n : F[x] = k
    BY <2>5, <2>6, <2>7, InOrderFacts
  <2>9. part = [x \in 1 .. n |-> f[F[x]]]
    BY <1>4, <2>1, <2>3, <2>4, <2>7, <2>8
  <2>10. part \in [1 .. n -> V] /\ \A x \in 1 .. n : part[x] = f[F[x]]
    BY <1>3, <2>1, <2>2, <2>3, <2>8, <2>9
  <2>11. /\ part \in Seq(V)
         /\ \A x \in DOMAIN part : \E k \in S : part[x] = f[k]
         /\ \A k \in S : \E x \in DOMAIN part : part[x] = f[k]
    BY <2>8, <2>10, PartFacts
  <2> QED BY <2>1, <2>2, <2>3, <2>4, <2>11
<1> QED BY <1>1, <1>5 DEF g

(* The two halves put together.                                            *)
LEMMA ConfigureHalves ==
    ASSUME IInv, pc = "select", check_and_select_classes
    PROVE  \E A \in Seq(MaskCalls), B \in Seq(AssocCalls) :
              /\ configure_cat = A \o B
              /\ \A x \in DOMAIN A : \E i \in GroupIds, s \in Sockets :
                    On(i, s) /\ A[x] = SetMask(i, s)
              /\ \A i \in GroupIds, s \in Sockets : On(i, s) =>
                    \E x \in DOMAIN A : A[x] = SetMask(i, s)
              /\ \A x \in DOMAIN B : \E i \in GroupIds : \E k \in m_config[i].cpus :
                    k \in Lcores /\ B[x] = SetCore(i, k)
              /\ \A i \in GroupIds : \A k \in m_config[i].cpus :
                    \E x \in DOMAIN B : B[x] = SetCore(i, k)
<1>1. PICK n \in Nat \ {0} : GroupIds = 1 .. n
  BY GroupNumbers
<1>2. PICK S : S = [i \in GroupIds |-> MaskPart(i)]
  OBVIOUS
<1>3. PICK C : C = [i \in GroupIds |-> CorePart(i)]
  OBVIOUS
<1>4. PICK M : M = MaskCalls
  OBVIOUS
<1>5. PICK N : N = AssocCalls
  OBVIOUS
<1>6. PICK QM : QM = Seq(M)
  OBVIOUS
<1>7. PICK QN : QN = Seq(N)
  OBVIOUS
<1>8. S \in [1 .. n -> QM] /\ \A i \in 1 .. n : S[i] = MaskPart(i)
  BY <1>1, <1>2, <1>4, <1>6, MaskPartFacts
<1>9. C \in [1 .. n -> QN] /\ \A i \in 1 .. n : C[i] = CorePart(i)
  BY <1>1, <1>3, <1>5, <1>7, CorePartFacts
<1>10. S \in Seq(QM) /\ Len(S) = n /\ C \in Seq(QN) /\ Len(C) = n
  BY <1>8, <1>9
<1>11. PICK A : A = FlattenSeq(S)
  OBVIOUS
<1>12. PICK B : B = FlattenSeq(C)
  OBVIOUS
<1>13. JoinOf(M, S, n, A)
  BY <1>6, <1>10, <1>11, FlattenFacts
<1>14. JoinOf(N, C, n, B)
  BY <1>7, <1>10, <1>12, FlattenFacts
<1>15. A \in Seq(MaskCalls) /\ B \in Seq(AssocCalls) /\ configure_cat = A \o B
  BY <1>2, <1>3, <1>4, <1>5, <1>11, <1>12, <1>13, <1>14, ConfigureParts DEF JoinOf
<1>16. \A x \in DOMAIN A : \E i \in GroupIds, s \in Sockets : On(i, s) /\ A[x] = SetMask(i, s)
  <2> SUFFICES ASSUME NEW x \in DOMAIN A
               PROVE  \E i \in GroupIds, s \in Sockets : On(i, s) /\ A[x] = SetMask(i, s)
    OBVIOUS
  <2>1. PICK i \in 1 .. n : \E j \in DOMAIN S[i] : A[x] = S[i][j]
    BY <1>13 DEF JoinOf
  <2>2. i \in GroupIds /\ S[i] = MaskPart(i)
    BY <1>1, <1>8
  <2> QED BY <2>1, <2>2, MaskPartFacts
<1>17. \A i \in GroupIds, s \in Sockets : On(i, s) => \E x \in DOMAIN A : A[x] = SetMask(i, s)
  <2> SUFFICES ASSUME NEW i \in GroupIds, NEW s \in Sockets, On(i, s)
               PROVE  \E x \in DOMAIN A : A[x] = SetMask(i, s)
    OBVIOUS
  <2>1. PICK j \in DOMAIN MaskPart(i) : MaskPart(i)[j] = SetMask(i, s)
    BY MaskPartFacts
  <2>2. i \in 1 .. n /\ S[i] = MaskPart(i)
    BY <1>1, <1>8
  <2> QED BY <1>13, <2>1, <2>2 DEF JoinOf
<1>18. \A x \in DOMAIN B : \E i \in GroupIds : \E k \in m_config[i].cpus :
          k \in Lcores /\ B[x] = SetCore(i, k)
  <2> SUFFICES ASSUME NEW x \in DOMAIN B
               PROVE  \E i \in GroupIds : \E k \in m_config[i].cpus :
                         k \in Lcores /\ B[x] = SetCore(i, k)
    OBVIOUS
  <2>1. PICK i \in 1 .. n : \E j \in DOMAIN C[i] : B[x] = C[i][j]
    BY <1>14 DEF JoinOf
  <2>2. i \in GroupIds /\ C[i] = CorePart(i)
    BY <1>1, <1>9
  <2> QED BY <2>1, <2>2, CorePartFacts
<1>19. \A i \in GroupIds : \A k \in m_config[i].cpus : \E x \in DOMAIN B : B[x] = SetCore(i, k)
  <2> SUFFICES ASSUME NEW i \in GroupIds, NEW k \in m_config[i].cpus
               PROVE  \E x \in DOMAIN B : B[x] = SetCore(i, k)
    OBVIOUS
  <2>1. PICK j \in DOMAIN CorePart(i) : CorePart(i)[j] = SetCore(i, k)
    BY CorePartFacts
  <2>2. i \in 1 .. n /\ C[i] = CorePart(i)
    BY <1>1, <1>9
  <2> QED BY <1>14, <2>1, <2>2 DEF JoinOf
<1> QED BY <1>15, <1>16, <1>17, <1>18, <1>19

LEMMA ConfigureFacts ==
    ASSUME IInv, pc = "select", check_and_select_classes, NEW t, t = configure_cat
    PROVE  /\ t \in Seq(Calls) /\ MasksFirst(t) /\ SparesOthers(t)
           /\ \E cos \in [GroupIds \X Sockets -> Classes] : Allots(cos, t)
<1>1. PICK cos : cos = [p \in GroupIds \X Sockets |-> cos_id_map(p[1], p[2])]
  OBVIOUS
<1>2. \A i \in GroupIds, s \in Sockets : cos[<<i, s>>] = cos_id_map(i, s)
  BY <1>1
<1>3. cos \in [GroupIds \X Sockets -> Classes]
  <2>1. \A p \in GroupIds \X Sockets : cos_id_map(p[1], p[2]) \in Classes
    BY ClassesChosen
  <2> QED BY <1>1, <2>1
<1>4. PICK A \in Seq(MaskCalls), B \in Seq(AssocCalls) :
         /\ t = A \o B
         /\ \A x \in DOMAIN A : \E i \in GroupIds, s \in Sockets : On(i, s) /\ A[x] = SetMask(i, s)
         /\ \A i \in GroupIds, s \in Sockets : On(i, s) => \E x \in DOMAIN A : A[x] = SetMask(i, s)
         /\ \A x \in DOMAIN B : \E i \in GroupIds : \E k \in m_config[i].cpus :
               k \in Lcores /\ B[x] = SetCore(i, k)
         /\ \A i \in GroupIds : \A k \in m_config[i].cpus : \E x \in DOMAIN B : B[x] = SetCore(i, k)
  BY ConfigureHalves
<1>5. PICK a \in Nat, b \in Nat : a = Len(A) /\ b = Len(B)
  OBVIOUS
<1>6. /\ DOMAIN A = 1 .. a /\ DOMAIN B = 1 .. b
      /\ \A x \in 1 .. a : A[x] \in MaskCalls
      /\ \A x \in 1 .. b : B[x] \in AssocCalls
  BY <1>5
<1>7. /\ t \in Seq(Calls) /\ DOMAIN t = 1 .. a + b
      /\ \A x \in 1 .. a : x \in DOMAIN t /\ t[x] = A[x]
      /\ \A x \in 1 .. b : a + x \in DOMAIN t /\ t[a + x] = B[x]
  <2>1. A \in Seq(Calls) /\ B \in Seq(Calls)
    <3> PICK P : P = Calls
      OBVIOUS
    <3>1. P = Calls /\ MaskCalls \subseteq P /\ AssocCalls \subseteq P
      BY DEF Calls
    <3>2. A \in Seq(P)
      <4>1. A \in Seq(MaskCalls)
        OBVIOUS
      <4>2. PICK M : M = MaskCalls
        OBVIOUS
      <4>3. A \in Seq(M) /\ M \subseteq P
        BY <3>1, <4>1, <4>2
      <4> QED BY <4>3, SeqMonotonic
    <3>3. B \in Seq(P)
      <4>1. B \in Seq(AssocCalls)
        OBVIOUS
      <4>2. PICK M : M = AssocCalls
        OBVIOUS
      <4>3. B \in Seq(M) /\ M \subseteq P
        BY <3>1, <4>1, <4>2
      <4> QED BY <4>3, SeqMonotonic
    <3> QED BY <3>1, <3>2, <3>3
  <2>2. PICK P : P = Calls
    OBVIOUS
  <2>3. A \in Seq(P) /\ B \in Seq(P) /\ t = A \o B
    BY <1>4, <2>1, <2>2
  <2>4. t \in Seq(P)
    BY <2>3
  <2>5. /\ DOMAIN t = 1 .. a + b
        /\ \A x \in 1 .. a : x \in DOMAIN t /\ t[x] = A[x]
        /\ \A x \in 1 .. b : a + x \in DOMAIN t /\ t[a + x] = B[x]
    BY <1>5, <2>3
  <2> QED BY <2>2, <2>4, <2>5
<1>8. ASSUME NEW x \in DOMAIN t
      PROVE  \/ x \in 1 .. a /\ t[x] = A[x] /\ t[x] \in MaskCalls
             \/ x - a \in 1 .. b /\ t[x] = B[x - a] /\ t[x] \in AssocCalls
  <2>1. x \in 1 .. a \/ (x - a \in 1 .. b /\ a + (x - a) = x)
    BY <1>7
  <2> QED BY <1>6, <1>7, <2>1
<1>9. MaskCalls \intersect AssocCalls = {}
  BY CallKinds
<1>10. MasksFirst(t)
  <2> SUFFICES ASSUME NEW x \in DOMAIN t, NEW y \in DOMAIN t, t[x] \in AssocCalls, t[y] \in MaskCalls
               PROVE  y < x
    BY DEF MasksFirst
  <2>1. x - a \in 1 .. b /\ y \in 1 .. a /\ x \in Int
    BY <1>7, <1>8, <1>9
  <2> QED BY <2>1
<1>11. ASSUME NEW x \in DOMAIN t, t[x] \in MaskCalls
       PROVE  \E i \in GroupIds : \E s \in Sockets :
                 On(i, s) /\ t[x].socket = s /\ t[x].class = cos[<<i, s>>] /\ t[x].mask = Goal(i)
  <2>1. x \in 1 .. a /\ t[x] = A[x]
    BY <1>8, <1>9, <1>11
  <2>2. PICK i \in GroupIds, s \in Sockets : On(i, s) /\ t[x] = SetMask(i, s)
    BY <1>4, <1>6, <2>1
  <2>3. t[x].socket = s /\ t[x].class = cos_id_map(i, s) /\ t[x].mask = Goal(i)
    BY <2>2 DEF SetMask, Goal
  <2>4. cos[<<i, s>>] = cos_id_map(i, s)
    BY <1>2
  <2> QED BY <2>2, <2>3, <2>4
<1>12. SparesOthers(t)
  <2> SUFFICES ASSUME NEW x \in DOMAIN t, t[x] \in MaskCalls, NEW k \in Lcores,
                      SocketOf(k) = t[x].socket, Others[k] # 0
               PROVE  t[x].class # Others[k]
    BY DEF SparesOthers
  <2>1. PICK i \in GroupIds, s \in Sockets :
           On(i, s) /\ t[x].socket = s /\ t[x].class = cos[<<i, s>>]
    BY <1>11
  <2>2. cos_id_map(i, s) \notin InUse(s)
    BY <2>1, ClassesChosen
  <2>3. assoc[k] = Others[k]
    BY DEF IInv, OthersKept
  <2>4. assoc[k] \in InUse(s)
    BY <2>1 DEF InUse
  <2> QED BY <1>2, <2>1, <2>2, <2>3, <2>4
<1>13. OwnClasses(cos)
  <2> SUFFICES ASSUME NEW i \in GroupIds, NEW s \in Sockets, On(i, s)
               PROVE  /\ cos[<<i, s>>] # 0
                      /\ \A j \in GroupIds : On(j, s) /\ cos[<<i, s>>] = cos[<<j, s>>] => i = j
                      /\ \A k \in Lcores \ Requested : SocketOf(k) = s => assoc[k] # cos[<<i, s>>]
    BY DEF OwnClasses
  <2>1. cos_id_map(i, s) # 0 /\ cos_id_map(i, s) \notin InUse(s)
    BY ClassesChosen
  <2>2. \A j \in GroupIds : On(j, s) /\ cos_id_map(i, s) = cos_id_map(j, s) => i = j
    BY ClassesChosen
  <2> QED BY <1>2, <2>1, <2>2 DEF InUse
<1>14. MasksSet(cos, t)
  <2> SUFFICES ASSUME NEW i \in GroupIds, NEW s \in Sockets, On(i, s)
               PROVE  \E x \in DOMAIN t : /\ t[x] \in MaskCalls
                                          /\ t[x].socket = s /\ t[x].class = cos[<<i, s>>]
    BY DEF MasksSet
  <2>1. PICK x \in 1 .. a : A[x] = SetMask(i, s)
    BY <1>4, <1>6
  <2>2. x \in DOMAIN t /\ t[x] = SetMask(i, s) /\ t[x] \in MaskCalls
    BY <1>6, <1>7, <2>1
  <2> QED BY <1>2, <2>2 DEF SetMask
<1>15. CoresSet(cos, t)
  <2> SUFFICES ASSUME NEW i \in GroupIds, NEW k \in m_config[i].cpus
               PROVE  \E x \in DOMAIN t : t[x] \in AssocCalls /\ t[x].core = k
    BY DEF CoresSet
  <2>1. PICK x \in 1 .. b : B[x] = SetCore(i, k)
    BY <1>4, <1>6
  <2>2. a + x \in DOMAIN t /\ t[a + x] = SetCore(i, k) /\ t[a + x] \in AssocCalls
    BY <1>6, <1>7, <2>1
  <2> QED BY <2>2 DEF SetCore
<1>16. \A x \in DOMAIN t : Conforms(cos, t[x])
  <2> SUFFICES ASSUME NEW x \in DOMAIN t PROVE Conforms(cos, t[x])
    OBVIOUS
  <2>1. CASE t[x] \in MaskCalls
    BY <1>11, <2>1 DEF Conforms
  <2>2. CASE x - a \in 1 .. b /\ t[x] = B[x - a] /\ t[x] \in AssocCalls
    <3>1. PICK i \in GroupIds : \E k \in m_config[i].cpus : k \in Lcores /\ t[x] = SetCore(i, k)
      BY <1>4, <1>6, <2>2
    <3>2. PICK k \in m_config[i].cpus : k \in Lcores /\ t[x] = SetCore(i, k)
      BY <3>1
    <3>3. t[x].core = k /\ t[x].class = cos_id_map(i, SocketOf(k))
      BY <3>2 DEF SetCore
    <3>4. cos[<<i, SocketOf(k)>>] = cos_id_map(i, SocketOf(k))
      <4>1. SocketOf(k) \in Sockets
        BY <3>2, Machine
      <4> QED BY <1>2, <4>1
    <3> QED BY <2>2, <3>2, <3>3, <3>4 DEF Conforms
  <2> QED BY <1>8, <2>1, <2>2
<1>17. Allots(cos, t)
  BY <1>13, <1>14, <1>15, <1>16 DEF Allots
<1> QED BY <1>3, <1>7, <1>10, <1>12, <1>17

-------------------------------------------------------------------------------
(* What is still to be called, and what each group has.                    *)
LEMMA PendingInit == CatInit => Pending /\ Allotted
BY DEF CatInit, Pending, Allotted

LEMMA SameCalls ==
    ASSUME UNCHANGED m_config
    PROVE  MaskCalls' = MaskCalls /\ AssocCalls' = AssocCalls /\ Calls' = Calls
BY SameGroups DEF MaskCalls, AssocCalls, Calls

(* Pending, for a sequence of calls.                                       *)
PendingOn(t, untouched) ==
    /\ t \in Seq(Calls) /\ MasksFirst(t) /\ SparesOthers(t)
    /\ (\E x \in DOMAIN t : t[x] \in MaskCalls) => untouched

LEMMA SamePending ==
    ASSUME UNCHANGED m_config, NEW t, todo' = t, PendingOn(t, ~cut' => assoc' = Others)
    PROVE  Pending'
BY SameCalls DEF PendingOn, Pending, MasksFirst, SparesOthers

LEMMA PendingNext ==
    ASSUME IInv, [CatNext]_catvars  PROVE Pending'
<1> USE DEF Goto
<1>1. SUFFICES ASSUME pc' = "configure" PROVE Pending'
  BY DEF Pending
<1>2. CASE UNCHANGED catvars
  BY <1>1, <1>2, SameCalls DEF catvars, IInv, Pending, MasksFirst, SparesOthers
<1>3. CASE cat_set
  <2>1. /\ pc = "select" /\ check_and_select_classes /\ todo' = configure_cat
        /\ UNCHANGED <<assoc, m_config, cut>>
    BY <1>1, <1>3 DEF cat_set, config_of
  <2>2. PICK t : t = configure_cat
    OBVIOUS
  <2>3. t \in Seq(Calls) /\ MasksFirst(t) /\ SparesOthers(t)
    BY <2>1, <2>2, ConfigureFacts
  <2>4. ~cut' => assoc' = Others
    BY <2>1 DEF IInv, Untouched
  <2> QED BY <2>1, <2>2, <2>3, <2>4, SamePending DEF PendingOn
<1>4. CASE Configure
  <2>1. /\ pc = "configure" /\ todo # << >> /\ UNCHANGED <<m_config, cut>>
        /\ Perform(Head(todo)) /\ todo' = Tail(todo)
    BY <1>1, <1>4 DEF Configure, config_of
  <2>2. PICK m \in Calls : m = Head(todo) /\ m = todo[1] /\ 1 \in DOMAIN todo
    BY <2>1, NextCall
  <2>3. PICK t : t = Tail(todo)
    OBVIOUS
  <2>4. /\ t \in Seq(Calls)
        /\ \A x \in DOMAIN t : x \in Nat /\ x + 1 \in DOMAIN todo /\ t[x] = todo[x + 1]
    BY <2>1, <2>3, NextCall
  <2>5. MasksFirst(todo) /\ SparesOthers(todo)
    BY <2>1 DEF IInv, Pending
  <2>6. MasksFirst(t)
    <3> SUFFICES ASSUME NEW x \in DOMAIN t, NEW y \in DOMAIN t,
                        t[x] \in AssocCalls, t[y] \in MaskCalls
                 PROVE  y < x
      BY DEF MasksFirst
    <3>1. y + 1 < x + 1
      BY <2>4, <2>5 DEF MasksFirst
    <3> QED BY <2>4, <3>1
  <2>7. SparesOthers(t)
    BY <2>4, <2>5 DEF SparesOthers
  <2>8. ASSUME NEW x \in DOMAIN t, t[x] \in MaskCalls, ~cut'
        PROVE  assoc' = Others
    <3>1. m \notin AssocCalls
      <4>1. x \in Nat /\ ~(x + 1 < 1)
        BY <2>4
      <4> QED BY <2>2, <2>4, <2>5, <2>8, <4>1 DEF MasksFirst
    <3>2. UNCHANGED assoc
      BY <2>1, <2>2, <3>1, PerformKinds
    <3>3. \E y \in DOMAIN todo : todo[y] \in MaskCalls
      BY <2>4, <2>8
    <3> QED BY <2>1, <2>8, <3>2, <3>3 DEF IInv, Pending
  <2> QED BY <2>1, <2>3, <2>4, <2>6, <2>7, <2>8, SamePending DEF PendingOn
<1>5. ~(cat_init \/ cat_exit_Again \/ Fail \/ parse_args \/ Library \/ cat_validate \/ Install
        \/ Exit \/ signal_handler)
  BY <1>1 DEF cat_init, cat_exit_Again, Fail, parse_args, Library, cat_validate, Install, Exit,
              signal_handler
<1> QED BY <1>2, <1>3, <1>4, <1>5 DEF CatNext

-------------------------------------------------------------------------------
LEMMA SameGoals ==
    ASSUME UNCHANGED m_config
    PROVE  /\ GroupIds' = GroupIds
           /\ \A i \in GroupIds, s \in Sockets : On(i, s)' <=> On(i, s)
           /\ \A i \in GroupIds : Goal(i)' = Goal(i)
BY SameGroups DEF Goal

LEMMA MasksSetNext ==
    ASSUME UNCHANGED m_config, NEW u, todo' = u, NEW cos,
           \A i \in GroupIds, s \in Sockets : On(i, s) =>
              \/ mask'[s][cos[<<i, s>>]] = Goal(i)
              \/ \E x \in DOMAIN u : /\ u[x] \in MaskCalls
                                     /\ u[x].socket = s /\ u[x].class = cos[<<i, s>>]
    PROVE  MasksSet(cos, todo)'
<1> SUFFICES ASSUME NEW i \in GroupIds', NEW s \in Sockets, On(i, s)'
             PROVE  \/ mask'[s][cos[<<i, s>>]] = Goal(i)'
                    \/ \E x \in DOMAIN u : /\ u[x] \in MaskCalls'
                                           /\ u[x].socket = s /\ u[x].class = cos[<<i, s>>]
  BY DEF MasksSet
<1>1. i \in GroupIds /\ On(i, s) /\ Goal(i)' = Goal(i) /\ MaskCalls' = MaskCalls
  BY SameGoals, SameCalls
<1> QED BY <1>1

LEMMA SameAllots ==
    ASSUME UNCHANGED <<m_config, assoc, mask>>, NEW t, todo' = t, NEW cos, Allots(cos, t)
    PROVE  Allots(cos, todo)'
<1>1. OwnClasses(cos)'
  BY SameGroups DEF Allots, OwnClasses
<1>2. MasksSet(cos, todo)'
  BY SameGroups, SameCalls DEF Allots, MasksSet, Goal
<1>3. CoresSet(cos, todo)'
  BY SameGroups, SameCalls DEF Allots, CoresSet
<1>4. \A x \in DOMAIN t : Conforms(cos, t[x])
  BY DEF Allots
<1>5. \A x \in DOMAIN todo' : Conforms(cos, todo[x])'
  BY <1>4, SameGroups, SameCalls DEF Conforms, Goal
<1> QED BY <1>1, <1>2, <1>3, <1>5 DEF Allots

(* A call that succeeds.                                                   *)
LEMMA MaskAllots ==
    ASSUME IInv, pc = "configure", NEW t, t = todo, t # << >>, NEW u, u = Tail(t), todo' = u,
           NEW m \in MaskCalls, m = Head(t), UNCHANGED <<m_config, assoc>>,
           mask' = [mask EXCEPT ![m.socket][m.class] = m.mask],
           NEW cos \in [GroupIds \X Sockets -> Classes], Allots(cos, t)
    PROVE  Allots(cos, todo)'
<1>1. /\ m = t[1] /\ 1 \in DOMAIN t
      /\ \A x \in DOMAIN u : x + 1 \in DOMAIN t /\ u[x] = t[x + 1]
      /\ \A x \in DOMAIN t : x = 1 \/ (x - 1 \in DOMAIN u /\ u[x - 1] = t[x])
  BY NextCall
<1>2. \A x \in DOMAIN t : t[x] = m \/ \E y \in DOMAIN u : u[y] = t[x]
  BY <1>1
<1>3. m \notin AssocCalls /\ m.socket \in Sockets
  BY CallKinds
<1>4. PICK j \in GroupIds : On(j, m.socket) /\ m.class = cos[<<j, m.socket>>] /\ m.mask = Goal(j)
  <2>1. Conforms(cos, m)
    BY <1>1 DEF Allots
  <2> QED BY <1>3, <2>1 DEF Conforms
<1>5. \A s \in Sockets, k \in Classes :
         mask'[s][k] = IF s = m.socket /\ k = m.class THEN m.mask ELSE mask[s][k]
  BY MaskWritten
<1>6. OwnClasses(cos)'
  BY SameGroups DEF Allots, OwnClasses
<1>7. ASSUME NEW i \in GroupIds, NEW s \in Sockets, On(i, s)
      PROVE  \/ mask'[s][cos[<<i, s>>]] = Goal(i)
             \/ \E x \in DOMAIN u : /\ u[x] \in MaskCalls
                                    /\ u[x].socket = s /\ u[x].class = cos[<<i, s>>]
  <2>1. cos[<<i, s>>] \in Classes
    OBVIOUS
  <2>2. CASE m.socket = s /\ m.class = cos[<<i, s>>]
    <3>1. i = j
      BY <1>4, <1>7, <2>2 DEF Allots, OwnClasses
    <3> QED BY <1>4, <1>5, <2>1, <2>2, <3>1
  <2>3. CASE ~(m.socket = s /\ m.class = cos[<<i, s>>])
    <3>1. mask'[s][cos[<<i, s>>]] = mask[s][cos[<<i, s>>]]
      BY <1>5, <2>1, <2>3
    <3>2. \/ mask[s][cos[<<i, s>>]] = Goal(i)
          \/ \E x \in DOMAIN t : /\ t[x] \in MaskCalls
                                 /\ t[x].socket = s /\ t[x].class = cos[<<i, s>>]
      BY <1>7 DEF Allots, MasksSet
    <3>3. CASE mask[s][cos[<<i, s>>]] = Goal(i)
      BY <3>1, <3>3
    <3>4. ASSUME NEW x \in DOMAIN t, t[x] \in MaskCalls, t[x].socket = s,
                 t[x].class = cos[<<i, s>>]
          PROVE  \E y \in DOMAIN u : /\ u[y] \in MaskCalls
                                     /\ u[y].socket = s /\ u[y].class = cos[<<i, s>>]
      <4>1. t[x] # m
        BY <2>3, <3>4
      <4>2. PICK y \in DOMAIN u : u[y] = t[x]
        BY <1>2, <4>1
      <4> QED BY <3>4, <4>2
    <3> QED BY <3>2, <3>3, <3>4
  <2> QED BY <2>2, <2>3
<1>8. MasksSet(cos, todo)'
  <2>1. \A i \in GroupIds, s \in Sockets : On(i, s) =>
           \/ mask'[s][cos[<<i, s>>]] = Goal(i)
           \/ \E x \in DOMAIN u : /\ u[x] \in MaskCalls
                                  /\ u[x].socket = s /\ u[x].class = cos[<<i, s>>]
    BY <1>7
  <2>2. UNCHANGED m_config /\ todo' = u
    OBVIOUS
  <2> QED BY ONLY <2>1, <2>2, MasksSetNext
<1>9. CoresSet(cos, u)
  <2> SUFFICES ASSUME NEW i \in GroupIds, NEW k \in m_config[i].cpus,
                      assoc[k] # cos[<<i, SocketOf(k)>>]
               PROVE  \E y \in DOMAIN u : u[y] \in AssocCalls /\ u[y].core = k
    BY DEF CoresSet
  <2>1. PICK x \in DOMAIN t : t[x] \in AssocCalls /\ t[x].core = k
    BY DEF Allots, CoresSet
  <2>2. PICK y \in DOMAIN u : u[y] = t[x]
    BY <1>2, <1>3, <2>1
  <2> QED BY <2>1, <2>2
<1>10. CoresSet(cos, todo)'
  BY <1>9, SameGroups, SameCalls DEF CoresSet
<1>11. \A x \in DOMAIN u : Conforms(cos, u[x])
  BY <1>1 DEF Allots
<1>12. \A x \in DOMAIN todo' : Conforms(cos, todo[x])'
  BY <1>11, SameGroups, SameCalls DEF Conforms, Goal
<1> QED BY <1>6, <1>8, <1>10, <1>12 DEF Allots

LEMMA CoreAllots ==
    ASSUME IInv, pc = "configure", NEW t, t = todo, t # << >>, NEW u, u = Tail(t), todo' = u,
           NEW m \in AssocCalls, m = Head(t), UNCHANGED <<m_config, mask>>,
           assoc' = [assoc EXCEPT ![m.core] = m.class],
           NEW cos \in [GroupIds \X Sockets -> Classes], Allots(cos, t)
    PROVE  Allots(cos, todo)'
<1>1. /\ m = t[1] /\ 1 \in DOMAIN t
      /\ \A x \in DOMAIN u : x + 1 \in DOMAIN t /\ u[x] = t[x + 1]
      /\ \A x \in DOMAIN t : x = 1 \/ (x - 1 \in DOMAIN u /\ u[x - 1] = t[x])
  BY NextCall
<1>2. \A x \in DOMAIN t : t[x] = m \/ \E y \in DOMAIN u : u[y] = t[x]
  BY <1>1
<1>3. m \notin MaskCalls /\ m.core \in Requested /\ Requested \subseteq Lcores
  BY CallKinds
<1>4. PICK j \in GroupIds : m.core \in m_config[j].cpus /\ m.class = cos[<<j, SocketOf(m.core)>>]
  <2>1. Conforms(cos, m)
    BY <1>1 DEF Allots
  <2> QED BY <1>3, <2>1 DEF Conforms
<1>5. \A k \in Lcores : assoc'[k] = IF k = m.core THEN m.class ELSE assoc[k]
  BY DEF IInv, CatTypeOK
<1>6. \A k \in Lcores \ Requested : assoc'[k] = assoc[k]
  BY <1>3, <1>5
<1>7. OwnClasses(cos)'
  BY <1>6, SameGroups DEF Allots, OwnClasses
<1>8. MasksSet(cos, u)
  <2> SUFFICES ASSUME NEW i \in GroupIds, NEW s \in Sockets, On(i, s),
                      mask[s][cos[<<i, s>>]] # Goal(i)
               PROVE  \E y \in DOMAIN u : /\ u[y] \in MaskCalls
                                          /\ u[y].socket = s /\ u[y].class = cos[<<i, s>>]
    BY DEF MasksSet
  <2>1. PICK x \in DOMAIN t : /\ t[x] \in MaskCalls
                              /\ t[x].socket = s /\ t[x].class = cos[<<i, s>>]
    BY DEF Allots, MasksSet
  <2>2. PICK y \in DOMAIN u : u[y] = t[x]
    BY <1>2, <1>3, <2>1
  <2> QED BY <2>1, <2>2
<1>9. MasksSet(cos, todo)'
  <2>1. \A i \in GroupIds, s \in Sockets : On(i, s) =>
           \/ mask'[s][cos[<<i, s>>]] = Goal(i)
           \/ \E x \in DOMAIN u : /\ u[x] \in MaskCalls
                                  /\ u[x].socket = s /\ u[x].class = cos[<<i, s>>]
    BY <1>8 DEF MasksSet
  <2>2. UNCHANGED m_config /\ todo' = u
    OBVIOUS
  <2> QED BY ONLY <2>1, <2>2, MasksSetNext
<1>10. ASSUME NEW i \in GroupIds, NEW k \in m_config[i].cpus
       PROVE  \/ assoc'[k] = cos[<<i, SocketOf(k)>>]
              \/ \E x \in DOMAIN u : u[x] \in AssocCalls /\ u[x].core = k
  <2>1. k \in Lcores /\ check_cpus_overlapping
    BY DEF IInv, Groups, Checked
  <2>2. CASE k = m.core
    <3>1. i = j
      BY <1>4, <2>1, <2>2 DEF check_cpus_overlapping
    <3> QED BY <1>4, <1>5, <2>1, <2>2, <3>1
  <2>3. CASE k # m.core
    <3>1. \/ assoc[k] = cos[<<i, SocketOf(k)>>]
          \/ \E x \in DOMAIN t : t[x] \in AssocCalls /\ t[x].core = k
      BY DEF Allots, CoresSet
    <3> QED BY <1>2, <1>5, <2>1, <2>3, <3>1
  <2> QED BY <2>2, <2>3
<1>11. CoresSet(cos, todo)'
  BY <1>10, SameGroups, SameCalls DEF CoresSet
<1>12. \A x \in DOMAIN u : Conforms(cos, u[x])
  BY <1>1 DEF Allots
<1>13. \A x \in DOMAIN todo' : Conforms(cos, todo[x])'
  BY <1>12, SameGroups, SameCalls DEF Conforms, Goal
<1> QED BY <1>7, <1>9, <1>11, <1>13 DEF Allots

LEMMA AllottedNext ==
    ASSUME IInv, [CatNext]_catvars  PROVE Allotted'
<1> USE DEF Goto
<1>1. ASSUME UNCHANGED <<m_config, assoc, mask>>, pc' = "idle" => todo' = << >>,
             pc' = "select" => pc = "select",
             pc' = "configure" \/ (pc' = "idle" /\ m_cap') =>
                /\ pc = "configure" \/ (pc = "idle" /\ m_cap)
                /\ UNCHANGED todo
      PROVE  Allotted'
  <2>1. pc' = "select" => \A k \in Requested' : assoc'[k] = 0
    BY <1>1, SameGroups DEF IInv, Allotted
  <2>2. ASSUME pc' = "configure" \/ (pc' = "idle" /\ m_cap')
        PROVE  \E cos \in [GroupIds' \X Sockets -> Classes] : Allots(cos, todo)'
    <3>1. PICK cos \in [GroupIds \X Sockets -> Classes] : Allots(cos, todo)
      BY <1>1, <2>2 DEF IInv, Allotted
    <3>2. PICK t : t = todo
      OBVIOUS
    <3>3. Allots(cos, todo)'
      BY <1>1, <2>2, <3>1, <3>2, SameAllots
    <3> QED BY <1>1, <3>1, <3>3, SameGroups
  <2> QED BY <1>1, <2>1, <2>2 DEF Allotted
<1>2. ASSUME pc' # "select", pc' # "configure", pc' # "idle"
      PROVE  Allotted'
  BY <1>2 DEF Allotted
<1>3. CASE UNCHANGED catvars
  <2>1. UNCHANGED <<m_config, assoc, mask, pc, todo, m_cap>>
    BY <1>3 DEF catvars
  <2>2. pc = "idle" => todo = << >>
    BY DEF IInv, Allotted
  <2> QED BY <1>1, <2>1, <2>2
<1>4. CASE cat_init \/ cat_exit_Again \/ parse_args \/ Library \/ Exit \/ signal_handler
  BY <1>2, <1>4 DEF cat_init, cat_exit_Again, parse_args, Library, Exit, signal_handler
<1>5. CASE Fail
  BY <1>5 DEF Fail, cat_fini, Allotted
<1>6. CASE cat_validate
  <2>1. CASE check_cpus /\ Goto("validate", "select")
    BY <1>6, <2>1, ChecksClean, SameGroups DEF cat_validate, config_of, Allotted
  <2>2. CASE Goto("validate", "fail")
    BY <1>2, <2>2
  <2> QED BY <1>6, <2>1, <2>2 DEF cat_validate
<1>7. CASE cat_set
  <2>1. CASE check_and_select_classes /\ todo' = configure_cat /\ Goto("select", "configure")
    <3>1. UNCHANGED <<m_config, assoc, mask>>
      BY <1>7 DEF cat_set, config_of
    <3>2. PICK t : t = configure_cat
      OBVIOUS
    <3>3. PICK cos \in [GroupIds \X Sockets -> Classes] : Allots(cos, t)
      BY <2>1, <3>2, ConfigureFacts
    <3>4. Allots(cos, todo)'
      BY <2>1, <3>1, <3>2, <3>3, SameAllots
    <3> QED BY <2>1, <3>1, <3>3, <3>4, SameGroups DEF Allotted
  <2>2. CASE Goto("select", "fail")
    BY <1>2, <2>2
  <2> QED BY <1>7, <2>1, <2>2 DEF cat_set
<1>8. CASE Configure
  <2>1. pc = "configure" /\ todo # << >> /\ UNCHANGED m_config /\ todo' = Tail(todo)
    BY <1>8 DEF Configure, config_of
  <2>2. CASE pc' = "configure" /\ Perform(Head(todo))
    <3>1. PICK t : t = todo
      OBVIOUS
    <3>2. PICK u : u = Tail(t)
      OBVIOUS
    <3>3. PICK m \in Calls : m = Head(t)
      BY <2>1, <3>1, NextCall
    <3>4. PICK cos \in [GroupIds \X Sockets -> Classes] : Allots(cos, t)
      BY <2>1, <3>1 DEF IInv, Allotted
    <3>5. ASSUME m \in MaskCalls, UNCHANGED assoc,
                 mask' = [mask EXCEPT ![m.socket][m.class] = m.mask]
          PROVE  Allots(cos, todo)'
      <4>1. t # << >> /\ todo' = u /\ UNCHANGED <<m_config, assoc>>
        BY <2>1, <3>1, <3>2, <3>5
      <4> QED BY <2>1, <3>1, <3>2, <3>3, <3>4, <3>5, <4>1, MaskAllots
    <3>6. ASSUME m \in AssocCalls, UNCHANGED mask,
                 assoc' = [assoc EXCEPT ![m.core] = m.class]
          PROVE  Allots(cos, todo)'
      <4>1. t # << >> /\ todo' = u /\ UNCHANGED <<m_config, mask>>
        BY <2>1, <3>1, <3>2, <3>6
      <4> QED BY <2>1, <3>1, <3>2, <3>3, <3>4, <3>6, <4>1, CoreAllots
    <3>7. Allots(cos, todo)'
      <4>1. Perform(m)
        BY <2>2, <3>1, <3>3
      <4> QED BY <3>5, <3>6, <4>1, PerformKinds
    <3> QED BY <2>1, <2>2, <3>4, <3>7, SameGroups DEF Allotted
  <2>3. CASE pc' = "fail"
    BY <1>2, <2>3
  <2> QED BY <1>8, <2>2, <2>3 DEF Configure
<1>9. CASE Install
  <2>1. /\ pc = "configure" /\ pc' \in {"idle", "fail"} /\ todo' = << >>
        /\ UNCHANGED <<m_config, assoc, mask, todo>>
    BY <1>9 DEF Install, config_of
  <2> QED BY <1>1, <2>1
<1> QED BY <1>3, <1>4, <1>5, <1>6, <1>7, <1>8, <1>9 DEF CatNext

-------------------------------------------------------------------------------
LEMMA Invariant == CatSpec => []IInv
<1>1. CatInit => IInv
  BY TypeInit, StagesInit, GroupsInit, CleanInit, UntouchedInit, PendingInit DEF IInv
<1>2. IInv /\ [CatNext]_catvars => IInv'
  BY TypeNext, StagesNext, GroupsNext, CleanNext, OthersNext, UntouchedNext, PendingNext,
     AllottedNext DEF IInv
<1> QED BY <1>1, <1>2, PTL DEF CatSpec

(* m_sockets is freed twice only by a second cat_init: the "undefined" of  *)
(* cat_fini is never reached by one call of cat_init, whichever of its     *)
(* calls fail, nor by the exit or the signal that follows.                 *)
THEOREM FreedCorrect == CatSpec => []FreedOncePerInit
<1>1. IInv => FreedOncePerInit
  BY DEF IInv, FirstLife, CatTypeOK, FreedOncePerInit
<1> QED BY <1>1, Invariant, PTL

(* A core another program has given a class keeps it, and the class keeps  *)
(* its mask, whatever the argument and whichever calls of the library fail *)
(* (but for the signal during a second cat_init OthersKept names).         *)
THEOREM OthersCorrect == CatSpec => []OthersKept
<1>1. IInv => OthersKept
  BY DEF IInv
<1> QED BY <1>1, Invariant, PTL

(* When cat_init has failed or the process has ended, no core keeps a      *)
(* class of the request unless the failure or the signal came between two  *)
(* calls on the cores.                                                     *)
THEOREM NothingLeftCorrect == CatSpec => []NothingLeftBehind
<1>1. IInv => NothingLeftBehind
  <2> SUFFICES ASSUME IInv, pc \in {"ended", "idle"}, pc = "idle" => ~m_cap, ~cut,
                      NEW k \in Lcores
               PROVE  assoc[k] \in {0, Others[k]}
    BY DEF NothingLeftBehind
  <2>1. CASE pc = "ended"
    BY <2>1 DEF IInv, Untouched
  <2>2. CASE pc = "idle"
    BY <2>2 DEF IInv, Untouched
  <2> QED BY <2>1, <2>2
<1> QED BY <1>1, Invariant, PTL

(* After a cat_init that succeeds every group the argument names has the   *)
(* mask it asks for in a class of its own on each of its packages: for     *)
(* every machine, and every set of arguments that are read as they mean.   *)
THEOREM GrantedCorrect ==
    ASSUME Understood
    PROVE  CatSpec => []Granted
<1>1. ASSUME IInv PROVE Granted
  <2> SUFFICES ASSUME pc = "idle", m_cap
               PROVE  Granted
    BY DEF Granted
  <2> DEFINE g == request.asks
             Cos(k) == <<SocketOf(k), assoc[k]>>
             members == UNION {g[i].cpus : i \in DOMAIN g}
  <2>1. m_config = parse_l3ca(request.text) /\ m_config # << >> /\ request \in Requests
    BY <1>1 DEF IInv, Groups, Parsed, CatTypeOK
  <2>2. /\ DOMAIN g = GroupIds
        /\ \A i \in GroupIds : /\ g[i].cpus = m_config[i].cpus
                               /\ g[i].code = m_config[i].code
                               /\ g[i].data = m_config[i].data
    BY <2>1 DEF Understood, GroupIds
  <2>3. PICK n \in Nat \ {0} : GroupIds = 1 .. n
    BY <2>1, ParseShape DEF GroupIds
  <2>4. Checked
    BY <1>1 DEF IInv, Groups
  <2>5. PICK cos : Allots(cos, << >>)
    BY <1>1 DEF IInv, Allotted
  <2>6. ASSUME NEW i \in GroupIds, NEW s \in Sockets, On(i, s)
        PROVE  /\ mask[s][cos[<<i, s>>]] = Goal(i) /\ cos[<<i, s>>] # 0
               /\ \A j \in GroupIds : On(j, s) /\ cos[<<i, s>>] = cos[<<j, s>>] => i = j
               /\ \A k \in Lcores \ Requested : SocketOf(k) = s => assoc[k] # cos[<<i, s>>]
    BY <2>5, <2>6 DEF Allots, MasksSet, OwnClasses
  <2>7. ASSUME NEW i \in GroupIds, NEW k \in m_config[i].cpus
        PROVE  /\ k \in Lcores /\ On(i, SocketOf(k)) /\ SocketOf(k) \in Sockets
               /\ assoc[k] = cos[<<i, SocketOf(k)>>]
    <3>1. k \in Lcores /\ SocketOf(k) \in Sockets
      BY <2>4, Machine DEF Checked
    <3>2. assoc[k] = cos[<<i, SocketOf(k)>>]
      BY <2>5 DEF Allots, CoresSet
    <3> QED BY <3>1, <3>2 DEF On
  <2>8. g # << >>
    BY <2>2, <2>3
  <2>9. ASSUME NEW i \in GroupIds, NEW k \in m_config[i].cpus
        PROVE  /\ assoc[k] # 0
               /\ mask[SocketOf(k)][assoc[k]] = [code |-> g[i].code, data |-> g[i].data]
    <3>1. On(i, SocketOf(k)) /\ SocketOf(k) \in Sockets /\ assoc[k] = cos[<<i, SocketOf(k)>>]
      BY <2>7
    <3>2. mask[SocketOf(k)][assoc[k]] = Goal(i) /\ assoc[k] # 0
      BY <2>6, <3>1
    <3>3. Goal(i) = [code |-> g[i].code, data |-> g[i].data]
      BY <2>2 DEF Goal
    <3> QED BY <3>2, <3>3
  <2>10. ASSUME NEW i \in GroupIds, NEW k \in m_config[i].cpus,
                NEW h \in Lcores \ m_config[i].cpus, Cos(h) = Cos(k)
         PROVE  FALSE
    <3>1. SocketOf(h) = SocketOf(k) /\ assoc[h] = cos[<<i, SocketOf(k)>>]
      BY <2>7, <2>10
    <3>2. CASE h \in Requested
      <4>1. PICK j \in GroupIds : h \in m_config[j].cpus
        BY <3>2 DEF Requested, GroupIds
      <4>2. On(j, SocketOf(h)) /\ assoc[h] = cos[<<j, SocketOf(h)>>]
        BY <2>7, <4>1
      <4>3. i = j
        BY <2>6, <2>7, <3>1, <4>2
      <4> QED BY <2>10, <4>1, <4>3
    <3>3. CASE h \notin Requested
      BY <2>6, <2>7, <3>1, <3>3
    <3> QED BY <3>2, <3>3
  <2>11. ASSUME NEW i \in GroupIds
         PROVE  \/ WaysOf(g[i]) \subseteq 0 .. NumWays - 1
                \/ \E j \in 1 .. i - 1 : WaysOf(g[j]) \intersect Contention # {}
    <3>1. \A j \in GroupIds : WaysOf(g[j]) = WaysOf(m_config[j])
      BY <2>2 DEF WaysOf
    <3>2. 1 .. i - 1 \subseteq GroupIds
      BY <2>3
    <3>3. \/ WaysOf(m_config[i]) \subseteq 0 .. NumWays - 1
          \/ \E j \in 1 .. i - 1 : WaysOf(m_config[j]) \intersect Contention # {}
      BY <2>4 DEF Checked, check_cbm_len_and_contention
    <3> HIDE DEF g
    <3> QED BY <3>1, <3>2, <3>3
  <2>12. \A k \in Lcores \ members : assoc[k] = Others[k] \/ cut
    <3>1. members = UNION {m_config[i].cpus : i \in GroupIds}
      BY <2>2
    <3>2. \A k \in Lcores \ members : k \notin Requested
      BY <3>1 DEF Requested, GroupIds
    <3> HIDE DEF members
    <3> QED BY <1>1, <3>2 DEF IInv, Untouched
  <2>13. \A i \in DOMAIN g : \A k \in g[i].cpus :
            /\ assoc[k] # 0
            /\ mask[SocketOf(k)][assoc[k]] = [code |-> g[i].code, data |-> g[i].data]
            /\ \A h \in Lcores \ g[i].cpus : Cos(h) # Cos(k)
            /\ \/ WaysOf(g[i]) \subseteq 0 .. NumWays - 1
               \/ \E j \in 1 .. i - 1 : WaysOf(g[j]) \intersect Contention # {}
    <3> SUFFICES ASSUME NEW i \in DOMAIN g, NEW k \in g[i].cpus
                 PROVE  /\ assoc[k] # 0
                        /\ mask[SocketOf(k)][assoc[k]] = [code |-> g[i].code, data |-> g[i].data]
                        /\ \A h \in Lcores \ g[i].cpus : Cos(h) # Cos(k)
                        /\ \/ WaysOf(g[i]) \subseteq 0 .. NumWays - 1
                           \/ \E j \in 1 .. i - 1 : WaysOf(g[j]) \intersect Contention # {}
      OBVIOUS
    <3>1. i \in GroupIds /\ k \in m_config[i].cpus /\ g[i].cpus = m_config[i].cpus
      BY <2>2
    <3> HIDE DEF g, Cos
    <3> QED BY <2>9, <2>10, <2>11, <3>1
  <2> QED BY <2>8, <2>12, <2>13 DEF Granted
<1> QED BY <1>1, Invariant, PTL
===============================================================================

---------------------------- MODULE CacheAllocation ----------------------------
(***************************************************************************)
(* The allocation of last-level cache to cores (src/runtime/cat.c, with a  *)
(* libpqos above 1.03): what the argument of --l3ca means, the checks, the *)
(* choice of a class of service for each group on each socket, the calls   *)
(* of the library, any of which may fail, and the ways out: a failing      *)
(* cat_init, a second cat_init, exit, and a signal between any two steps.  *)
(*                                                                         *)
(* An argument is a sequence of tokens without its blanks, numbers and the *)
(* five marks below; a mask is the number, its ways the set of its bits.   *)
(***************************************************************************)
EXTENDS Enumeration, Sequences, SequencesExt, FiniteSetsExt

CONSTANTS
    Lcores,         \* the cores of the machine
    SocketOf(_),    \* and their packages
    MaxCores,       \* PQOS_MAX_CORES
    Classes,        \* the classes of service, 0 the default one: num_classes
    Others,         \* what other programs have associated: core to class
    NumWays, Contention,    \* ways of the cache, those shared with devices
    CdpOn,          \* the system separates code and data
    Requests,       \* [text, asks]: an argument and the groups it names
    MaxInits        \* bound: calls of cat_init

ASSUME CatAssumption == /\ MaxCores \in Nat \ {0} /\ Lcores \subseteq 0 .. MaxCores - 1
                        /\ \A k \in Lcores : SocketOf(k) \in Nat
                        /\ Classes \subseteq Nat /\ IsFiniteSet(Classes) /\ 0 \in Classes
                        /\ Others \in [Lcores -> Classes]
                        /\ NumWays \in Nat /\ MaxInits \in Nat

Dash == -1      Comma == -2     Open == -3      Close == -4     At == -5
End == -6

VARIABLES
    assoc,      \* core to class, in the hardware
    mask,       \* socket and class to the ways it may use
    m_config, m_cap, m_sockets,     \* m_cap stands for m_cpu too
    pc,         \* where the process is in cat_init
    todo,       \* what configure_cat has still to call
    request,    \* the argument of this cat_init
    inits,      \* calls so far
    handlers,   \* signal_handler and atexit are in place
    process,    \* "runs", or "undefined" once a pointer was freed twice
    cut         \* history: a call or the process failed where cores keep a class

catvars == <<assoc, mask, m_config, m_cap, m_sockets, pc, todo, request, inits, handlers,
             process, cut>>
config_of == <<m_config, m_cap, m_sockets>>
caller == <<request, inits, handlers>>

Sockets == {SocketOf(k) : k \in Lcores}

-------------------------------------------------------------------------------
Tok(t, p) == IF p \in DOMAIN t THEN t[p] ELSE End
First(t, p, marks) == Min({q \in p .. Len(t) : t[q] \in marks} \union {Len(t) + 1})
Span(a, b) == a .. b \union b .. a
CoreNumber(x) == x \in 0 .. MaxCores - 1
NoSet == [cpus |-> {}, end |-> 0]

(* A number or a range.                                                    *)
ParseSingle(t, p) ==
    LET range == Tok(t, p + 1) = Dash
        end == IF range THEN p + 3 ELSE p + 1
    IN IF /\ CoreNumber(Tok(t, p)) /\ (range => CoreNumber(Tok(t, p + 2)))
          /\ Tok(t, end) \in {Comma, End}
       THEN [cpus |-> Span(t[p], t[end - 1]), end |-> end]
       ELSE NoSet

(* A group: numbers with a comma or a dash between them, no two dashes     *)
(* running.                                                                *)
ParseGroup(t, p) ==
    LET q == First(t, p, {Close})
        numbers == {x \in p + 1 .. q - 1 : (x - p) % 2 = 1}
        ranges == {x \in numbers : Tok(t, x + 1) = Dash}
    IN IF /\ q <= Len(t) /\ (q - p) % 2 = 0
          /\ \A x \in numbers : CoreNumber(t[x]) /\ t[x + 1] \in {Comma, Dash, Close}
          /\ \A x \in ranges : x + 2 \notin ranges
       THEN [cpus |-> {t[x] : x \in numbers} \union (UNION {Span(t[x], t[x + 2]) : x \in ranges}),
             end |-> q + 1]
       ELSE NoSet

parse_set(t, p) == IF Tok(t, p) = Open THEN ParseGroup(t, p) ELSE ParseSingle(t, p)

Ways(m) == {w \in 0 .. 7 : (m \div 2^w) % 2 = 1}
is_contiguous(m) == LET w == Ways(m) IN w # {} /\ Max(w) - Min(w) + 1 = Cardinality(w)

(* What stands between a mask and its "@" is not looked at.                *)
ParseEntry(t, p) ==
    LET cdp == Tok(t, p) = Open
        at == First(t, IF cdp THEN First(t, p, {Close}) + 1 ELSE p, {At, Comma})
        set == parse_set(t, at + 1)
        data == IF cdp THEN Tok(t, p + 3) ELSE Tok(t, p)
        code == IF cdp THEN Tok(t, p + 1) ELSE data
    IN [ ok |-> /\ Tok(t, at) = At /\ set.cpus # {} /\ Tok(t, set.end) \in {Comma, End}
                /\ data > 0 /\ is_contiguous(data) /\ code > 0 /\ is_contiguous(code)
                /\ cdp => Tok(t, p + 2) = Comma,
         end |-> set.end,
         group |-> [cpus |-> set.cpus, cdp |-> cdp, code |-> code, data |-> data] ]

(* No groups when the text is malformed: cat_init then clears those that   *)
(* were read.  What follows PQOS_MAX_CORES groups is not read.             *)
parse_l3ca(t) ==
    LET start[n \in 1 .. MaxCores] == IF n = 1 THEN 1 ELSE ParseEntry(t, start[n - 1]).end + 1
        Entry(n) == ParseEntry(t, start[n])
        last == Min({n \in 1 .. MaxCores : Tok(t, Entry(n).end) = End} \union {MaxCores})
    IN IF \A n \in 1 .. last : Entry(n).ok THEN [n \in 1 .. last |-> Entry(n).group] ELSE << >>

(* An argument that is accepted is read as the groups it names.            *)
Understood ==
    \A r \in Requests :
        LET g == parse_l3ca(r.text)
        IN g # << >> =>
              /\ DOMAIN g = DOMAIN r.asks
              /\ \A i \in DOMAIN g : /\ g[i].cpus = r.asks[i].cpus
                                     /\ g[i].code = r.asks[i].code /\ g[i].data = r.asks[i].data

-------------------------------------------------------------------------------
NoMask == [code |-> 0, data |-> 0]

CatInit ==
    /\ assoc = Others /\ mask = [s \in Sockets |-> [k \in Classes |-> NoMask]]
    /\ m_config = << >> /\ m_cap = FALSE /\ m_sockets = "null"
    /\ pc = "idle" /\ todo = << >> /\ request \in Requests /\ inits = 0
    /\ handlers = FALSE /\ process = "runs" /\ cut = FALSE

(* Mutant: only the cores of the first group.                              *)
Requested_FirstGroup == (IF m_config = << >> THEN {} ELSE m_config[1].cpus) \intersect Lcores

Requested == (UNION {m_config[i].cpus : i \in DOMAIN m_config}) \intersect Lcores

(* The loop of cat_exit: each call may fail.                               *)
Revert ==
    \E done \in SUBSET Requested :
        /\ assoc' = [k \in Lcores |-> IF k \in done THEN 0 ELSE assoc[k]]
        /\ cut' = (cut \/ done # Requested)

(* Mutant: m_cap is left set.                                              *)
cat_fini_KeepsCap ==
    /\ m_config' = << >> /\ todo' = << >> /\ UNCHANGED m_cap
    /\ m_sockets' = IF m_sockets = "null" THEN "null" ELSE "freed"
    /\ process' = IF m_sockets = "freed" THEN "undefined" ELSE process

(* m_sockets is freed and keeps its value.                                 *)
cat_fini ==
    /\ m_config' = << >> /\ m_cap' = FALSE /\ todo' = << >>
    /\ m_sockets' = IF m_sockets = "null" THEN "null" ELSE "freed"
    /\ process' = IF m_sockets = "freed" THEN "undefined" ELSE process

Goto(from, to) == process = "runs" /\ pc = from /\ pc' = to

(* A second cat_init reverts the first.                                    *)
cat_init ==
    /\ inits < MaxInits
    /\ Goto("idle", IF m_cap THEN "revert" ELSE "parse")
    /\ request' \in Requests /\ inits' = inits + 1
    /\ UNCHANGED <<assoc, mask, config_of, todo, handlers, process, cut>>

cat_exit_Again ==
    \/ Goto("revert", "fini") /\ Revert /\ UNCHANGED <<mask, config_of, todo, caller, process>>
    \/ Goto("fini", "parse") /\ cat_fini /\ UNCHANGED <<assoc, mask, caller, cut>>

Fail == Goto("fail", "idle") /\ cat_fini /\ UNCHANGED <<assoc, mask, caller, cut>>

parse_args ==
    /\ m_config' = parse_l3ca(request.text)
    /\ Goto("parse", IF m_config' = << >> THEN "fail" ELSE "library")
    /\ UNCHANGED <<assoc, mask, m_cap, m_sockets, todo, caller, process, cut>>

(* pqos_init to pqos_cpu_get_sockets.                                      *)
Library ==
    /\ \/ Goto("library", "fail") /\ UNCHANGED <<m_cap, m_sockets>>
       \/ Goto("library", "fail") /\ m_cap' = TRUE /\ UNCHANGED m_sockets
       \/ Goto("library", "fail") /\ m_cap' = TRUE /\ m_sockets' = "null"
       \/ Goto("library", "validate") /\ m_cap' = TRUE /\ m_sockets' = "live"
    /\ UNCHANGED <<assoc, mask, m_config, todo, caller, process, cut>>

GroupIds == DOMAIN m_config

(* Mutant: a core's class is not looked at.                                *)
check_cpus_AnyClass == \A i \in GroupIds : m_config[i].cpus \subseteq Lcores

check_cpus == \A i \in GroupIds : \A k \in m_config[i].cpus : k \in Lcores /\ assoc[k] = 0

check_cdp == \A i \in GroupIds : m_config[i].cdp => CdpOn

WaysOf(g) == Ways(g.code) \union Ways(g.data)

(* The warning of ways shared with devices ends the loop.                  *)
check_cbm_len_and_contention ==
    \A i \in GroupIds :
        \/ WaysOf(m_config[i]) \subseteq 0 .. NumWays - 1
        \/ \E j \in 1 .. i - 1 : WaysOf(m_config[j]) \intersect Contention # {}

check_cpus_overlapping ==
    \A i, j \in GroupIds : i # j => m_config[i].cpus \intersect m_config[j].cpus = {}

cat_validate ==
    /\ \/ /\ check_cpus /\ check_cdp /\ check_cbm_len_and_contention /\ check_cpus_overlapping
          /\ Goto("validate", "select")
       \/ Goto("validate", "fail")     \* a check or a read failed
    /\ UNCHANGED <<assoc, mask, config_of, todo, caller, process, cut>>

-------------------------------------------------------------------------------
Free(s) == InOrderOf(Classes \ {assoc[k] : k \in {k \in Lcores : SocketOf(k) = s}})
On(i, s) == \E k \in m_config[i].cpus \intersect Lcores : SocketOf(k) = s
Rank(i, s) == Cardinality({h \in 1 .. i : On(h, s)})

(* Mutant: every group takes the first class that is free.                 *)
cos_id_map_First(i, s) == IF On(i, s) THEN Free(s)[1] ELSE 0

(* The groups take the free classes of a socket in turn.                   *)
cos_id_map(i, s) == IF On(i, s) THEN Free(s)[Rank(i, s)] ELSE 0

check_and_select_classes ==
    \A i \in GroupIds, s \in Sockets : On(i, s) => Rank(i, s) <= Len(Free(s))

ForGroups(Calls(_)) == FlattenSeq([i \in GroupIds |-> Calls(i)])

(* First the masks of all classes, then the cores; class 0 is skipped.     *)
configure_cat ==
    ForGroups(LAMBDA i :
        LET used == InOrderOf({s \in Sockets : cos_id_map(i, s) # 0})
        IN [x \in DOMAIN used |->
               [call |-> "pqos_l3ca_set", socket |-> used[x], class |-> cos_id_map(i, used[x]),
                mask |-> [code |-> m_config[i].code, data |-> m_config[i].data]]])
    \o ForGroups(LAMBDA i :
        LET cores == InOrderOf(m_config[i].cpus \intersect Lcores)
        IN [x \in DOMAIN cores |->
               [call |-> "pqos_alloc_assoc_set", core |-> cores[x],
                class |-> cos_id_map(i, SocketOf(cores[x]))]])

cat_set ==
    /\ \/ /\ check_and_select_classes
          /\ todo' = configure_cat /\ Goto("select", "configure")
       \/ Goto("select", "fail") /\ UNCHANGED todo
    /\ UNCHANGED <<assoc, mask, config_of, caller, process, cut>>

Perform(m) ==
    IF m.call = "pqos_l3ca_set"
    THEN mask' = [mask EXCEPT ![m.socket][m.class] = m.mask] /\ UNCHANGED assoc
    ELSE assoc' = [assoc EXCEPT ![m.core] = m.class] /\ UNCHANGED mask

Configure ==
    /\ todo # << >>
    /\ \/ Goto("configure", "configure") /\ Perform(Head(todo)) /\ UNCHANGED cut
       \/ /\ Goto("configure", "fail") /\ UNCHANGED <<assoc, mask>>
          /\ cut' = (cut \/ Head(todo).call = "pqos_alloc_assoc_set")
    /\ todo' = Tail(todo)
    /\ UNCHANGED <<config_of, caller, process>>

(* The signal handlers, then atexit, which may fail.                       *)
Install ==
    /\ todo = << >> /\ handlers' = TRUE
    /\ \/ Goto("configure", "idle") /\ UNCHANGED cut
       \/ Goto("configure", "fail") /\ cut' = TRUE
    /\ UNCHANGED <<assoc, mask, config_of, todo, request, inits, process>>

(* cat_exit, at exit or in signal_handler: nothing when the library is not *)
(* initialised.                                                            *)
cat_exit ==
    IF m_cap THEN Revert /\ cat_fini
    ELSE UNCHANGED <<assoc, config_of, todo, process, cut>>

Exit ==
    /\ process = "runs" /\ pc = "idle"
    /\ cat_exit /\ pc' = "ended"
    /\ UNCHANGED <<mask, caller>>

(* Without the handler a signal ends the process where it is.              *)
signal_handler ==
    /\ process = "runs" /\ pc # "ended" /\ pc' = "ended"
    /\ IF handlers THEN cat_exit
       ELSE /\ cut' = (cut \/ pc = "configure")
            /\ UNCHANGED <<assoc, config_of, todo, process>>
    /\ UNCHANGED <<mask, caller>>

CatNext ==
    \/ cat_init \/ cat_exit_Again \/ Fail \/ parse_args \/ Library \/ cat_validate \/ cat_set
    \/ Configure \/ Install \/ Exit \/ signal_handler

CatSpec == CatInit /\ [][CatNext]_catvars
-------------------------------------------------------------------------------
(* Once cat_init has failed, or the process ended, no core keeps a class   *)
(* of the request, unless a call failed while cores were being associated  *)
(* or reverted or a signal came before its handler was there: the error    *)
(* path of cat_init does not revert.                                       *)
NothingLeftBehind ==
    pc \in {"ended", "idle"} /\ (pc = "idle" => ~m_cap) /\ ~cut =>
        \A k \in Lcores : assoc[k] \in {0, Others[k]}

(* After a cat_init that succeeds each group the argument names has, on    *)
(* each of its sockets, a class of its own with the mask it asks for; a    *)
(* mask beyond the cache's ways passes only behind one that is warned of.  *)
Granted ==
    pc = "idle" /\ m_cap =>
        LET g == request.asks
            Cos(k) == <<SocketOf(k), assoc[k]>>
            members == UNION {g[i].cpus : i \in DOMAIN g}
        IN /\ g # << >>
           /\ \A i \in DOMAIN g : \A k \in g[i].cpus :
                 /\ assoc[k] # 0
                 /\ mask[SocketOf(k)][assoc[k]] = [code |-> g[i].code, data |-> g[i].data]
                 /\ \A h \in Lcores \ g[i].cpus : Cos(h) # Cos(k)
                 /\ \/ WaysOf(g[i]) \subseteq 0 .. NumWays - 1
                    \/ \E j \in 1 .. i - 1 : WaysOf(g[j]) \intersect Contention # {}
           /\ \A k \in Lcores \ members : assoc[k] = Others[k] \/ cut

(* A core another program has given a class keeps it and the class its     *)
(* mask.  One way to lose it is left: a signal during a second cat_init    *)
(* whose argument names the core, before check_cpus has refused it.        *)
OthersKept ==
    \A k \in Lcores :
        Others[k] # 0 =>
            /\ mask[SocketOf(k)][Others[k]] = NoMask
            /\ assoc[k] = Others[k] \/ (pc = "ended" /\ handlers /\ inits > 1)

(* m_sockets is freed twice only by a second cat_init, never by a first    *)
(* one that fails at any call, nor by the exit or the signal after it.     *)
FreedOncePerInit == process = "undefined" => inits > 1
===============================================================================

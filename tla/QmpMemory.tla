----------------------------- MODULE QmpMemory -----------------------------
(***************************************************************************)
(* Reading guest memory: qmp.rs, memory.rs and the parts of main_loop that *)
(* use them.                                                               *)
(*                                                                         *)
(* The main thread reads the memory of the xemu process.  Where a guest    *)
(* address lies in it is asked of xemu over a QMP connection, two requests *)
(* with a read timeout of 500 ms each, and remembered.  Requests carry no  *)
(* id: the answer of a request that timed out stays in the stream and is   *)
(* taken for that of the next one.  An error forgets everything and tries  *)
(* a new connection, but goes on with the old one if there is none; and    *)
(* there is none as long as the old one stands, since it is dropped only   *)
(* afterwards and xemu (-qmp tcp:...,server,nowait) serves one at a time.  *)
(*                                                                         *)
(* A host address is named by the guest address it is right for.           *)
(***************************************************************************)
EXTENDS Naturals, Sequences

CONSTANTS
  Low,          (* guest addresses that are translated one by one          *)
  High,         (* guest addresses above Base, translated by their offset  *)
  GameTime,     (* the address the loop probes: a pointer read in Halo + 12 *)
  Base,         (* 0x80000000                                              *)
  Segment,      (* what populate_cache copies: start |-> addresses in it   *)
  None, Elsewhere,
  MaxFaults     (* bound: timeouts, failed reads, broken links, refusals    *)

Addresses == Low \cup High \cup {Base}
Hosts == Addresses \cup {Elsewhere}
Starts == DOMAIN Segment

ASSUME QmpConstants ==
  /\ GameTime \in Low \cup High /\ Base \notin Low \cup High /\ Low \cap High = {}
  /\ \A s \in Starts : {s} \cup Segment[s] \subseteq Low \cup High
  /\ None \notin Hosts /\ Elsewhere \notin Addresses
  /\ MaxFaults \in Nat

VARIABLES
  up,               (* the QMP connection stands                           *)
  unread,           (* answers on it to requests that were given up        *)
  known_addresses,  (* guest address |-> host address                      *)
  ram_base_host,
  cache,            (* guest address |-> host address it was copied from   *)
  stage,            (* main: probe, probed, populate, sample, error        *)
  todo,             (* main: reads and copies left in this stage           *)
  task,             (* main: the one in hand                               *)
  asking,           (* main: the request it waits for: none, gpa or hva    *)
  want,             (* main: the guest address being translated            *)
  physical,         (* main: what gva2gpa said, by its guest address       *)
  faults,
  missed            (* history: requests given up on this connection       *)

connection == <<up, unread, faults, missed>>
memory == <<known_addresses, ram_base_host, cache>>
request == <<asking, want, physical>>
main == <<stage, todo, task, request>>
vars == <<connection, memory, main>>

Nothing == [x \in Addresses |-> None]
NoTask == [op |-> "none", guest |-> None]
Read(x) == [op |-> "read", guest |-> x]
Copy(s) == [op |-> "copy", guest |-> s]
Reads == {Read(x) : x \in Low \cup High}
Copies == {Copy(s) : s \in Starts}

(* An offset from a host address that is right for x. *)
Offset(host, x, y) == IF host = x THEN y ELSE Elsewhere

Idle == task' = NoTask /\ asking' = "none" /\ want' = None /\ physical' = None

Begin(s, tasks) == stage' = s /\ todo' = tasks /\ Idle

ProbeTasks == {Read(GameTime)}

(* HaloReader::new and game_time_host_address: what a new reader has        *)
(* translated when it is ready, the base for the globals that lie above it. *)
GlobalsKnown(globals) ==
  [x \in Addresses |->
     IF x \in globals \cup {GameTime} \/ (x = Base /\ globals \cap High # {}) THEN x ELSE None]
GlobalsBase(globals) == IF globals \cap High # {} THEN Base ELSE None

Init ==
  /\ up = TRUE /\ unread = <<>> /\ faults = 0 /\ missed = 0
  /\ \E globals \in SUBSET (Low \cup High) :
       known_addresses = GlobalsKnown(globals) /\ ram_base_host = GlobalsBase(globals)
  /\ cache = Nothing
  /\ stage = "probe" /\ todo = ProbeTasks
  /\ task = NoTask /\ asking = "none" /\ want = None /\ physical = None

-----------------------------------------------------------------------------
Charge(isFault) ==
  IF isFault THEN faults < MaxFaults /\ faults' = faults + 1 ELSE UNCHANGED faults

(* Any error in tick_once leaves it at once. *)
Fail == stage' = "error" /\ todo' = {} /\ Idle

(* read_guest_bytes, add_to_cache: take one access in hand. *)
TakeTask ==
  /\ task = NoTask /\ \E t \in todo : task' = t /\ todo' = todo \ {t}
  /\ UNCHANGED <<connection, memory, stage, request>>

Cached == task.op = "read" /\ cache[task.guest] # None

(* The host address is at hand: from a copied segment, from an earlier      *)
(* translation, or at an offset from the base of the RAM.                   *)
Host(x) ==
  IF Cached THEN cache[x]
  ELSE IF known_addresses[x] # None THEN known_addresses[x]
  ELSE IF x \in High /\ task.op = "read" /\ ram_base_host # None
    THEN Offset(ram_base_host, Base, x)
  ELSE cache[x]

(* add_to_cache, at the end of a copy. *)
Copied(s, host) ==
  [x \in Addresses |-> IF x \in Segment[s] /\ cache[x] = None THEN Offset(host, s, x) ELSE cache[x]]

(* The access succeeds; a cached read does not touch the process, any other *)
(* may fail (ReadProcessMemory).                                            *)
Access ==
  /\ task # NoTask /\ asking = "none" /\ Host(task.guest) # None
  /\ known_addresses' = [known_addresses EXCEPT ![task.guest] = Host(task.guest)]
  /\ \/ /\ cache' = IF task.op = "copy" THEN Copied(task.guest, Host(task.guest)) ELSE cache
        /\ Charge(FALSE) /\ Idle /\ UNCHANGED <<stage, todo>>
     \/ ~Cached /\ Charge(TRUE) /\ Fail /\ UNCHANGED cache
  /\ UNCHANGED <<up, unread, missed, ram_base_host>>

(* get_host_address: of the address itself, or of the base for a high read. *)
NeedsTranslation ==
  /\ task # NoTask /\ asking = "none" /\ Host(task.guest) = None
  /\ want' = IF task.guest \in High /\ task.op = "read" THEN Base ELSE task.guest
  /\ asking' = "gpa" /\ physical' = None
  /\ UNCHANGED <<connection, memory, stage, todo, task>>

(* What xemu will have answered in the end: the translation, or that there  *)
(* is none.                                                                 *)
Answers(kind, x) == {[kind |-> kind, of |-> x], [kind |-> "unmapped", of |-> x]}
Torn == [kind |-> "torn", of |-> None]
Asked == IF asking = "gpa" THEN want ELSE physical

(* cmd: a line arrives in time, the oldest.  gva2gpa and gpa2hva find the   *)
(* kind of answer they ask for in it, or fail.                              *)
Answered ==
  /\ asking # "none" /\ up
  /\ \E a \in Answers(asking, Asked) :
       LET lines == Append(unread, a)
           line == Head(lines)
       IN /\ unread' = Tail(lines) /\ Charge(a.kind = "unmapped")
          /\ \/ /\ line.kind = asking /\ asking = "gpa"
                /\ asking' = "hva" /\ physical' = line.of
                /\ UNCHANGED <<memory, want, stage, todo, task>>
             \/ /\ line.kind = asking /\ asking = "hva"
                /\ known_addresses' = [known_addresses EXCEPT ![want] = line.of]
                /\ ram_base_host' = IF want = Base THEN line.of ELSE ram_base_host
                /\ asking' = "none" /\ want' = None /\ physical' = None
                /\ UNCHANGED <<cache, stage, todo, task>>
             \/ line.kind # asking /\ Fail /\ UNCHANGED memory
  /\ UNCHANGED <<up, missed>>

(* No line in time: the answer comes later; if a line was half read, its    *)
(* rest does not parse.                                                     *)
TimesOut ==
  /\ asking # "none" /\ up
  /\ \E a \in Answers(asking, Asked) :
       LET lines == Append(unread, a)
       IN unread' \in {lines, [lines EXCEPT ![1] = Torn]}
  /\ Charge(TRUE) /\ missed' = missed + 1
  /\ Fail /\ UNCHANGED <<memory, up>>

Disconnected == asking # "none" /\ ~up /\ Fail /\ UNCHANGED <<connection, memory>>

(* xemu closes the connection, and listens again. *)
LinkBreaks ==
  /\ up /\ up' = FALSE /\ unread' = <<>> /\ Charge(TRUE)
  /\ UNCHANGED <<memory, main, missed>>

-----------------------------------------------------------------------------
(* tick_once *)

Probed ==
  /\ stage = "probe" /\ todo = {} /\ task = NoTask
  /\ stage' = "probed" /\ UNCHANGED <<connection, memory, todo, task, request>>

SameTick == stage = "probed" /\ Begin("probe", ProbeTasks) /\ UNCHANGED <<connection, memory>>

(* populate_cache: some pointers are read, segments copied.  Their order    *)
(* does not matter to what is said here and is left open.                   *)
NewTick ==
  /\ stage = "probed"
  /\ \E pointers \in SUBSET Reads : Begin("populate", pointers \cup Copies)
  /\ UNCHANGED <<connection, memory>>

(* get_game_info: reads all over the guest memory. *)
StartSample ==
  /\ stage = "populate" /\ todo = {} /\ task = NoTask
  /\ \E reads \in SUBSET Reads : Begin("sample", reads)
  /\ UNCHANGED <<connection, memory>>

(* invalidate_memory_cache, and the tick goes out. *)
EndSample ==
  /\ stage = "sample" /\ todo = {} /\ task = NoTask
  /\ cache' = Nothing /\ Begin("probe", ProbeTasks)
  /\ UNCHANGED <<connection, known_addresses, ram_base_host>>

(* Mutants: an error leaves the translations, or the copies. *)
ClearCopies == UNCHANGED <<known_addresses, ram_base_host>> /\ cache' = Nothing
ClearAddresses == known_addresses' = Nothing /\ ram_base_host' = None /\ UNCHANGED cache

(* clear_translations *)
ClearTranslations == known_addresses' = Nothing /\ ram_base_host' = None /\ cache' = Nothing

(* Mutant: the new connection is made and not put in place of the old one.  *)
ForgetReplacement == UNCHANGED connection

(* reconnect: greeting and capabilities, on a stream of its own, which then *)
(* takes the place of the old one.                                          *)
Connect == up' = TRUE /\ unread' = <<>> /\ missed' = 0 /\ UNCHANGED faults

(* clear_translations, then a new connection replaces the old one, or the   *)
(* old one stays.  xemu greets nobody while the old one stands.             *)
Replace == ~up /\ ClearTranslations /\ Connect /\ Begin("probe", ProbeTasks)
KeepOld == ClearTranslations /\ UNCHANGED connection /\ Begin("probe", ProbeTasks)

BetweenRounds == stage = "probe" /\ todo = ProbeTasks

(* The error path of main_loop. *)
Reconnect == stage = "error" /\ Replace
ReconnectFails == stage = "error" /\ KeepOld

(* The ReconnectQmp command. *)
ReconnectQmp == BetweenRounds /\ (Replace \/ KeepOld)

(* ReconnectXemu: a new reader, on a connection made while the old reader   *)
(* still has its own.  If that fails nothing changes.                       *)
ReconnectXemu ==
  /\ BetweenRounds /\ ~up
  /\ \E globals \in SUBSET (Low \cup High) :
       known_addresses' = GlobalsKnown(globals) /\ ram_base_host' = GlobalsBase(globals)
  /\ cache' = Nothing
  /\ Connect /\ Begin("probe", ProbeTasks)

TickStep ==
  \/ TakeTask \/ Access \/ NeedsTranslation \/ Answered \/ Disconnected
  \/ Probed \/ SameTick \/ NewTick \/ StartSample \/ EndSample

Next ==
  \/ TickStep \/ TimesOut \/ LinkBreaks
  \/ Reconnect \/ ReconnectFails \/ ReconnectQmp \/ ReconnectXemu

Spec == Init /\ [][Next]_vars

-----------------------------------------------------------------------------
(* Properties *)

Lines == [kind : {"gpa", "hva", "unmapped", "torn"}, of : Addresses \cup {None, Elsewhere}]

(* Types, and the state of a request in hand. *)
TypeOK ==
  /\ up \in BOOLEAN /\ unread \in Seq(Lines)
  /\ faults \in 0..MaxFaults /\ missed \in 0..MaxFaults
  /\ known_addresses \in [Addresses -> Hosts \cup {None}]
  /\ cache \in [Addresses -> Hosts \cup {None}]
  /\ ram_base_host \in Hosts \cup {None}
  /\ stage \in {"probe", "probed", "populate", "sample", "error"}
  /\ todo \subseteq Reads \cup Copies
  /\ task \in Reads \cup Copies \cup {NoTask}
  /\ asking \in {"none", "gpa", "hva"}
  /\ asking # "none" => want \in Addresses /\ task # NoTask
  /\ asking = "hva" => physical \in Addresses

Right(f) == \A x \in Addresses : f[x] \in {x, None}

(* Out of step by one answer, every translation fails, because the two      *)
(* requests it takes have answers of different form: an address is          *)
(* remembered wrongly only if two requests were given up on a connection    *)
(* that could not be replaced.  (cmd, gva2gpa, gpa2hva; clear_translations  *)
(* and reconnect after an error.)                                           *)
RightUntilTwoTimeouts ==
  missed < 2 => Right(known_addresses) /\ Right(cache) /\ ram_base_host \in {Base, None}

(* The probe of the loop never finds the game time in a copied segment,     *)
(* where it would stand still for ever: no error, at whatever read or copy, *)
(* leaves one behind.  (populate_cache, invalidate_memory_cache.)           *)
ProbeReadsLive == stage = "probe" => cache = Nothing

(* The loop never stops between two operations, and when the connection is  *)
(* gone, one that is asked for again and again comes about in the end.  It  *)
(* is asked for only now and then (an error must come first), which is why  *)
(* this is strong fairness.                                                 *)
FairSpec ==
  /\ Spec /\ WF_vars(TickStep)
  /\ WF_vars(Reconnect \/ ReconnectFails) /\ SF_vars(Reconnect)

(* A connection stands from which an answer was late. *)
OutOfStep == up /\ missed > 0

(* When the trouble is over (faults are bounded) the loop gets back to      *)
(* probing the game time, through errors, broken connections and refused    *)
(* replacements, unless it is left with a connection that stands and is out *)
(* of step: one late answer is enough for that, since the old connection    *)
(* then stands in the way of a new one.  (reconnect and the error path of   *)
(* main_loop.)                                                              *)
ProbingGoesOn == []<>(stage = "probed") \/ <>[]OutOfStep
=============================================================================

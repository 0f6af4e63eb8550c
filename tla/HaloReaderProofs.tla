--------------------------- MODULE HaloReaderProofs ---------------------------
(***************************************************************************)
(* Proofs about what the main loop reads of Halo.                          *)
(*                                                                         *)
(* First QmpMemory, wherever in the guest's memory the addresses lie, for  *)
(* any number of faults: one late answer gives no wrong address, and the    *)
(* game time is never read from a copy.  Then GameStats, for any number of  *)
(* games, players, samples and faults and any choice of the players listed: *)
(* what is counted for a slot that was not compared with another is what    *)
(* happened in it, and a tick is about one game.                            *)
(***************************************************************************)
EXTENDS QmpMemory, GameStats, SequenceTheorems, TLAPS

Kinds == {"gpa", "hva", "unmapped"}
GoodLines == [kind : Kinds, of : Addresses] \cup {Torn}
Tasks == Reads \cup Copies
MaybeHosts == Hosts \cup {None}

(* What is remembered, and what is in hand. *)
MemoryType ==
  /\ known_addresses \in [Addresses -> MaybeHosts] /\ cache \in [Addresses -> MaybeHosts]
  /\ ram_base_host \in MaybeHosts
MainType ==
  /\ todo \subseteq Tasks /\ task \in Tasks \cup {NoTask}
  /\ asking \in {"none", "gpa", "hva"}
  /\ asking # "none" => want \in Addresses
  /\ asking = "hva" => physical \in Addresses
TypeInv ==
  /\ MemoryType /\ MainType
  /\ up \in BOOLEAN /\ unread \in Seq(GoodLines) /\ missed \in Nat

(* A connection is out of step by the requests that were given up on it.    *)
(* Out of step by none, the physical address is that of the address wanted; *)
(* by one, the line that will be taken for a host address is something else.*)
StepInv ==
  /\ up => Len(unread) = missed
  /\ missed = 0 /\ asking = "hva" => physical = want
  /\ missed = 1 /\ asking = "hva" /\ up => unread[1].kind # "hva"

(* RightUntilTwoTimeouts is inductive with it. *)
RightInv == StepInv /\ RightUntilTwoTimeouts

(* Copies are made in the populate stage, and gone when the next probe      *)
(* begins.                                                                  *)
LiveInv ==
  stage \in {"probe", "probed"} =>
    cache = Nothing /\ todo \subseteq ProbeTasks /\ task \in ProbeTasks \cup {NoTask}

USE DEF connection, memory, main, request

-----------------------------------------------------------------------------
(* Facts about the constants and the tasks *)

LEMMA TaskGuests ==
  /\ \A t \in Tasks : t # NoTask /\ t.guest \in Addresses /\ t.op \in {"read", "copy"}
  /\ \A t \in Tasks : t.op = "copy" => t.guest \in Starts
  /\ ProbeTasks \subseteq Tasks /\ \A t \in ProbeTasks : t.op = "read"
  /\ Base \in Addresses /\ GameTime \in Addresses
BY QmpConstants DEF Tasks, Reads, Copies, Read, Copy, NoTask, ProbeTasks, Addresses, Starts

LEMMA NothingRight ==
  /\ Nothing \in [Addresses -> MaybeHosts] /\ Right(Nothing) /\ None \in MaybeHosts
  /\ \A x \in Addresses : Nothing[x] = None
  /\ Addresses \subseteq MaybeHosts /\ Elsewhere \in MaybeHosts /\ None \notin Addresses
BY QmpConstants DEF Nothing, Right, MaybeHosts, Hosts

(* What a new reader has translated is right. *)
LEMMA GlobalsRight ==
  ASSUME NEW globals
  PROVE  /\ GlobalsKnown(globals) \in [Addresses -> MaybeHosts] /\ Right(GlobalsKnown(globals))
         /\ GlobalsBase(globals) \in {Base, None} /\ GlobalsBase(globals) \in MaybeHosts
BY NothingRight, TaskGuests DEF GlobalsKnown, GlobalsBase, Right

(* What a translation by offset gives. *)
LEMMA OffsetRight ==
  ASSUME NEW host, NEW x \in Addresses, NEW y \in Addresses
  PROVE  Offset(host, x, y) \in MaybeHosts /\ (host = x => Offset(host, x, y) = y)
BY NothingRight DEF Offset

LEMMA HostType ==
  ASSUME TypeInv, NEW x \in Addresses
  PROVE  Host(x) \in MaybeHosts
BY TaskGuests, OffsetRight DEF Host, TypeInv, MemoryType

LEMMA HostRight ==
  ASSUME TypeInv, Right(known_addresses), Right(cache), ram_base_host \in {Base, None},
         NEW x \in Addresses, Host(x) # None, x = task.guest
  PROVE  Host(x) = x
<1>1. CASE Cached
  <2>1. Host(x) = cache[x]
    BY <1>1 DEF Host
  <2> QED
    BY <2>1 DEF Right
<1>2. CASE ~Cached /\ known_addresses[x] # None
  <2>1. Host(x) = known_addresses[x]
    BY <1>2 DEF Host
  <2> QED
    BY <2>1 DEF Right
<1>3. CASE ~Cached /\ known_addresses[x] = None /\ x \in High /\ task.op = "read" /\ ram_base_host # None
  BY <1>3, TaskGuests, OffsetRight DEF Host
<1>4. CASE ~Cached /\ known_addresses[x] = None /\ ~(x \in High /\ task.op = "read" /\ ram_base_host # None)
  BY <1>4 DEF Host, Right
<1> QED
  BY <1>1, <1>2, <1>3, <1>4

LEMMA CopiedRight ==
  ASSUME TypeInv, NEW s \in Starts, NEW host \in MaybeHosts
  PROVE  /\ Copied(s, host) \in [Addresses -> MaybeHosts]
         /\ Right(cache) /\ host = s => Right(Copied(s, host))
<1>1. s \in Addresses /\ Segment[s] \subseteq Addresses /\ cache \in [Addresses -> MaybeHosts]
  BY QmpConstants DEF Starts, Addresses, TypeInv, MemoryType
<1>2. \A x \in Addresses : (x \in Segment[s] => x \in Addresses) /\ Offset(host, s, x) \in MaybeHosts
  BY <1>1, OffsetRight
<1>3. Copied(s, host) \in [Addresses -> MaybeHosts]
  BY <1>1, <1>2 DEF Copied
<1>4. ASSUME Right(cache), host = s
      PROVE  Right(Copied(s, host))
  BY <1>1, <1>4, OffsetRight DEF Copied, Right
<1> QED
  BY <1>3, <1>4

(* The lines on the connection when one more answer has arrived.            *)
LEMMA OneMoreLine ==
  ASSUME TypeInv, NEW a \in GoodLines
  PROVE  /\ Append(unread, a) \in Seq(GoodLines) /\ Append(unread, a) # <<>>
         /\ Head(Append(unread, a)) \in GoodLines
         /\ Tail(Append(unread, a)) \in Seq(GoodLines)
         /\ Len(unread) \in Nat /\ Len(Append(unread, a)) = Len(unread) + 1
         /\ Len(Tail(Append(unread, a))) = Len(unread)
         /\ Len(unread) = 0 => Head(Append(unread, a)) = a
         /\ Len(unread) = 1 => Head(Append(unread, a)) = unread[1] /\ Tail(Append(unread, a))[1] = a
         /\ \A l \in GoodLines :
              /\ [Append(unread, a) EXCEPT ![1] = l] \in Seq(GoodLines)
              /\ Len([Append(unread, a) EXCEPT ![1] = l]) = Len(unread) + 1
<1>1. unread \in Seq(GoodLines)
  BY DEF TypeInv
<1>2. /\ Append(unread, a) \in Seq(GoodLines) /\ Len(unread) \in Nat
      /\ Len(Append(unread, a)) = Len(unread) + 1
  BY <1>1
<1>3. Append(unread, a)[Len(unread) + 1] = a /\ \A i \in 1..Len(unread) : Append(unread, a)[i] = unread[i]
  BY <1>1
<1>4. Head(Append(unread, a)) = Append(unread, a)[1]
  BY <1>2
<1>5. /\ Tail(Append(unread, a)) \in Seq(GoodLines) /\ Len(Tail(Append(unread, a))) = Len(unread)
      /\ Len(unread) = 1 => Tail(Append(unread, a))[1] = Append(unread, a)[2]
  <2> DEFINE lines == Append(unread, a)
  <2>1. lines \in Seq(GoodLines) /\ Len(lines) \in Nat /\ Len(lines) > 0 /\ lines # <<>>
    BY <1>2
  <2> HIDE DEF lines
  <2>2. Tail(lines) \in Seq(GoodLines) /\ Len(Tail(lines)) = Len(lines) - 1
    BY <2>1
  <2>3. Len(lines) = 2 => Tail(lines)[1] = lines[2]
    BY <2>1
  <2>4. Len(unread) = 1 => Len(lines) = 2
    BY <1>2 DEF lines
  <2>5. Len(lines) - 1 = Len(unread)
    BY <1>2 DEF lines
  <2> QED
    BY <2>2, <2>3, <2>4, <2>5 DEF lines
<1>6. ASSUME NEW l \in GoodLines
      PROVE  /\ [Append(unread, a) EXCEPT ![1] = l] \in Seq(GoodLines)
             /\ Len([Append(unread, a) EXCEPT ![1] = l]) = Len(unread) + 1
  BY <1>2, <1>6
<1> QED
  BY <1>2, <1>3, <1>4, <1>5, <1>6

(* What xemu answers to the request in hand. *)
LEMMA AnswerLines ==
  ASSUME TypeInv, asking # "none", NEW a \in Answers(asking, Asked)
  PROVE  /\ a \in GoodLines /\ Torn \in GoodLines
         /\ a.of = Asked /\ a.kind \in {asking, "unmapped"} /\ Asked \in Addresses
BY DEF Answers, Asked, GoodLines, Kinds, TypeInv, MainType

(* Only a torn line is about no address. *)
LEMMA LineOf ==
  ASSUME NEW l \in GoodLines, l.kind \in {"gpa", "hva"}
  PROVE  l.of \in Addresses
BY DEF GoodLines, Kinds, Torn

-----------------------------------------------------------------------------
(* Types *)

(* A stage that begins, or an access that is over, leaves nothing in hand.  *)
LEMMA IdleType ==
  ASSUME TypeInv, Idle, todo' \subseteq Tasks
  PROVE  MainType'
BY DEF Idle, MainType

LEMMA AnsweredCases ==
  ASSUME TypeInv, Answered
  PROVE  \E a \in Answers(asking, Asked) :
           LET lines == Append(unread, a)
               line == Head(lines)
           IN /\ unread' = Tail(lines) /\ UNCHANGED <<up, missed>>
              /\ \/ /\ line.kind = "gpa" /\ asking = "gpa"
                    /\ asking' = "hva" /\ physical' = line.of
                    /\ UNCHANGED <<memory, want, stage, todo, task>>
                 \/ /\ line.kind = "hva" /\ asking = "hva"
                    /\ known_addresses' = [known_addresses EXCEPT ![want] = line.of]
                    /\ ram_base_host' = IF want = Base THEN line.of ELSE ram_base_host
                    /\ asking' = "none" /\ want' = None /\ physical' = None
                    /\ UNCHANGED <<cache, stage, todo, task>>
                 \/ line.kind # asking /\ Fail /\ UNCHANGED memory
<1>1. PICK a \in Answers(asking, Asked) : Answered!2!(a)
  BY DEF Answered
<1> QED
  BY <1>1 DEF Answered

LEMMA TypeInit == Init => TypeInv /\ RightInv /\ LiveInv
<1> SUFFICES ASSUME Init PROVE TypeInv /\ RightInv /\ LiveInv
  OBVIOUS
<1>0. PICK globals : known_addresses = GlobalsKnown(globals) /\ ram_base_host = GlobalsBase(globals)
  BY DEF Init
<1>1. TypeInv
  BY <1>0, NothingRight, GlobalsRight, TaskGuests DEF Init, TypeInv, MemoryType, MainType
<1>2. RightInv
  BY <1>0, NothingRight, GlobalsRight DEF Init, RightInv, StepInv, RightUntilTwoTimeouts
<1>3. LiveInv
  BY DEF Init, LiveInv
<1> QED
  BY <1>1, <1>2, <1>3

-----------------------------------------------------------------------------
(* The steps *)

Safe == TypeInv /\ RightInv /\ LiveInv

(* A step that leaves the memory and the connection alone, and no request   *)
(* about to ask for a host address.                                         *)
LEMMA MainFrame ==
  ASSUME Safe, UNCHANGED <<connection, memory>>, MainType', asking' # "hva", LiveInv'
  PROVE  Safe'
BY DEF Safe, TypeInv, MemoryType, RightInv, StepInv, RightUntilTwoTimeouts, Right

(* A step that forgets all that is remembered.                              *)
LEMMA ForgetFrame ==
  ASSUME Safe, ClearTranslations, Connect \/ UNCHANGED connection, Begin("probe", ProbeTasks)
  PROVE  Safe'
<1>1. MainType' /\ asking' = "none"
  BY TaskGuests, IdleType DEF Begin, Idle, Safe
<1>2. MemoryType'
  BY NothingRight DEF ClearTranslations, MemoryType
<1>3. up' \in BOOLEAN /\ unread' \in Seq(GoodLines) /\ missed' \in Nat /\ (up' => Len(unread') = missed')
  <2>1. CASE Connect
    <3>1. up' = TRUE /\ unread' = <<>> /\ missed' = 0 /\ <<>> \in Seq(GoodLines) /\ Len(<<>>) = 0
      BY <2>1 DEF Connect
    <3> QED
      BY <3>1
  <2>2. CASE UNCHANGED connection
    BY <2>2 DEF Safe, TypeInv, RightInv, StepInv
  <2> QED
    BY <2>1, <2>2
<1>4. RightUntilTwoTimeouts'
  BY NothingRight DEF ClearTranslations, RightUntilTwoTimeouts
<1>5. LiveInv'
  BY DEF ClearTranslations, Begin, Idle, LiveInv
<1> QED
  BY <1>1, <1>2, <1>3, <1>4, <1>5 DEF Safe, TypeInv, RightInv, StepInv

LEMMA AccessSafe ==
  ASSUME Safe, Access
  PROVE  Safe'
<1>1. task \in Tasks /\ task.guest \in Addresses /\ Host(task.guest) \in MaybeHosts
  BY TaskGuests, HostType DEF Access, Safe, TypeInv, MainType
<1>2. known_addresses' = [known_addresses EXCEPT ![task.guest] = Host(task.guest)]
  BY DEF Access
<1>3. cache' = cache \/ (task.op = "copy" /\ task.guest \in Starts /\ cache' = Copied(task.guest, Host(task.guest)))
  BY <1>1, TaskGuests DEF Access
<1>4. MemoryType'
  BY <1>1, <1>2, <1>3, CopiedRight DEF Access, Safe, TypeInv, MemoryType
<1>5. todo' \subseteq Tasks /\ Idle
  BY DEF Access, Fail, Safe, TypeInv, MainType
<1>6. MainType' /\ asking' = "none"
  BY <1>5, IdleType DEF Idle, Safe
<1>7. ASSUME missed' < 2
      PROVE  Right(known_addresses)' /\ Right(cache)' /\ ram_base_host' \in {Base, None}
  <2>1. Right(known_addresses) /\ Right(cache) /\ ram_base_host \in {Base, None}
    BY <1>7 DEF Access, Safe, RightInv, RightUntilTwoTimeouts
  <2>2. Host(task.guest) = task.guest
    BY <1>1, <2>1, HostRight DEF Access, Safe
  <2>3. Right(known_addresses)'
    BY <1>2, <2>1, <2>2 DEF Right, Safe, TypeInv, MemoryType
  <2>4. Right(cache)'
    <3>1. CASE cache' = cache
      BY <2>1, <3>1 DEF Right
    <3>2. CASE task.guest \in Starts /\ cache' = Copied(task.guest, Host(task.guest))
      BY <1>1, <2>1, <2>2, <3>2, CopiedRight DEF Right, Safe
    <3> QED
      BY <1>3, <3>1, <3>2
  <2> QED
    BY <2>1, <2>3, <2>4 DEF Access
<1>8. LiveInv'
  <2>1. CASE stage' \in {"probe", "probed"}
    <3>1. UNCHANGED <<stage, todo>> /\ Idle /\ (cache' = cache \/ task.op = "copy")
      BY <1>3, <2>1 DEF Access, Fail
    <3>2. cache' = cache
      BY <1>1, <2>1, <3>1, TaskGuests DEF LiveInv, Safe
    <3> QED
      BY <2>1, <3>1, <3>2 DEF LiveInv, Safe, Idle
  <2>2. CASE stage' \notin {"probe", "probed"}
    BY <2>2 DEF LiveInv
  <2> QED
    BY <2>1, <2>2
<1> QED
  BY <1>4, <1>6, <1>7, <1>8 DEF Access, Safe, TypeInv, RightInv, StepInv, RightUntilTwoTimeouts

LEMMA AnsweredSafe ==
  ASSUME Safe, Answered
  PROVE  Safe'
<1>0. asking # "none" /\ up
  BY DEF Answered
<1>1. PICK a \in Answers(asking, Asked) :
        LET lines == Append(unread, a)
            line == Head(lines)
        IN /\ unread' = Tail(lines) /\ UNCHANGED <<up, missed>>
           /\ \/ /\ line.kind = "gpa" /\ asking = "gpa"
                 /\ asking' = "hva" /\ physical' = line.of
                 /\ UNCHANGED <<memory, want, stage, todo, task>>
              \/ /\ line.kind = "hva" /\ asking = "hva"
                 /\ known_addresses' = [known_addresses EXCEPT ![want] = line.of]
                 /\ ram_base_host' = IF want = Base THEN line.of ELSE ram_base_host
                 /\ asking' = "none" /\ want' = None /\ physical' = None
                 /\ UNCHANGED <<cache, stage, todo, task>>
              \/ line.kind # asking /\ Fail /\ UNCHANGED memory
  BY AnsweredCases DEF Safe
<1> DEFINE line == Head(Append(unread, a))
<1>2. /\ a \in GoodLines /\ a.of = Asked /\ a.kind \in {asking, "unmapped"} /\ Asked \in Addresses
  BY <1>0, AnswerLines DEF Safe
<1>3. /\ unread' \in Seq(GoodLines) /\ Len(unread') = Len(unread) /\ line \in GoodLines
      /\ Len(unread) = 0 => line = a
      /\ Len(unread) = 1 => line = unread[1] /\ unread'[1] = a
  BY <1>1, <1>2, OneMoreLine DEF Safe
<1>4. Len(unread) = missed /\ missed \in Nat /\ want \in Addresses
  BY <1>0 DEF Safe, RightInv, StepInv, TypeInv, MainType
<1>5. CASE line.kind = "gpa" /\ asking = "gpa" /\ asking' = "hva" /\ physical' = line.of
           /\ UNCHANGED <<memory, want, stage, todo, task>>
  <2>1. physical' \in Addresses
    BY <1>3, <1>5, LineOf
  <2>2. missed = 0 => physical' = want'
    BY <1>2, <1>3, <1>4, <1>5 DEF Asked
  <2>3. missed = 1 => unread'[1].kind # "hva"
    BY <1>2, <1>3, <1>4, <1>5
  <2>4. MainType'
    BY <1>4, <1>5, <2>1 DEF Safe, TypeInv, MainType
  <2>5. LiveInv'
    BY <1>5 DEF Safe, LiveInv
  <2> QED
    BY <1>1, <1>3, <1>4, <1>5, <2>2, <2>3, <2>4, <2>5
       DEF Safe, TypeInv, MemoryType, RightInv, StepInv, RightUntilTwoTimeouts, Right
<1>6. CASE line.kind = "hva" /\ asking = "hva"
           /\ known_addresses' = [known_addresses EXCEPT ![want] = line.of]
           /\ ram_base_host' = (IF want = Base THEN line.of ELSE ram_base_host)
           /\ asking' = "none" /\ want' = None /\ physical' = None
           /\ UNCHANGED <<cache, stage, todo, task>>
  <2>1. line.of \in Addresses /\ line.of \in MaybeHosts
    BY <1>3, <1>6, LineOf, NothingRight
  <2>2. MemoryType' /\ MainType' /\ LiveInv'
    BY <1>4, <1>6, <2>1 DEF Safe, TypeInv, MemoryType, MainType, LiveInv
  <2>3. ASSUME missed < 2
        PROVE  line.of = want
    <3>1. missed # 1
      BY <1>0, <1>3, <1>4, <1>6 DEF Safe, RightInv, StepInv
    <3>2. missed = 0
      BY <1>4, <2>3, <3>1
    <3>3. a.of = physical /\ physical = want
      BY <1>2, <1>6, <3>2 DEF Asked, Safe, RightInv, StepInv
    <3> QED
      BY <1>3, <1>4, <3>2, <3>3
  <2>4. RightUntilTwoTimeouts'
    BY <1>1, <1>4, <1>6, <2>3 DEF Safe, TypeInv, MemoryType, RightInv, RightUntilTwoTimeouts, Right
  <2> QED
    BY <1>1, <1>3, <1>4, <1>6, <2>2, <2>4 DEF Safe, TypeInv, RightInv, StepInv
<1>7. CASE Fail /\ UNCHANGED memory
  <2>1. MainType' /\ asking' = "none"
    BY <1>7, IdleType DEF Fail, Idle, Safe
  <2>2. LiveInv'
    BY <1>7 DEF Fail, LiveInv
  <2> QED
    BY <1>1, <1>3, <1>4, <1>7, <2>1, <2>2
       DEF Safe, TypeInv, MemoryType, RightInv, StepInv, RightUntilTwoTimeouts, Right
<1> QED
  BY <1>1, <1>5, <1>6, <1>7

LEMMA TimesOutSafe ==
  ASSUME Safe, TimesOut
  PROVE  Safe'
<1>1. PICK a \in Answers(asking, Asked) :
        unread' \in {Append(unread, a), [Append(unread, a) EXCEPT ![1] = Torn]}
  BY DEF TimesOut
<1>2. a \in GoodLines /\ Torn \in GoodLines
  BY AnswerLines DEF TimesOut, Safe
<1>3. unread' \in Seq(GoodLines) /\ Len(unread') = Len(unread) + 1 /\ Len(unread) \in Nat
  BY <1>1, <1>2, OneMoreLine DEF Safe
<1>4. MainType' /\ asking' = "none" /\ LiveInv'
  BY IdleType DEF TimesOut, Fail, Idle, Safe, LiveInv
<1>5. missed \in Nat /\ missed' = missed + 1 /\ UNCHANGED <<memory, up>> /\ Len(unread) = missed
  BY DEF TimesOut, Safe, TypeInv, RightInv, StepInv
<1> QED
  BY <1>3, <1>4, <1>5
     DEF Safe, TypeInv, MemoryType, RightInv, StepInv, RightUntilTwoTimeouts, Right

LEMMA TickSafe ==
  ASSUME Safe, TickStep
  PROVE  Safe'
<1>0. MainType
  BY DEF Safe, TypeInv
<1>1. CASE TakeTask
  <2>1. MainType' /\ UNCHANGED <<connection, memory, stage, request>>
    BY <1>0, <1>1 DEF TakeTask, MainType
  <2>2. LiveInv'
    BY <1>1 DEF TakeTask, Safe, LiveInv
  <2> QED
    BY <2>1, <2>2 DEF Safe, TypeInv, MemoryType, RightInv, StepInv, RightUntilTwoTimeouts, Right
<1>2. CASE NeedsTranslation
  <2>1. MainType' /\ asking' = "gpa" /\ UNCHANGED <<connection, memory, stage, todo, task>>
    BY <1>0, <1>2, TaskGuests DEF NeedsTranslation, MainType
  <2>2. LiveInv'
    BY <2>1 DEF Safe, LiveInv
  <2> QED
    BY <2>1, <2>2, MainFrame
<1>3. CASE Disconnected
  <2>1. MainType' /\ asking' = "none" /\ LiveInv' /\ UNCHANGED <<connection, memory>>
    BY <1>3, IdleType DEF Disconnected, Fail, Idle, Safe, LiveInv
  <2> QED
    BY <2>1, MainFrame
<1>4. CASE Probed
  <2>1. LiveInv'
    BY <1>4 DEF Probed, Safe, LiveInv
  <2> QED
    BY <1>4, <2>1 DEF Probed, Safe, TypeInv, MemoryType, MainType, RightInv, StepInv,
                      RightUntilTwoTimeouts, Right
<1>5. CASE SameTick \/ NewTick \/ StartSample
  <2>1. Idle /\ todo' \subseteq Tasks /\ UNCHANGED <<connection, memory>>
    BY <1>5, TaskGuests DEF SameTick, NewTick, StartSample, Begin, Tasks
  <2>2. LiveInv'
    BY <1>5 DEF SameTick, NewTick, StartSample, Begin, Idle, Safe, LiveInv
  <2>3. MainType' /\ asking' # "hva"
    BY <2>1, IdleType DEF Idle, Safe
  <2> QED
    BY <2>1, <2>2, <2>3, MainFrame
<1>6. CASE EndSample
  <2>1. Idle /\ todo' = ProbeTasks /\ cache' = Nothing
        /\ UNCHANGED <<connection, known_addresses, ram_base_host>>
    BY <1>6 DEF EndSample, Begin
  <2>2. MainType' /\ asking' = "none"
    BY <2>1, TaskGuests, IdleType DEF Idle, Safe
  <2>3. LiveInv'
    BY <2>1 DEF LiveInv, Idle
  <2> QED
    BY <2>1, <2>2, <2>3, NothingRight
       DEF Safe, TypeInv, MemoryType, RightInv, StepInv, RightUntilTwoTimeouts, Right
<1> QED
  BY <1>1, <1>2, <1>3, <1>4, <1>5, <1>6, AccessSafe, AnsweredSafe DEF TickStep

LEMMA SafeStep ==
  ASSUME Safe, [Next]_vars
  PROVE  Safe'
<1>1. CASE LinkBreaks
  <2>1. up' = FALSE /\ unread' = <<>> /\ <<>> \in Seq(GoodLines) /\ UNCHANGED <<memory, main, missed>>
    BY <1>1 DEF LinkBreaks
  <2>2. MainType' /\ MemoryType' /\ LiveInv'
    BY <2>1 DEF Safe, TypeInv, MemoryType, MainType, LiveInv
  <2> QED
    BY <2>1, <2>2 DEF Safe, TypeInv, RightInv, StepInv, RightUntilTwoTimeouts, Right
<1>2. CASE Reconnect \/ ReconnectFails \/ ReconnectQmp
  BY <1>2, ForgetFrame DEF Reconnect, ReconnectFails, ReconnectQmp, Replace, KeepOld
<1>3. CASE ReconnectXemu
  <2>1. MainType' /\ asking' = "none" /\ LiveInv'
    BY <1>3, TaskGuests, IdleType DEF ReconnectXemu, Begin, Idle, Safe, LiveInv
  <2>2. up' = TRUE /\ unread' = <<>> /\ missed' = 0 /\ <<>> \in Seq(GoodLines)
    BY <1>3 DEF ReconnectXemu, Connect
  <2>3. MemoryType' /\ Right(known_addresses)' /\ Right(cache)' /\ ram_base_host' \in {Base, None}
    <3>1. PICK globals : known_addresses' = GlobalsKnown(globals) /\ ram_base_host' = GlobalsBase(globals)
      BY <1>3 DEF ReconnectXemu
    <3>2. cache' = Nothing
      BY <1>3 DEF ReconnectXemu
    <3> QED
      BY <3>1, <3>2, NothingRight, GlobalsRight DEF MemoryType, Right
  <2> QED
    BY <2>1, <2>2, <2>3 DEF Safe, TypeInv, RightInv, StepInv, RightUntilTwoTimeouts
<1>4. CASE UNCHANGED vars
  BY <1>4 DEF vars, Safe, TypeInv, MemoryType, MainType, RightInv, StepInv, LiveInv,
              RightUntilTwoTimeouts, Right
<1> QED
  BY <1>1, <1>2, <1>3, <1>4, TickSafe, TimesOutSafe DEF Next

(* Whatever is remembered of the guest's memory is right as long as at most *)
(* one request was given up on the connection, wherever the game time and   *)
(* the copied segments lie and however the reads, copies and reconnects     *)
(* follow each other.                                                       *)
THEOREM AddressesRight == Spec => []RightUntilTwoTimeouts
<1>1. Init => Safe
  BY TypeInit DEF Safe
<1>2. Safe => RightUntilTwoTimeouts
  BY DEF Safe, RightInv
<1> QED
  BY <1>1, <1>2, SafeStep, PTL DEF Spec

(* The probe for the game time never reads a copied segment, although its   *)
(* address may lie in one.                                                  *)
THEOREM ProbesReadLive == Spec => []ProbeReadsLive
<1>1. Init => Safe
  BY TypeInit DEF Safe
<1>2. Safe => ProbeReadsLive
  BY DEF Safe, LiveInv, ProbeReadsLive
<1> QED
  BY <1>1, <1>2, SafeStep, PTL DEF Spec

(* What the bounds count, and that a request is made for the access in hand. *)
CountInv ==
  /\ faults \in 0..MaxFaults /\ missed \in 0..faults
  /\ stage \in {"probe", "probed", "populate", "sample", "error"}
  /\ asking # "none" => task # NoTask

LEMMA CountStep ==
  ASSUME CountInv, [Next]_vars
  PROVE  CountInv'
<1>1. MaxFaults \in Nat
  BY QmpConstants
<1>2. ASSUME NEW b \in BOOLEAN, Charge(b)
      PROVE  faults' \in 0..MaxFaults /\ faults <= faults'
  BY <1>1, <1>2 DEF CountInv, Charge
<1>3. ASSUME faults' \in 0..MaxFaults, faults <= faults', missed' = missed
      PROVE  faults' \in 0..MaxFaults /\ missed' \in 0..faults'
  BY <1>1, <1>3 DEF CountInv
<1>4. CASE Access
  <2>1. PICK b \in BOOLEAN : Charge(b)
    BY <1>4 DEF Access
  <2>2. asking' = "none" /\ stage' \in {stage, "error"} /\ missed' = missed
    BY <1>4 DEF Access, Idle, Fail
  <2> QED
    BY <1>2, <1>3, <2>1, <2>2 DEF CountInv
<1>5. CASE Answered
  <2>1. PICK b \in BOOLEAN : Charge(b)
    BY <1>5 DEF Answered
  <2>2. /\ asking # "none" /\ (asking' = "none" \/ task' = task)
        /\ stage' \in {stage, "error"} /\ missed' = missed
    BY <1>5 DEF Answered, Idle, Fail
  <2> QED
    BY <1>2, <1>3, <2>1, <2>2 DEF CountInv
<1>6. CASE TimesOut
  <2>1. Charge(TRUE) /\ missed' = missed + 1 /\ stage' = "error" /\ asking' = "none"
    BY <1>6 DEF TimesOut, Fail, Idle
  <2>2. faults' = faults + 1 /\ faults < MaxFaults
    BY <2>1 DEF Charge
  <2> QED
    BY <1>1, <2>1, <2>2 DEF CountInv
<1>7. CASE LinkBreaks
  <2>1. Charge(TRUE) /\ missed' = missed /\ UNCHANGED main
    BY <1>7 DEF LinkBreaks
  <2> QED
    BY <1>2, <1>3, <2>1 DEF CountInv
<1>8. CASE TakeTask \/ NeedsTranslation \/ Disconnected \/ Probed \/ UNCHANGED vars
  <2>1. UNCHANGED <<faults, missed>> /\ stage' \in {stage, "probed", "error"}
    BY <1>8 DEF TakeTask, NeedsTranslation, Disconnected, Probed, Fail, vars
  <2>2. asking' # "none" => task' # NoTask
    BY <1>8 DEF TakeTask, NeedsTranslation, Disconnected, Probed, Fail, Idle, vars, CountInv
  <2> QED
    BY <2>1, <2>2 DEF CountInv
<1>9. CASE SameTick \/ NewTick \/ StartSample \/ EndSample
  BY <1>9 DEF SameTick, NewTick, StartSample, EndSample, Begin, Idle, CountInv
<1>10. CASE Reconnect \/ ReconnectFails \/ ReconnectQmp \/ ReconnectXemu
  <2>1. /\ faults' = faults /\ missed' \in {missed, 0}
        /\ stage' = "probe" /\ asking' = "none"
    BY <1>10 DEF Reconnect, ReconnectFails, ReconnectQmp, ReconnectXemu, Replace, KeepOld, Connect,
                 Begin, Idle
  <2> QED
    BY <2>1 DEF CountInv
<1> QED
  BY <1>4, <1>5, <1>6, <1>7, <1>8, <1>9, <1>10 DEF Next, TickStep

(* A request is always made for a read or a copy in hand, and each half of   *)
(* it knows the address it asks for (read_guest_bytes, gva2gpa, gpa2hva).    *)
THEOREM MemoryTypes == Spec => []TypeOK
<1>1. Init => Safe /\ CountInv
  BY TypeInit, QmpConstants DEF Safe, Init, CountInv
<1>2. GoodLines \subseteq Lines
  BY DEF GoodLines, Lines, Kinds, Torn
<1>3. Safe /\ CountInv => TypeOK
  <2> SUFFICES ASSUME Safe, CountInv PROVE TypeOK
    OBVIOUS
  <2>1. unread \in Seq(Lines)
    BY <1>2 DEF Safe, TypeInv
  <2>2. faults \in 0..MaxFaults /\ missed \in 0..MaxFaults
    BY QmpConstants DEF CountInv
  <2> QED
    BY <2>1, <2>2 DEF TypeOK, Safe, TypeInv, MemoryType, MainType, Tasks, MaybeHosts, CountInv
<1> QED
  BY <1>1, <1>3, SafeStep, CountStep, PTL DEF Spec

-----------------------------------------------------------------------------
(* GameStats: types                                                        *)

Score == [kills : Nat, multikill : Nat, last : Nat]
Listed == [player_index : Nat, kills : Nat, multikill : Nat, last : Nat]
Stats == [kills : Nat, multikills : [Amounts -> Nat]]
StatTick == [time : Nat \cup {NoTime}, game : Nat, running : BOOLEAN, players : Seq(Listed), spawns : Nat,
             events : SUBSET Nat, first : BOOLEAN]

(* No slot is listed twice, and its entry in the last tick.                 *)
Apart(players) ==
  \A p, q \in DOMAIN players : players[p].player_index = players[q].player_index => p = q
Sampled == last_game_info.players
LastOf(s) == Sampled[Place(Sampled, s)]

ScoresType ==
  /\ game \in Nat /\ running \in BOOLEAN /\ game_time \in Nat /\ left \in BOOLEAN
  /\ scores \in Seq(Score) /\ Len(scores) <= MaxSlots
  /\ in_game \in [1..MaxSlots -> Stats]
LoopType ==
  /\ last_game_info \in StatTick /\ last_game_info.game <= game
  /\ Apart(Sampled) /\ Indices(Sampled) \subseteq 1..MaxSlots
  /\ events \subseteq Nat /\ spawns_cache \in Nat
  /\ meta \in [DOMAIN meta -> Stats] /\ DOMAIN meta \subseteq 1..MaxSlots
  /\ made \in [1..MaxSlots -> Stats] /\ base \in [DOMAIN base -> Nat] /\ steady \in BOOLEAN

CountType ==
  /\ game_time \in Nat /\ last_game_time \in Nat \cup {NoTime} /\ dropped_ticks_total \in Nat
  /\ baseline \in [first : Nat, ticks : Nat, dropped : Nat]

(* Each score is made of kills of this game, and a multikill was reached by *)
(* way of the smaller ones.                                                 *)
GameInv ==
  \A s \in DOMAIN scores :
    /\ scores[s].kills <= in_game[s].kills
    /\ \A k \in Amounts : k <= scores[s].multikill => in_game[s].multikills[k] > 0

(* What is counted and what the next sample may add to it was made, for a   *)
(* slot that was never compared with another.                               *)
Known(s) == s \in Indices(Sampled) /\ s \in DOMAIN scores
Of(s) == IF s \in DOMAIN meta THEN meta[s] ELSE Unscored
KillsToCome(s) == IF Known(s) THEN KillsGained(LastOf(s).kills, scores[s].kills) ELSE 0
ToCome(s, k) == IF Known(s) /\ k \in AmountsReached(LastOf(s), scores[s]) THEN 1 ELSE 0
MadeSafe(s) ==
  /\ Of(s).kills + KillsToCome(s) <= made[s].kills
  /\ \A k \in Amounts : Of(s).multikills[k] + ToCome(s, k) <= made[s].multikills[k]
MadeInv == DOMAIN meta # {} => \A s \in 1..MaxSlots \ mistaken : MadeSafe(s)

(* Kills are not taken back while a game goes on and nobody leaves, and as  *)
(* long as nothing but samples of one game and its players came, the kills  *)
(* between the first and the last of them are counted.                      *)
SteadyInv ==
  /\ last_game_info.running /\ running /\ last_game_info.game = game /\ ~left =>
       \A s \in Indices(Sampled) : s \in DOMAIN scores /\ LastOf(s).kills <= scores[s].kills
  /\ steady /\ DOMAIN meta # {} =>
       /\ DOMAIN meta = Indices(Sampled) /\ DOMAIN base = Indices(Sampled)
       /\ \A s \in DOMAIN meta : meta[s].kills = LastOf(s).kills - base[s]

(* The events of a tick stay in the loop; the cache holds the spawn points  *)
(* of the game on, as long as its beginning was not overlooked.             *)
TickInv ==
  /\ events = last_game_info.events
  /\ ~last_game_info.running => events = {}
  /\ last_game_info.running /\ ~overlooked =>
       /\ last_game_info.game = game /\ spawns_cache \in {0, game} /\ events \subseteq {game}
       /\ last_game_info.first \/ last_game_info.spawns = game
  /\ last_game_info = NoTick /\ ~overlooked => spawns_cache \in {0, game}

StatsInv == ScoresType /\ LoopType /\ GameInv /\ MadeInv /\ SteadyInv

USE DEF halo, reader, loop, history

-----------------------------------------------------------------------------
(* Dropped ticks *)

(* The frame counter of tick_once in main.rs: from the first sample of a     *)
(* reader or of a game clock on, what was not sampled was counted as         *)
(* dropped, whatever reads failed in between.                                *)
THEOREM DroppedCounted == StatsSpec => []DroppedExact
<1>1. StatsInit => CountType /\ DroppedExact
  BY DEF StatsInit, CountType, DroppedExact, NoBaseline, NoTime
<1>2. CountType /\ DroppedExact /\ [StatsNext]_statsVars
        => CountType' /\ DroppedExact'
  <2> SUFFICES ASSUME CountType, DroppedExact, [StatsNext]_statsVars
               PROVE  CountType' /\ DroppedExact'
    OBVIOUS
  <2>1. CASE Sample
    <3>1. /\ dropped_ticks_total' = dropped_ticks_total + Missed
          /\ last_game_time' = game_time /\ game_time' = game_time /\ game_time # last_game_time
          /\ baseline' = IF last_game_time = NoTime \/ game_time < last_game_time
                   THEN [first |-> game_time, ticks |-> 1, dropped |-> dropped_ticks_total]
                   ELSE [baseline EXCEPT !.ticks = @ + 1]
      BY <2>1 DEF Sample
    <3>2. CASE last_game_time = NoTime \/ game_time < last_game_time
      <4>1. Missed = 0
        BY <3>2 DEF Missed, CountType
      <4> QED
        BY <3>1, <3>2, <4>1 DEF CountType, DroppedExact, NoTime
    <3>3. CASE ~(last_game_time = NoTime \/ game_time < last_game_time)
      <4>1. last_game_time \in Nat /\ last_game_time < game_time
        BY <3>1, <3>3 DEF CountType
      <4>2. Missed = game_time - last_game_time - 1 /\ Missed \in Nat
        BY <4>1, <3>3 DEF Missed, CountType
      <4>3. baseline' = [first |-> baseline.first, ticks |-> baseline.ticks + 1, dropped |-> baseline.dropped]
            /\ baseline.ticks \in Nat /\ baseline.first \in Nat /\ baseline.dropped \in Nat
        BY <3>1, <3>3 DEF CountType
      <4>4. last_game_time - baseline.first = (baseline.ticks - 1) + (dropped_ticks_total - baseline.dropped)
        BY <3>3 DEF DroppedExact
      <4> QED
        BY <3>1, <4>1, <4>2, <4>3, <4>4 DEF CountType, DroppedExact, NoTime
    <3> QED
      BY <3>2, <3>3
  <2>2. CASE NewReader
    BY <2>2 DEF NewReader, CountType, DroppedExact, NoTime
  <2>3. CASE SampleFails
    BY <2>3 DEF SampleFails, AfterFailure, CountType, DroppedExact
  <2>4. CASE Tick \/ StartGame \/ StopGame \/ Join
             \/ (\E s \in DOMAIN scores \cap Killers : Kill(s) \/ Die(s) \/ TakeOver(s))
             \/ UNCHANGED statsVars
    <3>1. /\ UNCHANGED <<last_game_time, dropped_ticks_total, baseline>>
          /\ game_time' \in {game_time, game_time + 1, 0}
      BY <2>4 DEF Tick, StartGame, StopGame, Join, Kill, Die, TakeOver, statsVars
    <3> QED
      BY <3>1 DEF CountType, DroppedExact
  <2> QED
    BY <2>1, <2>2, <2>3, <2>4 DEF StatsNext
<1> QED
  BY <1>1, <1>2, PTL DEF StatsSpec

-----------------------------------------------------------------------------
(* Lists and slots *)

LEMMA NoSlots ==
  ASSUME NEW S, NEW q, q = <<>>
  PROVE  q \in Seq(S) /\ Len(q) = 0 /\ DOMAIN q = {} /\ q \in [DOMAIN q -> S]
<1>1. q \in Seq(S) /\ Len(q) = 0
  OBVIOUS
<1>2. q \in [1..Len(q) -> S] /\ DOMAIN q = 1..Len(q)
  BY <1>1, LenProperties
<1> QED
  BY <1>1, <1>2

LEMMA SlotSeq ==
  ASSUME NEW S, NEW n \in Nat, NEW f \in [1..n -> S]
  PROVE  f \in Seq(S) /\ Len(f) = n /\ DOMAIN f = 1..n
<1>1. f \in Seq(S)
  BY SeqDef
<1>2. DOMAIN f = 1..n /\ DOMAIN f = 1..Len(f) /\ Len(f) \in Nat
  BY <1>1, LenProperties
<1> QED
  BY <1>1, <1>2

LEMMA UnscoredStats == Unscored \in Stats /\ Unscored.kills = 0 /\ \A k \in Amounts : Unscored.multikills[k] = 0
BY DEF Unscored, NoCounts, Stats

LEMMA FreshScore == Fresh \in Score /\ Fresh.kills = 0 /\ Fresh.multikill = 0
BY DEF Fresh, Score

LEMMA SignedInt == \A t \in Nat : Signed(t) \in Int
BY StatsConstants DEF Signed

(* What is compared of a player. *)
Numbers(e) == e.kills \in Nat /\ e.multikill \in Nat /\ e.last \in Nat

LEMMA NumbersOf == (\A e \in Score : Numbers(e)) /\ (\A e \in Listed : Numbers(e))
BY DEF Numbers, Score, Listed

(* What is counted for a slot between two samples.                           *)
LEMMA Gains ==
  ASSUME NEW m \in Stats, NEW old, NEW new, Numbers(old), Numbers(new)
  PROVE  /\ WithGains(m, old, new) \in Stats
         /\ WithGains(m, old, new).kills = m.kills + KillsGained(old.kills, new.kills)
         /\ KillsGained(old.kills, new.kills) \in Nat
         /\ \A k \in Amounts : WithGains(m, old, new).multikills[k]
                                 = m.multikills[k] + (IF k \in AmountsReached(old, new) THEN 1 ELSE 0)
BY DEF WithGains, KillsGained, Stats, Numbers

(* Where a slot is in a list. *)
LEMMA PlaceOf ==
  ASSUME NEW players, NEW s \in Indices(players)
  PROVE  /\ Place(players, s) \in DOMAIN players /\ players[Place(players, s)].player_index = s
         /\ Apart(players) =>
              \A p \in DOMAIN players : players[p].player_index = s => p = Place(players, s)
<1>1. \E p \in DOMAIN players : players[p].player_index = s
  BY DEF Indices
<1>2. Place(players, s) \in DOMAIN players /\ players[Place(players, s)].player_index = s
  BY <1>1 DEF Place
<1> QED
  BY <1>2 DEF Apart

(* The entry of a slot in the last tick. *)
LEMMA LastEntry ==
  ASSUME LoopType, NEW s \in Indices(Sampled)
  PROVE  LastOf(s) \in Listed /\ Numbers(LastOf(s)) /\ s \in 1..MaxSlots
<1>1. Sampled \in Seq(Listed) /\ s \in 1..MaxSlots
  BY DEF LoopType, StatTick, Sampled
<1>2. Place(Sampled, s) \in DOMAIN Sampled
  BY PlaceOf
<1>3. LastOf(s) \in Listed
  BY <1>1, <1>2 DEF LastOf
<1> QED
  BY <1>1, <1>3, NumbersOf

(* The list that is read. *)
New(listed) == [p \in DOMAIN listed |-> Entry(listed[p])]

LEMMA ScoreNumbers ==
  ASSUME ScoresType, NEW s \in DOMAIN scores
  PROVE  /\ scores[s] \in Score /\ Numbers(scores[s]) /\ s \in 1..MaxSlots
         /\ Entry(s) \in Listed /\ Numbers(Entry(s)) /\ Entry(s).player_index = s
         /\ Entry(s).kills = scores[s].kills /\ Entry(s).multikill = scores[s].multikill
         /\ Entry(s).last = scores[s].last
<1>1. scores[s] \in Score /\ s \in 1..MaxSlots /\ s \in Nat
  BY StatsConstants DEF ScoresType
<1>2. Numbers(scores[s])
  BY <1>1, NumbersOf
<1>3. Entry(s) \in Listed
  BY <1>1 DEF Entry, Listed, Score
<1>4. Numbers(Entry(s))
  BY <1>3, NumbersOf
<1> QED
  BY <1>1, <1>2, <1>3, <1>4 DEF Entry

LEMMA ListingType ==
  ASSUME ScoresType, NEW listed \in Listings
  PROVE  /\ New(listed) \in Seq(Listed) /\ DOMAIN New(listed) = DOMAIN listed
         /\ Len(New(listed)) \in Nat /\ DOMAIN New(listed) = 1..Len(New(listed))
         /\ Apart(New(listed))
         /\ Indices(New(listed)) \subseteq DOMAIN scores /\ Indices(New(listed)) \subseteq 1..MaxSlots
         /\ \A s \in Indices(New(listed)) : New(listed)[Place(New(listed), s)] = Entry(s)
<1>1. PICK n \in 0..Len(scores) : listed \in [1..n -> DOMAIN scores]
  BY DEF Listings
<1>2. n \in Nat
  BY <1>1 DEF ScoresType
<1>3. New(listed) \in [1..n -> Listed]
  BY <1>1, ScoreNumbers DEF New
<1>4. New(listed) \in Seq(Listed) /\ Len(New(listed)) = n /\ DOMAIN New(listed) = 1..n
  BY <1>2, <1>3, SlotSeq
<1>5. \A p \in DOMAIN listed : listed[p] \in DOMAIN scores /\ New(listed)[p] = Entry(listed[p])
                                /\ New(listed)[p].player_index = listed[p]
  BY <1>1, ScoreNumbers DEF New
<1>6. Apart(New(listed))
  <2> SUFFICES ASSUME NEW p \in 1..n, NEW q \in 1..n, listed[p] = listed[q] PROVE p = q
    BY <1>1, <1>4, <1>5 DEF Apart
  <2>1. p \in Nat /\ q \in Nat /\ (p < q => listed[p] < listed[q]) /\ (q < p => listed[q] < listed[p])
    BY <1>1, <1>2 DEF Listings
  <2>2. listed[p] \in Nat
    BY <1>1, ScoreNumbers, StatsConstants
  <2> QED
    BY <2>1, <2>2
<1>7. Indices(New(listed)) \subseteq DOMAIN scores /\ Indices(New(listed)) \subseteq 1..MaxSlots
  BY <1>1, <1>4, <1>5, ScoreNumbers DEF Indices
<1>8. ASSUME NEW s \in Indices(New(listed))
      PROVE  New(listed)[Place(New(listed), s)] = Entry(s)
  <2>1. Place(New(listed), s) \in DOMAIN New(listed)
        /\ New(listed)[Place(New(listed), s)].player_index = s
    BY PlaceOf
  <2> QED
    BY <1>1, <1>4, <1>5, <2>1
<1> QED
  BY <1>1, <1>2, <1>4, <1>6, <1>7, <1>8

(* A sample, with the list it read.                                          *)
Extracts == last_game_info # NoTick /\ ~(last_game_info.running /\ ~running)
Begins == ~last_game_info.running /\ running
Anew == Begins \/ DOMAIN meta = {}
Counts(listed) == last_game_info.running /\ running /\ Len(Sampled) = Len(New(listed))
Same(listed) ==
  /\ Counts(listed) /\ last_game_info.game = game
  /\ Order(Sampled) = Order(New(listed)) /\ ~left
Mixed(listed) ==
  {s \in Indices(New(listed)) :
     Counts(listed) /\ Sampled[Place(New(listed), s)].player_index # s}

Sampling(listed) ==
  /\ last_game_info' = [TickRead(listed) EXCEPT !.events = events']
  /\ meta' = IF Extracts THEN MetaAfter(last_game_info, TickRead(listed)) ELSE meta
  /\ made' = IF Extracts /\ Anew THEN in_game ELSE made
  /\ mistaken' = (IF Extracts /\ Anew THEN {} ELSE mistaken) \cup (IF Extracts THEN Mixed(listed) ELSE {})
  /\ steady' = IF Extracts /\ Anew THEN Counts(listed) => Same(listed) ELSE steady /\ Same(listed)
  /\ base' = IF Extracts /\ Anew THEN KillsOf(IF Counts(listed) THEN Sampled ELSE New(listed))
             ELSE IF steady' THEN base ELSE <<>>
  /\ events' = IF last_game_info = NoTick THEN events ELSE EventsAfter(last_game_info, TickRead(listed))
  /\ spawns_cache' = IF Extracts /\ Begins THEN 0 ELSE Spawns
  /\ overlooked' = (overlooked /\ running)
  /\ UNCHANGED <<game, running, scores, in_game, game_time>> /\ left' = FALSE

LEMMA SampleIs ==
  ASSUME Sample
  PROVE  \E listed \in Listings : Sampling(listed)
<1>1. PICK listed \in Listings : Sample!2!(listed)
  BY DEF Sample
<1>2. TickRead(listed).players = New(listed) /\ TickRead(listed).running = running
      /\ TickRead(listed).game = game
  BY DEF TickRead, New
<1>3. Extracts <=> last_game_info # NoTick /\ ~GameGone(last_game_info, TickRead(listed))
  BY <1>2 DEF Extracts, GameGone
<1>4. (Begins <=> GameBegins(last_game_info, TickRead(listed)))
      /\ (Anew <=> Initialises(last_game_info, TickRead(listed)))
  BY <1>2 DEF Begins, GameBegins, Anew, Initialises
<1>5. Counts(listed) <=> Comparable(last_game_info, TickRead(listed))
  BY <1>2 DEF Counts, Comparable, Sampled
<1>6. Same(listed) <=> Continues(last_game_info, TickRead(listed))
  BY <1>2, <1>5 DEF Same, Continues, Sampled
<1>7. Mixed(listed) = Confused(last_game_info, TickRead(listed))
  BY <1>2, <1>5 DEF Mixed, Confused, Sampled
<1>8. UNCHANGED <<game, running, scores, in_game, game_time>> /\ left' = FALSE
  BY DEF Sample
<1> QED
  BY <1>1, <1>2, <1>3, <1>4, <1>5, <1>6, <1>7, <1>8 DEF Sampling, Sampled


(* The tick sent out by tick_once.                                           *)
LEMMA TickSent ==
  ASSUME ScoresType, LoopType, NEW listed \in Listings, Sampling(listed)
  PROVE  /\ last_game_info' \in StatTick /\ last_game_info' # NoTick
         /\ last_game_info'.game = game /\ last_game_info'.running = running
         /\ last_game_info'.players = New(listed) /\ last_game_info'.events = events'
         /\ last_game_info'.spawns = Spawns
         /\ last_game_info'.first = (~last_game_info.running \/ last_game_info.game # game)
         /\ events' \subseteq Nat /\ Spawns \in Nat
<1>1. /\ last_game_info' = [TickRead(listed) EXCEPT !.events = events']
      /\ events' = IF last_game_info = NoTick THEN events ELSE EventsAfter(last_game_info, TickRead(listed))
  BY DEF Sampling
<1>2. events' \subseteq Nat /\ Spawns \in Nat
  BY <1>1 DEF EventsAfter, TickRead, Spawns, ScoresType, LoopType
<1>3. last_game_info' = [time |-> game_time, game |-> game, running |-> running, players |-> New(listed),
                         spawns |-> Spawns, events |-> events',
                         first |-> ~last_game_info.running \/ last_game_info.game # game]
  BY <1>1 DEF TickRead, New
<1>4. last_game_info'.time = game_time /\ game_time # -1 /\ New(listed) \in Seq(Listed)
  BY <1>3, ListingType DEF ScoresType
<1> QED
  BY <1>2, <1>3, <1>4 DEF StatTick, NoTick, ScoresType

(* What GameMeta::extract_events makes of the players.                       *)
Before(s) == IF Anew THEN Unscored ELSE Of(s)

LEMMA MetaSlots ==
  ASSUME ScoresType, LoopType, NEW listed \in Listings, Sampling(listed), Extracts
  PROVE  /\ DOMAIN meta' = IF Anew THEN Indices(New(listed)) ELSE DOMAIN meta \cup Indices(New(listed))
         /\ \A s \in DOMAIN meta' :
              meta'[s] = IF Counts(listed) /\ s \in Indices(New(listed))
                           THEN WithGains(Before(s), Sampled[Place(New(listed), s)], Entry(s)) ELSE Before(s)
         /\ meta' \in [DOMAIN meta' -> Stats] /\ DOMAIN meta' \subseteq 1..MaxSlots
<1> DEFINE new == New(listed)
           known == IF Anew THEN Initialised(Indices(new)) ELSE Ensured(meta, Indices(new))
           slots == IF Anew THEN Indices(new) ELSE DOMAIN meta \cup Indices(new)
<1>1. known = [s \in slots |-> Before(s)]
  BY DEF Initialised, Ensured, Before, Of
<1>2. TickRead(listed).players = new /\ TickRead(listed).running = running
  BY DEF TickRead, New
<1>3. meta' = IF Counts(listed) THEN Counted(known, Sampled, new) ELSE known
  <2>1. meta' = MetaAfter(last_game_info, TickRead(listed))
    BY DEF Sampling
  <2>2. Anew <=> Initialises(last_game_info, TickRead(listed))
    BY <1>2 DEF Anew, Begins, Initialises, GameBegins
  <2>3. Counts(listed) <=> Comparable(last_game_info, TickRead(listed))
    BY <1>2 DEF Counts, Comparable, Sampled
  <2> QED
    BY <1>2, <2>1, <2>2, <2>3 DEF MetaAfter, Sampled
<1>4. \A s \in Indices(new) : new[Place(new, s)] = Entry(s)
  BY ListingType
<1> HIDE DEF known, slots, new
<1>5. meta' = [s \in slots |-> IF Counts(listed) /\ s \in Indices(new)
                                 THEN WithGains(Before(s), Sampled[Place(new, s)], Entry(s)) ELSE Before(s)]
  <2>1. CASE Counts(listed)
    BY <1>1, <1>3, <1>4, <2>1 DEF Counted
  <2>2. CASE ~Counts(listed)
    BY <1>1, <1>3, <2>2
  <2> QED
    BY <2>1, <2>2
<1>6. \A s \in slots : Before(s) \in Stats
  BY UnscoredStats DEF Before, Of, LoopType
<1>7. ASSUME Counts(listed), NEW s \in Indices(new)
      PROVE  Numbers(Sampled[Place(new, s)]) /\ Numbers(Entry(s))
  <2>1. Place(new, s) \in DOMAIN new /\ DOMAIN new = 1..Len(new) /\ Indices(new) \subseteq DOMAIN scores
    BY PlaceOf, ListingType DEF new
  <2>2. Sampled \in Seq(Listed) /\ Len(Sampled) = Len(new)
    BY <1>7 DEF LoopType, StatTick, Sampled, Counts, new
  <2>3. Sampled[Place(new, s)] \in Listed
    BY <2>1, <2>2
  <2> QED
    BY <2>1, <2>3, NumbersOf, ScoreNumbers
<1>8. \A s \in slots : meta'[s] \in Stats
  BY <1>5, <1>6, <1>7, Gains
<1>9. slots \subseteq 1..MaxSlots
  BY ListingType DEF slots, new, LoopType
<1> QED
  BY <1>5, <1>8, <1>9 DEF slots, new

LEMMA StatsTypeInit == StatsInit => ScoresType /\ LoopType
<1> SUFFICES ASSUME StatsInit PROVE ScoresType /\ LoopType
  OBVIOUS
<1>1. in_game \in [1..MaxSlots -> Stats] /\ made \in [1..MaxSlots -> Stats]
  BY UnscoredStats DEF StatsInit
<1>2. MaxSlots \in Nat
  BY StatsConstants
<1>3. /\ game = 0 /\ running = FALSE /\ game_time = 0 /\ scores = <<>> /\ meta = <<>> /\ events = {}
      /\ spawns_cache = 0 /\ base = <<>> /\ steady = FALSE /\ last_game_info = NoTick /\ left = FALSE
  BY DEF StatsInit
<1>4. ScoresType
  <2>1. scores \in Seq(Score) /\ Len(scores) = 0
    BY <1>3, NoSlots
  <2>2. Len(scores) <= MaxSlots
    BY <1>2, <2>1
  <2> QED
    BY <1>1, <1>3, <2>1, <2>2 DEF ScoresType
<1>5. NoTick \in StatTick /\ NoTick.game = 0 /\ NoTick.players = <<>>
  <2>1. <<>> \in Seq(Listed)
    OBVIOUS
  <2> QED
    BY <2>1 DEF NoTick, StatTick, NoTime
<1>6. LoopType
  <2>1. /\ meta \in [DOMAIN meta -> Stats] /\ DOMAIN meta = {} /\ base \in [DOMAIN base -> Nat]
        /\ DOMAIN last_game_info.players = {}
    BY <1>3, <1>5, NoSlots
  <2>2. last_game_info \in StatTick /\ last_game_info.game <= game
    BY <1>3, <1>5
  <2>3. events \subseteq Nat /\ spawns_cache \in Nat /\ steady \in BOOLEAN
    BY <1>3
  <2>4. Apart(Sampled) /\ Indices(Sampled) = {}
    BY <2>1 DEF Apart, Indices, Sampled
  <2> QED
    BY <1>1, <2>1, <2>2, <2>3, <2>4 DEF LoopType
<1> QED
  BY <1>4, <1>6

(* The steps of Halo on a slot.                                              *)
LEMMA SlotScore ==
  ASSUME ScoresType, NEW s \in DOMAIN scores, NEW v \in Score, scores' = [scores EXCEPT ![s] = v]
  PROVE  /\ scores' \in Seq(Score) /\ Len(scores') = Len(scores) /\ DOMAIN scores' = DOMAIN scores
         /\ \A r \in DOMAIN scores : r # s => scores'[r] = scores[r]
         /\ scores'[s] = v /\ s \in 1..MaxSlots
<1>1. scores \in Seq(Score) /\ s \in 1..MaxSlots
  BY ScoreNumbers DEF ScoresType
<1> QED
  BY <1>1

LEMMA KillScore ==
  ASSUME ScoresType, LoopType, NEW s \in DOMAIN scores, Kill(s)
  PROVE  \E a \in Nat \ {0} :
           /\ a = scores[s].multikill + 1 \/ a = 1
           /\ scores' \in Seq(Score) /\ Len(scores') = Len(scores) /\ DOMAIN scores' = DOMAIN scores
           /\ \A r \in DOMAIN scores : r # s => scores'[r] = scores[r]
           /\ scores[s] \in Score
           /\ scores'[s] = [kills |-> scores[s].kills + 1, multikill |-> a, last |-> game_time]
           /\ in_game' = [in_game EXCEPT ![s] = WithKill(in_game[s], a)]
           /\ made' = [made EXCEPT ![s] = WithKill(made[s], a)]
           /\ s \in 1..MaxSlots
<1>1. PICK a : a = Amount(scores[s])
  OBVIOUS
<1>2. scores[s] \in Score /\ s \in 1..MaxSlots /\ game_time \in Nat
  BY ScoreNumbers DEF ScoresType
<1>3. a \in Nat \ {0} /\ (a = scores[s].multikill + 1 \/ a = 1)
  BY <1>1, <1>2 DEF Amount, Score
<1>4. /\ scores' = [scores EXCEPT ![s] = [kills |-> scores[s].kills + 1, multikill |-> a, last |-> game_time]]
      /\ in_game' = [in_game EXCEPT ![s] = WithKill(in_game[s], a)]
      /\ made' = [made EXCEPT ![s] = WithKill(made[s], a)]
  BY <1>1 DEF Kill
<1>5. [kills |-> scores[s].kills + 1, multikill |-> a, last |-> game_time] \in Score
  BY <1>2, <1>3 DEF Score
<1> QED
  BY <1>2, <1>3, <1>4, <1>5, SlotScore

LEMMA WithKillStats ==
  ASSUME NEW m \in Stats, NEW a \in Nat
  PROVE  /\ WithKill(m, a) \in Stats /\ WithKill(m, a).kills = m.kills + 1
         /\ \A k \in Amounts : WithKill(m, a).multikills[k] = m.multikills[k] + (IF k = a THEN 1 ELSE 0)
BY DEF WithKill, Stats

(* A death, or a leave: nothing is gained.                                   *)
LEMMA EndScore ==
  ASSUME ScoresType, NEW s \in DOMAIN scores, Die(s) \/ TakeOver(s)
  PROVE  /\ scores' \in Seq(Score) /\ Len(scores') = Len(scores) /\ DOMAIN scores' = DOMAIN scores
         /\ \A r \in DOMAIN scores : r # s => scores'[r] = scores[r]
         /\ scores'[s].multikill = 0
         /\ (Die(s) /\ scores'[s].kills = scores[s].kills) \/ (TakeOver(s) /\ scores'[s].kills = 0)
<1>1. scores[s] \in Score
  BY ScoreNumbers
<1>2. CASE Die(s)
  <2>1. scores' = [scores EXCEPT ![s] = [kills |-> scores[s].kills, multikill |-> 0, last |-> scores[s].last]]
    <3>1. scores' = [scores EXCEPT ![s].multikill = 0]
      BY <1>2 DEF Die
    <3>2. [scores[s] EXCEPT !.multikill = 0]
            = [kills |-> scores[s].kills, multikill |-> 0, last |-> scores[s].last]
      BY <1>1 DEF Score
    <3> QED
      BY <3>1, <3>2
  <2>2. [kills |-> scores[s].kills, multikill |-> 0, last |-> scores[s].last] \in Score
    BY <1>1 DEF Score
  <2> QED
    BY <1>2, <2>1, <2>2, SlotScore
<1>3. CASE TakeOver(s)
  <2>1. scores' = [scores EXCEPT ![s] = Fresh] /\ Fresh \in Score /\ Fresh.kills = 0 /\ Fresh.multikill = 0
    BY <1>3, FreshScore DEF TakeOver
  <2> QED
    BY <1>3, <2>1, SlotScore
<1> QED
  BY <1>2, <1>3

LEMMA JoinScore ==
  ASSUME ScoresType, Join
  PROVE  /\ scores' \in Seq(Score) /\ Len(scores') <= MaxSlots
         /\ DOMAIN scores \subseteq DOMAIN scores' /\ DOMAIN scores' \subseteq 1..MaxSlots
         /\ \A s \in DOMAIN scores : scores'[s] = scores[s]
         /\ \A s \in DOMAIN scores' : s \in DOMAIN scores \/ scores'[s] = Fresh
<1>1. scores \in Seq(Score) /\ Len(scores) < MaxSlots /\ scores' = Append(scores, Fresh) /\ MaxSlots \in Nat
  BY StatsConstants DEF ScoresType, Join
<1> QED
  BY <1>1, FreshScore

LEMMA NewGameScore ==
  ASSUME StartGame
  PROVE  /\ scores' \in Seq(Score) /\ Len(scores') <= MaxSlots
         /\ \A s \in DOMAIN scores' : scores'[s] = Fresh /\ s \in 1..MaxSlots
<1>1. PICK n \in 1..MaxSlots : scores' = [s \in 1..n |-> Fresh]
  BY DEF StartGame
<1>2. n \in Nat /\ n <= MaxSlots /\ [s \in 1..n |-> Fresh] \in [1..n -> Score]
  BY FreshScore, StatsConstants
<1> QED
  BY <1>1, <1>2, SlotSeq, StatsConstants


LEMMA StatsTypeStep ==
  ASSUME ScoresType, LoopType, [StatsNext]_statsVars
  PROVE  ScoresType' /\ LoopType'
<1>0. MaxSlots \in Nat
  BY StatsConstants
<1>1. CASE Tick \/ UNCHANGED statsVars
  <2>1. /\ game_time' \in {game_time, game_time + 1} /\ UNCHANGED <<game, running, scores, in_game, left>>
        /\ UNCHANGED <<last_game_info, events, spawns_cache, meta, made, base, steady>>
    BY <1>1 DEF Tick, statsVars
  <2> QED
    BY <2>1 DEF ScoresType, LoopType, Sampled
<1>2. CASE StartGame
  <2>1. scores' \in Seq(Score) /\ Len(scores') <= MaxSlots
    BY <1>2, NewGameScore
  <2>2. in_game' \in [1..MaxSlots -> Stats]
    BY <1>2, UnscoredStats DEF StartGame
  <2>3. /\ game' = game + 1 /\ running' = TRUE /\ game_time' = 0 /\ left' = left
        /\ UNCHANGED <<last_game_info, events, spawns_cache, meta, made, base, steady>>
    BY <1>2 DEF StartGame
  <2>4. ScoresType'
    BY <2>1, <2>2, <2>3 DEF ScoresType
  <2>5. LoopType'
    BY <2>3 DEF LoopType, Sampled, ScoresType, StatTick
  <2> QED
    BY <2>4, <2>5
<1>3. CASE StopGame
  <2>1. /\ running' = FALSE /\ game_time' = 0 /\ scores' = <<>> /\ UNCHANGED <<game, in_game, left>>
        /\ UNCHANGED <<last_game_info, events, spawns_cache, meta, made, base, steady>>
    BY <1>3 DEF StopGame
  <2>2. scores' \in Seq(Score) /\ Len(scores') = 0
    BY <2>1, NoSlots
  <2>3. Len(scores') <= MaxSlots
    BY <1>0, <2>2
  <2>4. ScoresType'
    BY <2>1, <2>2, <2>3 DEF ScoresType
  <2>5. LoopType'
    BY <2>1 DEF LoopType, Sampled
  <2> QED
    BY <2>4, <2>5
<1>4. CASE Join
  <2>1. scores' \in Seq(Score) /\ Len(scores') <= MaxSlots
    BY <1>4, JoinScore
  <2>2. UNCHANGED <<game, running, game_time, in_game, left>>
        /\ UNCHANGED <<last_game_info, events, spawns_cache, meta, made, base, steady>>
    BY <1>4 DEF Join
  <2> QED
    BY <2>1, <2>2 DEF ScoresType, LoopType, Sampled
<1>5. ASSUME NEW s \in DOMAIN scores, Kill(s) PROVE ScoresType' /\ LoopType'
  <2>1. PICK a \in Nat \ {0} :
           /\ scores' \in Seq(Score) /\ Len(scores') = Len(scores)
           /\ in_game' = [in_game EXCEPT ![s] = WithKill(in_game[s], a)]
           /\ made' = [made EXCEPT ![s] = WithKill(made[s], a)]
           /\ s \in 1..MaxSlots
    BY <1>5, KillScore
  <2>2. WithKill(in_game[s], a) \in Stats /\ WithKill(made[s], a) \in Stats
    BY <2>1, WithKillStats DEF ScoresType, LoopType
  <2> QED
    BY <1>5, <2>1, <2>2 DEF Kill, ScoresType, LoopType, Sampled
<1>6. ASSUME NEW s \in DOMAIN scores, Die(s) \/ TakeOver(s) PROVE ScoresType' /\ LoopType'
  <2>1. scores' \in Seq(Score) /\ Len(scores') = Len(scores)
    BY <1>6, EndScore
  <2>2. /\ UNCHANGED <<game, running, game_time, in_game>> /\ left' \in {left, TRUE}
        /\ UNCHANGED <<last_game_info, events, spawns_cache, meta, made, base, steady>>
    BY <1>6 DEF Die, TakeOver
  <2> QED
    BY <2>1, <2>2 DEF ScoresType, LoopType, Sampled
<1>7. CASE Sample
  <2>1. PICK listed \in Listings : Sampling(listed)
    BY <1>7, SampleIs
  <2>2. /\ last_game_info' \in StatTick /\ last_game_info'.game = game
        /\ last_game_info'.players = New(listed) /\ events' \subseteq Nat /\ Spawns \in Nat
    BY <2>1, TickSent
  <2>3. /\ Apart(New(listed)) /\ Indices(New(listed)) \subseteq 1..MaxSlots
        /\ New(listed) \in Seq(Listed)
    BY ListingType
  <2>4. ScoresType'
    BY <2>1 DEF Sampling, ScoresType
  <2>5. meta' \in [DOMAIN meta' -> Stats] /\ DOMAIN meta' \subseteq 1..MaxSlots
    <3>1. CASE Extracts
      BY <2>1, <3>1, MetaSlots
    <3>2. CASE ~Extracts
      BY <2>1, <3>2 DEF Sampling, LoopType
    <3> QED
      BY <3>1, <3>2
  <2>6. spawns_cache' \in Nat /\ made' \in [1..MaxSlots -> Stats] /\ steady' \in BOOLEAN
    <3>1. spawns_cache' \in {0, Spawns} /\ made' \in {in_game, made}
      BY <2>1 DEF Sampling
    <3>2. steady' \in BOOLEAN
      BY <2>1 DEF Sampling, Same, Counts, LoopType
    <3> QED
      BY <2>2, <3>1, <3>2 DEF ScoresType, LoopType
  <2>7. base' \in [DOMAIN base' -> Nat]
    <3>1. base' \in {KillsOf(Sampled), KillsOf(New(listed)), base, <<>>}
      BY <2>1 DEF Sampling
    <3>2. ASSUME NEW players \in Seq(Listed)
          PROVE  KillsOf(players) \in [DOMAIN KillsOf(players) -> Nat]
      <4>1. ASSUME NEW s \in Indices(players) PROVE players[Place(players, s)].kills \in Nat
        <5>1. Place(players, s) \in DOMAIN players
          BY PlaceOf
        <5>2. players[Place(players, s)] \in Listed
          BY <5>1
        <5> QED
          BY <5>2 DEF Listed
      <4> QED
        BY <4>1 DEF KillsOf
    <3>3. Sampled \in Seq(Listed) /\ base \in [DOMAIN base -> Nat]
      BY DEF LoopType, StatTick, Sampled
    <3>4. <<>> \in [DOMAIN <<>> -> Nat]
      BY NoSlots
    <3> QED
      BY <2>3, <3>1, <3>2, <3>3, <3>4
  <2>8. game' = game /\ game \in Nat /\ Sampled' = New(listed)
    BY <2>1, <2>2 DEF Sampling, ScoresType, Sampled
  <2> QED
    BY <2>2, <2>3, <2>4, <2>5, <2>6, <2>7, <2>8 DEF LoopType
<1>8. CASE SampleFails
  <2>1. spawns_cache' \in Nat
    BY <1>8 DEF SampleFails, Spawns, ScoresType, LoopType
  <2>2. UNCHANGED <<game, running, game_time, in_game, scores, left>>
        /\ UNCHANGED <<last_game_info, events, meta, made, base, steady>>
    BY <1>8 DEF SampleFails
  <2> QED
    BY <2>1, <2>2 DEF ScoresType, LoopType, Sampled
<1>9. CASE NewReader
  <2>1. meta' \in [DOMAIN meta' -> Stats] /\ DOMAIN meta' = {} /\ spawns_cache' = 0
    BY <1>9, NoSlots DEF NewReader
  <2>2. UNCHANGED <<game, running, game_time, in_game, scores, left>>
        /\ UNCHANGED <<last_game_info, events, made, base, steady>>
    BY <1>9 DEF NewReader
  <2> QED
    BY <2>1, <2>2 DEF ScoresType, LoopType, Sampled
<1> QED
  BY <1>1, <1>2, <1>3, <1>4, <1>5, <1>6, <1>7, <1>8, <1>9 DEF StatsNext

-----------------------------------------------------------------------------
(* What a tick carries *)

LEMMA TickCarries ==
  ASSUME ScoresType, LoopType, TickInv, [StatsNext]_statsVars
  PROVE  TickInv'
<1>1. CASE Sample
  <2>0. PICK listed \in Listings : Sampling(listed)
    BY <1>1, SampleIs
  <2>1. /\ last_game_info' # NoTick /\ last_game_info'.game = game /\ last_game_info'.running = running
        /\ last_game_info'.events = events' /\ last_game_info'.spawns = Spawns
        /\ last_game_info'.first = (~last_game_info.running \/ last_game_info.game # game)
    BY <2>0, TickSent
  <2>2. /\ events' = IF last_game_info = NoTick THEN events
                     ELSE EventsAfter(last_game_info, TickRead(listed))
        /\ overlooked' = (overlooked /\ running) /\ game' = game
        /\ spawns_cache' = IF Extracts /\ Begins THEN 0 ELSE Spawns
        /\ TickRead(listed).running = running /\ TickRead(listed).game = game
    BY <2>0 DEF Sampling, TickRead
  <2>3. ~NoTick.running /\ last_game_info.running \in BOOLEAN /\ running \in BOOLEAN
    BY DEF NoTick, LoopType, StatTick, ScoresType
  <2>4. ~running => events' = {}
    BY <2>2, <2>3 DEF EventsAfter, GameGone, TickInv
  <2>5. ASSUME running, ~overlooked' PROVE /\ spawns_cache' \in {0, game} /\ events' \subseteq {game}
                                           /\ last_game_info'.first \/ last_game_info'.spawns = game
    <3>1. ~overlooked
      BY <2>2, <2>5
    <3>2. CASE last_game_info.running
      <4>1. spawns_cache \in {0, game} /\ events \subseteq {game} /\ Spawns = game
        BY <2>5, <3>1, <3>2 DEF TickInv, Spawns
      <4> QED
        BY <2>1, <2>2, <2>3, <3>2, <4>1 DEF EventsAfter, GameGone
    <3>3. CASE ~last_game_info.running
      <4>1. events = {}
        BY <3>3 DEF TickInv
      <4>2. events' \subseteq {game}
        BY <2>2, <4>1 DEF EventsAfter
      <4>3. spawns_cache' \in {0, game}
        BY <2>2, <2>3, <2>5, <3>1, <3>3 DEF Extracts, Begins, TickInv, Spawns
      <4> QED
        BY <2>1, <3>3, <4>2, <4>3
    <3> QED
      BY <3>2, <3>3
  <2> QED
    BY <2>1, <2>2, <2>4, <2>5 DEF TickInv
<1>2. CASE StartGame
  BY <1>2 DEF StartGame, TickInv
<1>3. CASE SampleFails
  BY <1>3 DEF SampleFails, TickInv, Spawns
<1>4. CASE NewReader
  BY <1>4 DEF NewReader, TickInv
<1>5. CASE Tick \/ StopGame \/ Join \/ (\E s \in DOMAIN scores \cap Killers : Kill(s) \/ Die(s) \/ TakeOver(s))
           \/ UNCHANGED statsVars
  <2>1. UNCHANGED <<game, events, last_game_info, spawns_cache, overlooked>>
    BY <1>5 DEF Tick, StopGame, Join, Kill, Die, TakeOver, statsVars
  <2> QED
    BY <2>1 DEF TickInv
<1> QED
  BY <1>1, <1>2, <1>3, <1>4, <1>5 DEF StatsNext

(* tick_once, get_spawns and clear_caches: the events of a tick are those of *)
(* its own game, and so are its spawn points from the second tick of a game  *)
(* on, unless a whole stop of the engine fell between two ticks.             *)
THEOREM TicksAreOfOneGame == StatsSpec => []TicksOfOneGame
<1>1. StatsInit => TickInv
  BY DEF StatsInit, TickInv, NoTick
<1>2. TickInv => TicksOfOneGame
  BY DEF TickInv, TicksOfOneGame
<1> QED
  BY <1>1, <1>2, StatsTypeInit, StatsTypeStep, TickCarries, PTL DEF StatsSpec

-----------------------------------------------------------------------------
(* Scores *)

LEMMA GameInvStep ==
  ASSUME ScoresType, LoopType, GameInv, [StatsNext]_statsVars
  PROVE  GameInv'
<1>0. \A k \in Amounts : k \in Nat /\ k > 1
  BY StatsConstants DEF Amounts
<1>1. CASE StartGame
  <2> SUFFICES ASSUME NEW s \in DOMAIN scores'
               PROVE  /\ scores'[s].kills <= in_game'[s].kills
                      /\ \A k \in Amounts : k <= scores'[s].multikill => in_game'[s].multikills[k] > 0
    BY DEF GameInv
  <2>1. scores'[s] = Fresh /\ s \in 1..MaxSlots
    BY <1>1, NewGameScore
  <2>2. in_game'[s] = Unscored
    BY <1>1, <2>1 DEF StartGame
  <2> QED
    BY <1>0, <2>1, <2>2, FreshScore, UnscoredStats
<1>2. CASE StopGame
  <2>1. scores' = <<>>
    BY <1>2 DEF StopGame
  <2> QED
    BY <2>1 DEF GameInv
<1>3. CASE Join
  <2> SUFFICES ASSUME NEW s \in DOMAIN scores'
               PROVE  /\ scores'[s].kills <= in_game[s].kills
                      /\ \A k \in Amounts : k <= scores'[s].multikill => in_game[s].multikills[k] > 0
    BY <1>3 DEF GameInv, Join
  <2>1. (s \in DOMAIN scores /\ scores'[s] = scores[s]) \/ scores'[s] = Fresh
    BY <1>3, JoinScore
  <2>2. s \in 1..MaxSlots
    BY <1>3, JoinScore
  <2>3. in_game[s] \in Stats
    BY <2>2 DEF ScoresType
  <2> QED
    BY <1>0, <2>1, <2>3, FreshScore DEF GameInv, Stats
<1>4. ASSUME NEW t \in DOMAIN scores, Kill(t) PROVE GameInv'
  <2>1. PICK a \in Nat \ {0} :
           /\ a = scores[t].multikill + 1 \/ a = 1
           /\ DOMAIN scores' = DOMAIN scores
           /\ \A r \in DOMAIN scores : r # t => scores'[r] = scores[r]
           /\ scores[t] \in Score
           /\ scores'[t] = [kills |-> scores[t].kills + 1, multikill |-> a, last |-> game_time]
           /\ in_game' = [in_game EXCEPT ![t] = WithKill(in_game[t], a)]
           /\ t \in 1..MaxSlots
    BY <1>4, KillScore
  <2> SUFFICES ASSUME NEW s \in DOMAIN scores
               PROVE  /\ scores'[s].kills <= in_game'[s].kills
                      /\ \A k \in Amounts : k <= scores'[s].multikill => in_game'[s].multikills[k] > 0
    BY <2>1 DEF GameInv
  <2>2. CASE s # t
    BY <2>1, <2>2 DEF GameInv, ScoresType
  <2>3. CASE s = t
    <3>1. in_game[t] \in Stats /\ in_game'[t] = WithKill(in_game[t], a)
      BY <2>1 DEF ScoresType
    <3>2. /\ in_game'[t].kills = in_game[t].kills + 1
          /\ \A k \in Amounts : in_game'[t].multikills[k] = in_game[t].multikills[k] + (IF k = a THEN 1 ELSE 0)
      <4>1. a \in Nat
        OBVIOUS
      <4>2. /\ WithKill(in_game[t], a).kills = in_game[t].kills + 1
            /\ \A k \in Amounts : WithKill(in_game[t], a).multikills[k]
                                    = in_game[t].multikills[k] + (IF k = a THEN 1 ELSE 0)
        BY <3>1, <4>1, WithKillStats
      <4> QED
        BY <3>1, <4>2
    <3>3. /\ scores[t].kills <= in_game[t].kills
          /\ \A k \in Amounts : k <= scores[t].multikill => in_game[t].multikills[k] > 0
      BY DEF GameInv
    <3>4. /\ scores'[t].kills = scores[t].kills + 1 /\ scores'[t].multikill = a
          /\ scores[t].kills \in Nat /\ scores[t].multikill \in Nat /\ in_game[t].kills \in Nat
          /\ \A k \in Amounts : in_game[t].multikills[k] \in Nat
      BY <2>1, <3>1 DEF Score, Stats
    <3>5. ASSUME NEW k \in Amounts, k <= a PROVE k = a \/ k <= scores[t].multikill
      BY <1>0, <2>1, <3>4, <3>5
    <3> QED
      BY <1>0, <2>3, <3>2, <3>3, <3>4, <3>5
  <2> QED
    BY <2>2, <2>3
<1>5. ASSUME NEW t \in DOMAIN scores, Die(t) \/ TakeOver(t) PROVE GameInv'
  <2>1. in_game' = in_game
    BY <1>5 DEF Die, TakeOver
  <2>2. /\ DOMAIN scores' = DOMAIN scores
        /\ \A r \in DOMAIN scores : r # t => scores'[r] = scores[r]
        /\ scores'[t].multikill = 0 /\ scores'[t].kills \in {0, scores[t].kills}
    BY <1>5, EndScore
  <2> SUFFICES ASSUME NEW s \in DOMAIN scores
               PROVE  /\ scores'[s].kills <= in_game[s].kills
                      /\ \A k \in Amounts : k <= scores'[s].multikill => in_game[s].multikills[k] > 0
    BY <2>1, <2>2 DEF GameInv
  <2>3. in_game[s] \in Stats /\ in_game[s].kills \in Nat
    BY ScoreNumbers DEF ScoresType, Stats
  <2> QED
    BY <1>0, <2>2, <2>3 DEF GameInv
<1>6. CASE Tick \/ Sample \/ SampleFails \/ NewReader \/ UNCHANGED statsVars
  <2>1. UNCHANGED <<scores, in_game>>
    BY <1>6 DEF Tick, Sample, SampleFails, NewReader, statsVars
  <2> QED
    BY <2>1 DEF GameInv
<1> QED
  BY <1>1, <1>2, <1>3, <1>4, <1>5, <1>6 DEF StatsNext


-----------------------------------------------------------------------------
(* Statistics and what happened *)

LEMMA StatTypes ==
  ASSUME ScoresType, LoopType, NEW s \in 1..MaxSlots
  PROVE  /\ Of(s) \in Stats /\ made[s] \in Stats /\ in_game[s] \in Stats
         /\ KillsToCome(s) \in Nat
         /\ \A k \in Amounts : ToCome(s, k) \in {0, 1}
<1>1. Known(s) => Numbers(LastOf(s)) /\ Numbers(scores[s])
  BY LastEntry, ScoreNumbers DEF Known
<1>2. KillsToCome(s) \in Nat
  BY <1>1 DEF KillsToCome, KillsGained, Numbers
<1>3. Of(s) \in Stats
  BY UnscoredStats DEF Of, LoopType
<1> QED
  BY <1>2, <1>3 DEF ToCome, ScoresType, LoopType

(* Steps after which no more is to come than before.                         *)
LEMMA LessToCome ==
  ASSUME ScoresType, LoopType, MadeInv, UNCHANGED <<meta, made, mistaken, last_game_info>>,
         \A s \in 1..MaxSlots :
           /\ KillsToCome(s)' \in 0..KillsToCome(s)
           /\ \A k \in Amounts : ToCome(s, k)' \in 0..ToCome(s, k)
  PROVE  MadeInv'
<1> SUFFICES ASSUME DOMAIN meta # {}, NEW s \in 1..MaxSlots, s \notin mistaken PROVE MadeSafe(s)'
  BY DEF MadeInv
<1>1. Of(s)' = Of(s) /\ made'[s] = made[s]
  BY DEF Of
<1>2. MadeSafe(s)
  BY DEF MadeInv
<1>3. /\ Of(s).kills \in Nat /\ KillsToCome(s) \in Nat /\ made[s].kills \in Nat
      /\ \A k \in Amounts : Of(s).multikills[k] \in Nat /\ made[s].multikills[k] \in Nat /\ ToCome(s, k) \in Nat
  <2>1. Of(s) \in Stats /\ made[s] \in Stats /\ KillsToCome(s) \in Nat /\ \A k \in Amounts : ToCome(s, k) \in Nat
    BY StatTypes
  <2> QED
    BY <2>1 DEF Stats
<1>4. Of(s)'.kills + KillsToCome(s)' <= made'[s].kills
  BY <1>1, <1>2, <1>3 DEF MadeSafe
<1>5. ASSUME NEW k \in Amounts PROVE Of(s)'.multikills[k] + ToCome(s, k)' <= made'[s].multikills[k]
  BY <1>1, <1>2, <1>3 DEF MadeSafe
<1> QED
  BY <1>4, <1>5 DEF MadeSafe

(* A kill adds at most itself to what is to come.                            *)
LEMMA KillToCome ==
  ASSUME NEW old, Numbers(old), NEW before \in Score, NEW a \in Nat \ {0}, NEW t \in Nat,
         a = before.multikill + 1 \/ a = 1
  PROVE  LET after == [kills |-> before.kills + 1, multikill |-> a, last |-> t]
         IN  /\ KillsGained(old.kills, after.kills) <= KillsGained(old.kills, before.kills) + 1
             /\ \A k \in Amounts : k \in AmountsReached(old, after) => k = a \/ k \in AmountsReached(old, before)
<1> DEFINE after == [kills |-> before.kills + 1, multikill |-> a, last |-> t]
<1>1. KillsGained(old.kills, after.kills) <= KillsGained(old.kills, before.kills) + 1
  BY DEF KillsGained, Score, Numbers
<1>2. ASSUME NEW k \in Amounts, k \in AmountsReached(old, after), k # a
      PROVE  k \in AmountsReached(old, before)
  <2>1. k \in Nat /\ k > 1
    BY StatsConstants DEF Amounts
  <2>2. old.multikill < k /\ k <= a
    BY <1>2 DEF AmountsReached
  <2>3. old.multikill \in Nat /\ before.multikill \in Nat
    BY DEF Score, Numbers
  <2>4. old.multikill < k /\ k <= before.multikill
    BY <1>2, <2>1, <2>2, <2>3
  <2> QED
    BY <2>1, <2>3, <2>4 DEF AmountsReached
<1> QED
  BY <1>1, <1>2

(* Nothing is gained where nothing changes. *)
LEMMA NoGains ==
  ASSUME NEW old, NEW new, Numbers(old), Numbers(new),
         old.kills = new.kills, old.multikill = new.multikill, old.last = new.last
  PROVE  KillsGained(old.kills, new.kills) = 0 /\ AmountsReached(old, new) = {}
<1>1. Signed(new.last) \in Int
  BY SignedInt DEF Numbers
<1> QED
  BY <1>1 DEF KillsGained, AmountsReached, Numbers

(* Steps of Halo other than a kill.                                          *)
LEMMA QuietMade ==
  ASSUME ScoresType, LoopType, MadeInv, UNCHANGED <<meta, made, mistaken, last_game_info>>,
         \A s \in DOMAIN scores' :
           \/ s \in DOMAIN scores /\ scores'[s] = scores[s]
           \/ /\ scores'[s].multikill = 0
              /\ \/ scores'[s].kills = 0
                 \/ s \in DOMAIN scores /\ scores'[s].kills = scores[s].kills
  PROVE  MadeInv'
<1> SUFFICES ASSUME NEW s \in 1..MaxSlots
             PROVE  /\ KillsToCome(s)' \in 0..KillsToCome(s)
                    /\ \A k \in Amounts : ToCome(s, k)' \in 0..ToCome(s, k)
  BY LessToCome
<1>1. KillsToCome(s) \in Nat /\ \A k \in Amounts : ToCome(s, k) \in {0, 1}
  BY StatTypes
<1>2. Sampled' = Sampled /\ LastOf(s)' = LastOf(s)
  BY DEF Sampled, LastOf
<1>3. Known(s)' <=> s \in Indices(Sampled) /\ s \in DOMAIN scores'
  BY <1>2 DEF Known, Indices
<1>4. KillsToCome(s)' = IF Known(s)' THEN KillsGained(LastOf(s).kills, scores'[s].kills) ELSE 0
  BY <1>2 DEF KillsToCome, KillsGained
<1>5. \A k \in Amounts : ToCome(s, k)' = IF Known(s)' /\ k \in AmountsReached(LastOf(s), scores'[s]) THEN 1 ELSE 0
  BY <1>2 DEF ToCome, AmountsReached, Signed
<1>6. CASE ~Known(s)'
  BY <1>1, <1>4, <1>5, <1>6
<1>7. CASE Known(s)' /\ s \in DOMAIN scores /\ scores'[s] = scores[s]
  <2>1. Known(s) /\ KillsToCome(s)' = KillsToCome(s)
    BY <1>3, <1>4, <1>7 DEF Known, KillsToCome
  <2>2. \A k \in Amounts : ToCome(s, k)' = ToCome(s, k)
    BY <1>5, <1>7, <2>1 DEF ToCome
  <2> QED
    BY <1>1, <2>1, <2>2
<1>8. CASE /\ Known(s)' /\ scores'[s].multikill = 0
           /\ scores'[s].kills = 0 \/ (s \in DOMAIN scores /\ scores'[s].kills = scores[s].kills)
  <2>1. Numbers(LastOf(s))
    BY <1>3, <1>8, LastEntry
  <2>2. \A k \in Amounts : ToCome(s, k)' = 0
    BY <1>5, <1>8, <2>1 DEF AmountsReached, Numbers
  <2>3. KillsToCome(s)' \in 0..KillsToCome(s)
    <3>1. CASE scores'[s].kills = 0
      BY <1>1, <1>4, <2>1, <3>1 DEF KillsGained, Numbers
    <3>2. CASE s \in DOMAIN scores /\ scores'[s].kills = scores[s].kills
      BY <1>1, <1>3, <1>4, <1>8, <3>2 DEF Known, KillsToCome
    <3> QED
      BY <1>8, <3>1, <3>2
  <2> QED
    BY <1>1, <2>2, <2>3
<1> QED
  BY <1>3, <1>6, <1>7, <1>8

LEMMA KillMade ==
  ASSUME ScoresType, LoopType, MadeInv, NEW t \in DOMAIN scores, Kill(t)
  PROVE  MadeInv'
<1>1. PICK a \in Nat \ {0} :
         /\ a = scores[t].multikill + 1 \/ a = 1
         /\ DOMAIN scores' = DOMAIN scores
         /\ \A r \in DOMAIN scores : r # t => scores'[r] = scores[r]
         /\ scores[t] \in Score
         /\ scores'[t] = [kills |-> scores[t].kills + 1, multikill |-> a, last |-> game_time]
         /\ made' = [made EXCEPT ![t] = WithKill(made[t], a)]
         /\ t \in 1..MaxSlots
  BY KillScore
<1> SUFFICES ASSUME DOMAIN meta # {}, NEW s \in 1..MaxSlots, s \notin mistaken PROVE MadeSafe(s)'
  BY DEF MadeInv, Kill
<1>2. MadeSafe(s) /\ UNCHANGED <<meta, last_game_info>> /\ game_time \in Nat
  BY DEF MadeInv, Kill, ScoresType
<1>3. Of(s)' = Of(s) /\ LastOf(s)' = LastOf(s) /\ Known(s)' = Known(s)
  BY <1>1, <1>2 DEF Of, Sampled, LastOf, Known, Indices
<1>4. /\ Of(s) \in Stats /\ made[s] \in Stats /\ KillsToCome(s) \in Nat
      /\ \A k \in Amounts : ToCome(s, k) \in {0, 1}
  BY StatTypes
<1>5. CASE s # t
  <2>1. made'[s] = made[s]
    BY <1>1, <1>5 DEF LoopType
  <2>2. Known(s) => scores'[s] = scores[s]
    BY <1>1, <1>5 DEF Known
  <2>3. KillsToCome(s)' = KillsToCome(s)
    BY <1>3, <2>2 DEF KillsToCome, KillsGained
  <2>4. \A k \in Amounts : ToCome(s, k)' = ToCome(s, k)
    BY <1>3, <2>2 DEF ToCome, AmountsReached, Signed
  <2> QED
    BY <1>2, <1>3, <2>1, <2>3, <2>4 DEF MadeSafe
<1>6. CASE s = t
  <2>1. made'[s] = WithKill(made[s], a) /\ a \in Nat
    BY <1>1, <1>6 DEF LoopType
  <2>2. /\ WithKill(made[s], a).kills = made[s].kills + 1
        /\ \A k \in Amounts : WithKill(made[s], a).multikills[k] = made[s].multikills[k] + (IF k = a THEN 1 ELSE 0)
    BY <1>4, <2>1, WithKillStats
  <2>3. Known(s) => Numbers(LastOf(s))
    BY LastEntry DEF Known
  <2>4. ASSUME Known(s)
        PROVE  /\ KillsGained(LastOf(s).kills, scores'[s].kills) <= KillsGained(LastOf(s).kills, scores[s].kills) + 1
               /\ \A k \in Amounts : k \in AmountsReached(LastOf(s), scores'[s])
                                       => k = a \/ k \in AmountsReached(LastOf(s), scores[s])
    BY <1>1, <1>2, <1>6, <2>3, <2>4, KillToCome
  <2>5. KillsToCome(s)' <= KillsToCome(s) + 1 /\ KillsToCome(s)' \in Nat
    <3>1. KillsToCome(s)' = IF Known(s) THEN KillsGained(LastOf(s).kills, scores'[s].kills) ELSE 0
      BY <1>3 DEF KillsToCome, KillsGained
    <3>2. Known(s) => KillsGained(LastOf(s).kills, scores'[s].kills) \in Nat
      BY <1>1, <1>6, <2>3 DEF KillsGained, Score, Numbers
    <3>3. CASE Known(s)
      BY <2>4, <3>1, <3>2, <3>3 DEF KillsToCome
    <3> QED
      BY <1>4, <3>1, <3>3
  <2>6. ASSUME NEW k \in Amounts PROVE ToCome(s, k)' <= ToCome(s, k) + (IF k = a THEN 1 ELSE 0) /\ ToCome(s, k)' \in {0, 1}
    <3>1. ToCome(s, k)' = IF Known(s) /\ k \in AmountsReached(LastOf(s), scores'[s]) THEN 1 ELSE 0
      BY <1>3 DEF ToCome, AmountsReached, Signed
    <3> QED
      BY <2>4, <3>1 DEF ToCome
  <2>7. Of(s)'.kills + KillsToCome(s)' <= made'[s].kills
    BY <1>2, <1>3, <1>4, <2>1, <2>2, <2>5 DEF MadeSafe, Stats
  <2>8. ASSUME NEW k \in Amounts PROVE Of(s)'.multikills[k] + ToCome(s, k)' <= made'[s].multikills[k]
    <3>1. Of(s).multikills[k] \in Nat /\ made[s].multikills[k] \in Nat
      BY <1>4 DEF Stats
    <3>2. Of(s).multikills[k] + ToCome(s, k) <= made[s].multikills[k]
      BY <1>2 DEF MadeSafe
    <3>3. made'[s].multikills[k] = made[s].multikills[k] + (IF k = a THEN 1 ELSE 0)
      BY <2>1, <2>2
    <3> QED
      BY <1>3, <1>4, <2>6, <3>1, <3>2, <3>3
  <2> QED
    BY <2>7, <2>8 DEF MadeSafe
<1> QED
  BY <1>5, <1>6


(* What a sample leaves of the last tick.                                    *)
LEMMA Afterwards ==
  ASSUME ScoresType, LoopType, NEW listed \in Listings, Sampling(listed)
  PROVE  /\ Sampled' = New(listed) /\ Indices(Sampled)' = Indices(New(listed)) /\ UNCHANGED scores
         /\ \A s \in Indices(New(listed)) :
              /\ LastOf(s)' = Entry(s) /\ s \in DOMAIN scores /\ s \in 1..MaxSlots
              /\ Numbers(scores[s]) /\ Numbers(Entry(s))
<1>1. Sampled' = New(listed) /\ UNCHANGED scores
  BY TickSent DEF Sampled, Sampling
<1>2. Indices(Sampled)' = Indices(New(listed))
  BY <1>1 DEF Indices
<1>3. \A s : LastOf(s)' = New(listed)[Place(New(listed), s)]
  BY <1>1 DEF LastOf, Place
<1> QED
  BY <1>1, <1>2, <1>3, ListingType, ScoreNumbers

(* A slot that is compared with itself.                                      *)
LEMMA ComparedWith ==
  ASSUME ScoresType, LoopType, NEW listed \in Listings, Counts(listed),
         NEW s \in Indices(New(listed)), s \notin Mixed(listed)
  PROVE  s \in Indices(Sampled) /\ Sampled[Place(New(listed), s)] = LastOf(s) /\ Known(s)
<1> DEFINE p == Place(New(listed), s)
<1>1. p \in 1..Len(New(listed)) /\ s \in DOMAIN scores
  BY PlaceOf, ListingType
<1>2. Sampled \in Seq(Listed) /\ Len(Sampled) = Len(New(listed)) /\ Apart(Sampled)
  BY DEF Counts, LoopType, StatTick, Sampled
<1>3. p \in DOMAIN Sampled
  BY <1>1, <1>2
<1>4. Sampled[p].player_index = s
  BY DEF Mixed
<1>5. s \in Indices(Sampled)
  BY <1>3, <1>4 DEF Indices
<1>6. p = Place(Sampled, s)
  BY <1>2, <1>3, <1>4, <1>5, PlaceOf
<1> QED
  BY <1>1, <1>5, <1>6 DEF LastOf, Known

(* What is counted is what was to come.                                      *)
LEMMA CountedGains ==
  ASSUME ScoresType, LoopType, NEW s, Known(s), NEW m \in Stats
  PROVE  /\ WithGains(m, LastOf(s), Entry(s)) \in Stats
         /\ WithGains(m, LastOf(s), Entry(s)).kills = m.kills + KillsToCome(s)
         /\ \A k \in Amounts : WithGains(m, LastOf(s), Entry(s)).multikills[k]
                                 = m.multikills[k] + ToCome(s, k)
<1>1. /\ Numbers(LastOf(s)) /\ Numbers(Entry(s)) /\ Entry(s).kills = scores[s].kills
      /\ Entry(s).multikill = scores[s].multikill /\ Entry(s).last = scores[s].last
  BY LastEntry, ScoreNumbers DEF Known
<1>2. AmountsReached(LastOf(s), Entry(s)) = AmountsReached(LastOf(s), scores[s])
  BY <1>1 DEF AmountsReached
<1>3. KillsToCome(s) = KillsGained(LastOf(s).kills, Entry(s).kills)
  BY <1>1 DEF KillsToCome
<1>4. \A k \in Amounts : ToCome(s, k) = IF k \in AmountsReached(LastOf(s), Entry(s)) THEN 1 ELSE 0
  BY <1>2 DEF ToCome
<1> QED
  BY <1>1, <1>3, <1>4, Gains

LEMMA SampleMade ==
  ASSUME ScoresType, LoopType, GameInv, MadeInv, Sample
  PROVE  MadeInv'
<1> PICK listed \in Listings : Sampling(listed)
  BY SampleIs
<1> SUFFICES ASSUME DOMAIN meta' # {}, NEW s \in 1..MaxSlots, s \notin mistaken' PROVE MadeSafe(s)'
  BY DEF MadeInv
<1>1. /\ mistaken' = (IF Extracts /\ Anew THEN {} ELSE mistaken) \cup (IF Extracts THEN Mixed(listed) ELSE {})
      /\ made' = IF Extracts /\ Anew THEN in_game ELSE made
  BY DEF Sampling
<1>2. KillsToCome(s)' = 0 /\ \A k \in Amounts : ToCome(s, k)' = 0
  <2>1. CASE s \in Indices(New(listed))
    <3>1. /\ LastOf(s)' = Entry(s) /\ scores' = scores /\ Numbers(Entry(s)) /\ Numbers(scores[s])
          /\ Entry(s).kills = scores[s].kills /\ Entry(s).multikill = scores[s].multikill
          /\ Entry(s).last = scores[s].last
      BY <2>1, Afterwards, ScoreNumbers
    <3>2. KillsGained(Entry(s).kills, scores[s].kills) = 0 /\ AmountsReached(Entry(s), scores[s]) = {}
      BY <3>1, NoGains
    <3>3. KillsToCome(s)' = 0
      BY <3>1, <3>2 DEF KillsToCome, KillsGained
    <3>4. \A k \in Amounts : ToCome(s, k)' = 0
      BY <3>1, <3>2 DEF ToCome, AmountsReached, Signed
    <3> QED
      BY <3>3, <3>4
  <2>2. CASE s \notin Indices(New(listed))
    <3>1. ~Known(s)'
      BY <2>2, Afterwards DEF Known
    <3> QED
      BY <3>1 DEF KillsToCome, ToCome
  <2> QED
    BY <2>1, <2>2
<1>3. /\ Of(s) \in Stats /\ made[s] \in Stats /\ in_game[s] \in Stats /\ KillsToCome(s) \in Nat
      /\ \A k \in Amounts : ToCome(s, k) \in {0, 1}
  BY StatTypes
<1>4. ASSUME Of(s)' \in Stats, Of(s)'.kills <= made'[s].kills,
             \A k \in Amounts : Of(s)'.multikills[k] <= made'[s].multikills[k]
      PROVE  MadeSafe(s)'
  <2>1. Of(s)'.kills \in Nat /\ \A k \in Amounts : Of(s)'.multikills[k] \in Nat
    BY <1>4 DEF Stats
  <2> QED
    BY <1>2, <1>4, <2>1 DEF MadeSafe
<1>5. ASSUME DOMAIN meta # {}, ~(Extracts /\ Anew)
      PROVE  /\ Of(s).kills + KillsToCome(s) <= made'[s].kills
             /\ \A k \in Amounts : Of(s).multikills[k] + ToCome(s, k) <= made'[s].multikills[k]
  <2>1. made' = made /\ MadeSafe(s)
    BY <1>1, <1>5 DEF MadeInv
  <2> QED
    BY <2>1 DEF MadeSafe
<1>6. CASE ~Extracts
  <2>1. Of(s)' = Of(s) /\ DOMAIN meta # {}
    BY <1>6 DEF Of, Sampling
  <2>2. Of(s).kills \in Nat /\ made'[s] = made[s] /\ made[s].kills \in Nat
        /\ \A k \in Amounts : Of(s).multikills[k] \in Nat /\ made[s].multikills[k] \in Nat
    BY <1>1, <1>3, <1>6 DEF Stats
  <2>3. Of(s)'.kills <= made'[s].kills
    BY <1>3, <1>5, <1>6, <2>1, <2>2
  <2>4. ASSUME NEW k \in Amounts PROVE Of(s)'.multikills[k] <= made'[s].multikills[k]
    BY <1>3, <1>5, <1>6, <2>1, <2>2
  <2> QED
    BY <1>3, <1>4, <2>1, <2>3, <2>4
<1>7. CASE Extracts
  <2>1. Before(s) \in Stats
    BY <1>3, UnscoredStats DEF Before
  <2>2. \/ Of(s)' = Before(s)
        \/ Known(s) /\ Of(s)' = WithGains(Before(s), LastOf(s), Entry(s))
    <3>1. /\ DOMAIN meta' = IF Anew THEN Indices(New(listed)) ELSE DOMAIN meta \cup Indices(New(listed))
          /\ \A r \in DOMAIN meta' :
               meta'[r] = IF Counts(listed) /\ r \in Indices(New(listed))
                           THEN WithGains(Before(r), Sampled[Place(New(listed), r)], Entry(r)) ELSE Before(r)
      BY <1>7, MetaSlots
    <3>2. Of(s)' = IF s \in DOMAIN meta' THEN meta'[s] ELSE Unscored
      BY DEF Of
    <3>3. CASE s \in DOMAIN meta' /\ Counts(listed) /\ s \in Indices(New(listed))
      <4>1. s \notin Mixed(listed)
        BY <1>1, <1>7
      <4>2. Known(s) /\ Sampled[Place(New(listed), s)] = LastOf(s)
        BY <3>3, <4>1, ComparedWith
      <4> QED
        BY <3>1, <3>2, <3>3, <4>2
    <3>4. CASE s \in DOMAIN meta' /\ ~(Counts(listed) /\ s \in Indices(New(listed)))
      BY <3>1, <3>2, <3>4
    <3>5. CASE s \notin DOMAIN meta'
      <4>1. ~Anew => s \notin DOMAIN meta
        BY <3>1, <3>5
      <4> QED
        BY <3>2, <3>5, <4>1 DEF Before, Of
    <3> QED
      BY <3>3, <3>4, <3>5
  <2>3. Known(s) =>
          /\ WithGains(Before(s), LastOf(s), Entry(s)) \in Stats
          /\ WithGains(Before(s), LastOf(s), Entry(s)).kills = Before(s).kills + KillsToCome(s)
          /\ \A k \in Amounts : WithGains(Before(s), LastOf(s), Entry(s)).multikills[k]
                                  = Before(s).multikills[k] + ToCome(s, k)
    BY <2>1, CountedGains
  <2>4. /\ Of(s)' \in Stats /\ Of(s)'.kills <= Before(s).kills + KillsToCome(s)
        /\ \A k \in Amounts : Of(s)'.multikills[k] <= Before(s).multikills[k] + ToCome(s, k)
    <3>1. Before(s).kills \in Nat /\ \A k \in Amounts : Before(s).multikills[k] \in Nat
      BY <2>1 DEF Stats
    <3> QED
      BY <1>3, <2>1, <2>2, <2>3, <3>1
  <2>5. made'[s] \in Stats
    BY <1>1, <1>3
  <2>6. /\ Before(s).kills + KillsToCome(s) <= made'[s].kills
        /\ \A k \in Amounts : Before(s).multikills[k] + ToCome(s, k) <= made'[s].multikills[k]
    <3>1. CASE Anew
      <4>1. made'[s] = in_game[s] /\ Before(s) = Unscored
        BY <1>1, <1>7, <3>1 DEF Before
      <4>2. Known(s) => Numbers(LastOf(s)) /\ Numbers(scores[s]) /\ s \in DOMAIN scores
        BY LastEntry, ScoreNumbers DEF Known
      <4>3. KillsToCome(s) <= in_game[s].kills
        BY <1>3, <4>2 DEF KillsToCome, KillsGained, GameInv, Numbers, Stats
      <4>4. ASSUME NEW k \in Amounts PROVE ToCome(s, k) <= in_game[s].multikills[k]
        <5>1. k \in Nat /\ in_game[s].multikills[k] \in Nat
          BY <1>3, StatsConstants DEF Amounts, Stats
        <5>2. Known(s) /\ k \in AmountsReached(LastOf(s), scores[s]) => k <= scores[s].multikill
          BY <4>2, <5>1 DEF AmountsReached, Numbers
        <5>3. Known(s) /\ k \in AmountsReached(LastOf(s), scores[s]) => in_game[s].multikills[k] > 0
          BY <4>2, <5>2 DEF GameInv
        <5> QED
          BY <5>1, <5>3 DEF ToCome
      <4> QED
        BY <1>3, <4>1, <4>3, <4>4, UnscoredStats
    <3>2. CASE ~Anew
      <4>1. DOMAIN meta # {}
        BY <3>2 DEF Anew
      <4> QED
        BY <1>5, <3>2, <4>1 DEF Before
    <3> QED
      BY <3>1, <3>2
  <2>7. /\ Before(s).kills \in Nat /\ Of(s)'.kills \in Nat /\ made'[s].kills \in Nat
        /\ \A k \in Amounts : Before(s).multikills[k] \in Nat /\ Of(s)'.multikills[k] \in Nat /\ made'[s].multikills[k] \in Nat
    BY <2>1, <2>4, <2>5 DEF Stats
  <2>8. Of(s)'.kills <= made'[s].kills
    BY <1>3, <2>4, <2>6, <2>7
  <2>9. ASSUME NEW k \in Amounts PROVE Of(s)'.multikills[k] <= made'[s].multikills[k]
    <3>1. ToCome(s, k) \in Nat
      BY <1>3
    <3> QED
      BY <2>4, <2>6, <2>7, <3>1
  <2> QED
    BY <1>4, <2>4, <2>8, <2>9
<1> QED
  BY <1>6, <1>7


-----------------------------------------------------------------------------
(* A steady list of players *)

(* Lists of the same players in the same order.                              *)
LEMMA SameOrder ==
  ASSUME NEW q, NEW r, Order(q) = Order(r), Apart(r)
  PROVE  /\ Indices(q) = Indices(r)
         /\ \A s \in Indices(r) : Place(q, s) = Place(r, s)
<1>1. DOMAIN q = DOMAIN r
  BY DEF Order
<1>2. \A p \in DOMAIN r : q[p].player_index = r[p].player_index
  <2> SUFFICES ASSUME NEW p \in DOMAIN r PROVE q[p].player_index = r[p].player_index
    OBVIOUS
  <2>1. Order(q)[p] = Order(r)[p]
    OBVIOUS
  <2> QED
    BY <1>1, <2>1 DEF Order
<1>3. Indices(q) = Indices(r)
  BY <1>1, <1>2 DEF Indices
<1>4. ASSUME NEW s \in Indices(r) PROVE Place(q, s) = Place(r, s)
  <2>1. Place(q, s) \in DOMAIN r /\ r[Place(q, s)].player_index = s
    BY <1>1, <1>2, <1>3, PlaceOf
  <2> QED
    BY <2>1, PlaceOf
<1> QED
  BY <1>3, <1>4

LEMMA SampleSteady ==
  ASSUME ScoresType, LoopType, SteadyInv, NEW listed \in Listings, Sampling(listed),
         steady', DOMAIN meta' # {}
  PROVE  /\ DOMAIN meta' = Indices(New(listed)) /\ DOMAIN base' = Indices(New(listed))
         /\ \A s \in DOMAIN meta' : meta'[s].kills = Entry(s).kills - base'[s]
<1> DEFINE new == New(listed)
<1>0. /\ made' = IF Extracts /\ Anew THEN in_game ELSE made
      /\ steady' = IF Extracts /\ Anew THEN Counts(listed) => Same(listed) ELSE steady /\ Same(listed)
      /\ base' = IF Extracts /\ Anew THEN KillsOf(IF Counts(listed) THEN Sampled ELSE new)
                 ELSE IF steady' THEN base ELSE <<>>
  BY DEF Sampling
<1>1. Extracts
  <2>1. ~NoTick.running
    BY DEF NoTick
  <2> QED
    BY <1>0, <2>1 DEF Extracts, Same, Counts
<1>2. /\ DOMAIN meta' = IF Anew THEN Indices(new) ELSE DOMAIN meta \cup Indices(new)
      /\ \A s \in DOMAIN meta' :
           meta'[s] = IF Counts(listed) /\ s \in Indices(new)
                        THEN WithGains(Before(s), Sampled[Place(new, s)], Entry(s)) ELSE Before(s)
  BY <1>1, MetaSlots
<1>3. Counts(listed) =>
        /\ Same(listed) /\ Indices(Sampled) = Indices(new)
        /\ \A s \in Indices(new) : Sampled[Place(new, s)] = LastOf(s) /\ LastOf(s).kills <= Entry(s).kills
  <2> SUFFICES ASSUME Counts(listed)
               PROVE  /\ Same(listed) /\ Indices(Sampled) = Indices(new)
                      /\ \A s \in Indices(new) : Sampled[Place(new, s)] = LastOf(s)
                                                  /\ LastOf(s).kills <= Entry(s).kills
    OBVIOUS
  <2>1. Same(listed)
    BY <1>0
  <2>2. /\ Indices(Sampled) = Indices(new)
        /\ \A s \in Indices(new) : Place(Sampled, s) = Place(new, s)
    BY <2>1, SameOrder, ListingType DEF Same
  <2>3. \A s \in Indices(new) : LastOf(s).kills <= scores[s].kills
    BY <2>1, <2>2 DEF SteadyInv, Same, Counts
  <2>4. \A s \in Indices(new) : Entry(s).kills = scores[s].kills
    BY ListingType, ScoreNumbers
  <2> QED
    BY <2>1, <2>2, <2>3, <2>4 DEF LastOf
<1>4. ASSUME NEW s \in Indices(new)
      PROVE  Numbers(Entry(s)) /\ Entry(s).kills \in Nat /\ new[Place(new, s)] = Entry(s)
  BY ListingType, ScoreNumbers DEF Numbers
<1>5. ASSUME Counts(listed), NEW s \in Indices(new), Before(s) \in Stats
      PROVE  /\ WithGains(Before(s), LastOf(s), Entry(s)).kills
                  = Before(s).kills + (Entry(s).kills - LastOf(s).kills)
             /\ LastOf(s).kills \in Nat /\ Before(s).kills \in Nat
  <2>1. Numbers(LastOf(s)) /\ Numbers(Entry(s)) /\ LastOf(s).kills <= Entry(s).kills
    BY <1>3, <1>4, <1>5, LastEntry
  <2>2. WithGains(Before(s), LastOf(s), Entry(s)).kills
          = Before(s).kills + KillsGained(LastOf(s).kills, Entry(s).kills)
    BY <1>5, <2>1, Gains
  <2>3. KillsGained(LastOf(s).kills, Entry(s).kills) = Entry(s).kills - LastOf(s).kills
    BY <2>1 DEF KillsGained, Numbers
  <2> QED
    BY <1>5, <2>1, <2>2, <2>3 DEF Numbers, Stats
<1> HIDE DEF new
<1>6. CASE Anew
  <2>1. DOMAIN meta' = Indices(new) /\ base' = KillsOf(IF Counts(listed) THEN Sampled ELSE new)
    BY <1>0, <1>1, <1>2, <1>6
  <2>2. \A s : Before(s) = Unscored
    BY <1>6 DEF Before
  <2>3. CASE Counts(listed)
    <3>1. DOMAIN base' = Indices(new) /\ \A s \in Indices(new) : base'[s] = LastOf(s).kills
      BY <1>3, <2>1, <2>3 DEF KillsOf, LastOf
    <3>2. ASSUME NEW s \in DOMAIN meta' PROVE meta'[s].kills = Entry(s).kills - base'[s]
      <4>1. meta'[s] = WithGains(Before(s), LastOf(s), Entry(s)) /\ base'[s] = LastOf(s).kills
        BY <1>2, <1>3, <2>1, <2>3, <3>1
      <4>2. Before(s) \in Stats /\ Before(s).kills = 0
        BY <2>2, UnscoredStats
      <4>3. LastOf(s).kills \in Nat /\ Entry(s).kills \in Nat
        BY <1>4, <1>5, <2>1, <2>3, <4>2
      <4> QED
        BY <1>5, <2>1, <2>3, <4>1, <4>2, <4>3
    <3> QED
      BY <2>1, <3>1, <3>2 DEF new
  <2>4. CASE ~Counts(listed)
    <3>1. DOMAIN base' = Indices(new) /\ \A s \in Indices(new) : base'[s] = Entry(s).kills
      BY <1>4, <2>1, <2>4 DEF KillsOf
    <3>2. ASSUME NEW s \in DOMAIN meta' PROVE meta'[s].kills = Entry(s).kills - base'[s]
      BY <1>2, <1>4, <2>1, <2>2, <2>4, <3>1, UnscoredStats
    <3> QED
      BY <2>1, <3>1, <3>2 DEF new
  <2> QED
    BY <2>3, <2>4
<1>7. CASE ~Anew
  <2>1. steady /\ Same(listed) /\ Counts(listed) /\ base' = base /\ DOMAIN meta # {}
    BY <1>0, <1>7 DEF Same, Anew
  <2>2. /\ DOMAIN meta = Indices(Sampled) /\ DOMAIN base = Indices(Sampled)
        /\ \A s \in DOMAIN meta : meta[s].kills = LastOf(s).kills - base[s]
    BY <2>1 DEF SteadyInv
  <2>3. DOMAIN meta' = Indices(new) /\ DOMAIN meta = Indices(new) /\ DOMAIN base = Indices(new)
    BY <1>2, <1>3, <1>7, <2>1, <2>2
  <2>4. ASSUME NEW s \in DOMAIN meta' PROVE meta'[s].kills = Entry(s).kills - base'[s]
    <3>1. s \in Indices(new) /\ s \in DOMAIN meta /\ meta'[s] = WithGains(Before(s), LastOf(s), Entry(s))
      BY <1>2, <1>3, <2>1, <2>3
    <3>2. Before(s) = meta[s] /\ meta[s] \in Stats /\ base[s] \in Nat
      BY <1>7, <2>3, <3>1 DEF Before, Of, LoopType
    <3>3. meta'[s].kills = meta[s].kills + (Entry(s).kills - LastOf(s).kills)
          /\ LastOf(s).kills \in Nat /\ meta[s].kills \in Nat /\ Entry(s).kills \in Nat
      BY <1>4, <1>5, <2>1, <3>1, <3>2
    <3>4. meta[s].kills = LastOf(s).kills - base[s]
      BY <2>2, <3>1
    <3> QED
      BY <2>1, <3>2, <3>3, <3>4
  <2> QED
    BY <2>1, <2>3, <2>4 DEF new
<1> QED
  BY <1>6, <1>7

LEMMA SteadyStep ==
  ASSUME ScoresType, LoopType, SteadyInv, [StatsNext]_statsVars
  PROVE  SteadyInv'
<1>0. ASSUME UNCHANGED <<last_game_info, meta, base, steady>>,
             last_game_info.running /\ running' /\ last_game_info.game = game' /\ ~left' =>
               \A s \in Indices(Sampled) : s \in DOMAIN scores' /\ LastOf(s).kills <= scores'[s].kills
      PROVE  SteadyInv'
  <2>1. Sampled' = Sampled /\ Indices(Sampled)' = Indices(Sampled) /\ \A s : LastOf(s)' = LastOf(s)
    BY <1>0 DEF Sampled, Indices, LastOf
  <2> QED
    BY <1>0, <2>1 DEF SteadyInv
<1>1. game \in Nat /\ last_game_info.game \in Nat /\ last_game_info.game <= game
  BY DEF ScoresType, LoopType, StatTick
<1>2. CASE Sample
  <2>0. PICK listed \in Listings : Sampling(listed)
    BY <1>2, SampleIs
  <2>1. /\ Indices(Sampled)' = Indices(New(listed)) /\ scores' = scores
        /\ \A s \in Indices(New(listed)) :
             LastOf(s)' = Entry(s) /\ s \in DOMAIN scores /\ Entry(s).kills <= scores[s].kills
    <3>1. \A s \in DOMAIN scores : Entry(s).kills = scores[s].kills /\ scores[s].kills \in Nat
      BY ScoreNumbers DEF Numbers
    <3> QED
      BY <2>0, <3>1, Afterwards
  <2>2. steady' /\ DOMAIN meta' # {} =>
          /\ DOMAIN meta' = Indices(New(listed)) /\ DOMAIN base' = Indices(New(listed))
          /\ \A s \in DOMAIN meta' : meta'[s].kills = Entry(s).kills - base'[s]
    BY <2>0, SampleSteady
  <2> QED
    BY <2>1, <2>2 DEF SteadyInv
<1>3. CASE StartGame
  <2>1. UNCHANGED <<last_game_info, meta, base, steady>> /\ last_game_info.game # game'
    BY <1>1, <1>3 DEF StartGame
  <2> QED
    BY <1>0, <2>1
<1>4. CASE StopGame
  <2>1. UNCHANGED <<last_game_info, meta, base, steady>> /\ ~running'
    BY <1>4 DEF StopGame
  <2> QED
    BY <1>0, <2>1
<1>5. CASE Join
  <2>1. /\ DOMAIN scores \subseteq DOMAIN scores'
        /\ \A s \in DOMAIN scores : scores'[s] = scores[s]
    BY <1>5, JoinScore
  <2>2. UNCHANGED <<last_game_info, meta, base, steady, game, running, left>>
    BY <1>5 DEF Join
  <2> QED
    BY <1>0, <2>1, <2>2 DEF SteadyInv
<1>6. ASSUME NEW t \in DOMAIN scores, Kill(t) \/ Die(t) PROVE SteadyInv'
  <2>1. /\ DOMAIN scores' = DOMAIN scores
        /\ \A r \in DOMAIN scores : r # t => scores'[r] = scores[r]
        /\ scores[t].kills \in Nat /\ scores'[t].kills \in {scores[t].kills, scores[t].kills + 1}
    <3>1. scores[t].kills \in Nat
      BY ScoreNumbers DEF Numbers
    <3>2. CASE Kill(t)
      <4>1. PICK a \in Nat \ {0} :
              /\ DOMAIN scores' = DOMAIN scores
              /\ \A r \in DOMAIN scores : r # t => scores'[r] = scores[r]
              /\ scores'[t] = [kills |-> scores[t].kills + 1, multikill |-> a, last |-> game_time]
        BY <3>2, KillScore
      <4> QED
        BY <3>1, <4>1
    <3>3. CASE Die(t)
      <4>1. scores'[t] = [scores[t] EXCEPT !.multikill = 0] /\ scores[t] \in Score
        BY <3>3, ScoreNumbers DEF Die, ScoresType
      <4>2. scores'[t].kills = scores[t].kills
        BY <4>1 DEF Score
      <4> QED
        BY <3>1, <3>3, <4>2, EndScore
    <3> QED
      BY <1>6, <3>2, <3>3
  <2>2. UNCHANGED <<last_game_info, meta, base, steady, game, running, left>>
    BY <1>6 DEF Kill, Die
  <2>3. ASSUME last_game_info.running, running, last_game_info.game = game, ~left,
               NEW s \in Indices(Sampled)
        PROVE  s \in DOMAIN scores' /\ LastOf(s).kills <= scores'[s].kills
    <3>1. s \in DOMAIN scores /\ LastOf(s).kills <= scores[s].kills
      BY <2>3 DEF SteadyInv
    <3>2. LastOf(s).kills \in Nat
      BY LastEntry DEF Numbers
    <3> QED
      BY <2>1, <3>1, <3>2
  <2> QED
    BY <1>0, <2>2, <2>3
<1>7. ASSUME NEW t \in DOMAIN scores, TakeOver(t) PROVE SteadyInv'
  <2>1. UNCHANGED <<last_game_info, meta, base, steady>> /\ left'
    BY <1>7 DEF TakeOver
  <2> QED
    BY <1>0, <2>1
<1>8. CASE Tick \/ SampleFails \/ UNCHANGED statsVars
  <2>1. UNCHANGED <<last_game_info, meta, base, steady, game, running, scores, left>>
    BY <1>8 DEF Tick, SampleFails, statsVars
  <2> QED
    BY <1>0, <2>1 DEF SteadyInv
<1>9. CASE NewReader
  <2>1. DOMAIN meta' = {} /\ UNCHANGED <<last_game_info, game, running, scores, left>>
    BY <1>9, NoSlots DEF NewReader
  <2>2. Sampled' = Sampled /\ Indices(Sampled)' = Indices(Sampled) /\ \A s : LastOf(s)' = LastOf(s)
    BY <2>1 DEF Sampled, Indices, LastOf
  <2> QED
    BY <2>1, <2>2 DEF SteadyInv
<1> QED
  BY <1>2, <1>3, <1>4, <1>5, <1>6, <1>7, <1>8, <1>9 DEF StatsNext

-----------------------------------------------------------------------------
LEMMA StatsInvInit == StatsInit => StatsInv
<1> SUFFICES ASSUME StatsInit PROVE StatsInv
  OBVIOUS
<1>1. ScoresType /\ LoopType
  BY StatsTypeInit
<1>2. DOMAIN scores = {} /\ DOMAIN meta = {} /\ ~last_game_info.running
  BY NoSlots DEF StatsInit, NoTick
<1> QED
  BY <1>1, <1>2 DEF StatsInv, GameInv, MadeInv, SteadyInv

LEMMA StatsInvStep == StatsInv /\ [StatsNext]_statsVars => StatsInv'
<1> SUFFICES ASSUME StatsInv, [StatsNext]_statsVars PROVE StatsInv'
  OBVIOUS
<1>0. ScoresType /\ LoopType /\ GameInv /\ MadeInv /\ SteadyInv
  BY DEF StatsInv
<1>1. ScoresType' /\ LoopType' /\ GameInv' /\ SteadyInv'
  BY <1>0, StatsTypeStep, GameInvStep, SteadyStep
<1>2. MadeInv'
  <2>1. CASE Sample
    BY <1>0, <2>1, SampleMade
  <2>2. CASE NewReader
    <3>1. DOMAIN meta' = {}
      BY <2>2, NoSlots DEF NewReader
    <3> QED
      BY <3>1 DEF MadeInv
  <2>3. ASSUME NEW t \in DOMAIN scores, Kill(t) PROVE MadeInv'
    BY <1>0, <2>3, KillMade
  <2>4. ASSUME UNCHANGED <<meta, made, mistaken, last_game_info>>,
               \A s \in DOMAIN scores' :
                 \/ s \in DOMAIN scores /\ scores'[s] = scores[s]
                 \/ /\ scores'[s].multikill = 0
                    /\ \/ scores'[s].kills = 0
                       \/ s \in DOMAIN scores /\ scores'[s].kills = scores[s].kills
        PROVE  MadeInv'
    BY <1>0, <2>4, QuietMade
  <2>5. CASE StartGame
    BY <2>4, <2>5, NewGameScore, FreshScore DEF StartGame
  <2>6. CASE StopGame
    BY <2>4, <2>6 DEF StopGame
  <2>7. CASE Join
    <3>1. \A s \in DOMAIN scores' : (s \in DOMAIN scores /\ scores'[s] = scores[s]) \/ scores'[s] = Fresh
      BY <1>0, <2>7, JoinScore
    <3> QED
      BY <2>4, <2>7, <3>1, FreshScore DEF Join
  <2>8. ASSUME NEW t \in DOMAIN scores, Die(t) \/ TakeOver(t) PROVE MadeInv'
    BY <1>0, <2>4, <2>8, EndScore DEF Die, TakeOver
  <2>9. CASE Tick \/ SampleFails \/ UNCHANGED statsVars
    BY <2>4, <2>9 DEF Tick, SampleFails, statsVars
  <2> QED
    BY <2>1, <2>2, <2>3, <2>5, <2>6, <2>7, <2>8, <2>9 DEF StatsNext
<1> QED
  BY <1>1, <1>2 DEF StatsInv

LEMMA StatsSafe == StatsSpec => []StatsInv
BY StatsInvInit, StatsInvStep, PTL DEF StatsSpec

(* What MadeInv says of a slot that is counted.                              *)
LEMMA OfSlot ==
  ASSUME StatsInv, NEW s \in DOMAIN meta, s \notin mistaken
  PROVE  /\ MadeSafe(s) /\ Of(s) = meta[s] /\ meta[s] \in Stats /\ made[s] \in Stats
         /\ KillsToCome(s) \in Nat /\ \A k \in Amounts : ToCome(s, k) \in Nat
<1>1. ScoresType /\ LoopType /\ MadeInv
  BY DEF StatsInv
<1>2. s \in 1..MaxSlots /\ Of(s) = meta[s] /\ meta[s] \in Stats
  BY <1>1 DEF LoopType, Of
<1>3. KillsToCome(s) \in Nat /\ \A k \in Amounts : ToCome(s, k) \in Nat
  BY <1>1, <1>2, StatTypes
<1> QED
  BY <1>1, <1>2, <1>3 DEF MadeInv, LoopType

(* extract_player_stat_events of events.rs: no multikill is counted for a    *)
(* slot that was not made in it since it was initialised, for any number of  *)
(* kills between two samples, any time of the last one modulo its width, any *)
(* list of any of the players in each sample, and any pattern of missing     *)
(* samples, failed reads, new readers, joins and leaves; except for a slot   *)
(* whose entry was compared with that of another.                            *)
THEOREM MultikillsWereMade == StatsSpec => []MultikillsReal
<1>1. StatsInv => MultikillsReal
  <2> SUFFICES ASSUME StatsInv, NEW s \in DOMAIN meta \ mistaken, NEW k \in Amounts
               PROVE  meta[s].multikills[k] <= made[s].multikills[k]
    BY DEF MultikillsReal
  <2>1. MadeSafe(s) /\ Of(s) = meta[s] /\ meta[s] \in Stats /\ made[s] \in Stats /\ ToCome(s, k) \in Nat
    BY OfSlot
  <2>2. meta[s].multikills[k] \in Nat /\ made[s].multikills[k] \in Nat
    BY <2>1 DEF Stats
  <2>3. meta[s].multikills[k] + ToCome(s, k) <= made[s].multikills[k]
    BY <2>1 DEF MadeSafe
  <2> QED
    BY <2>1, <2>2, <2>3
<1> QED
  BY <1>1, StatsSafe, PTL

(* extract_player_stat_events, initialize_players and ensure_players of      *)
(* events.rs: nor is a kill counted that nobody made, with the same          *)
(* exception, and as long as the list of players stays the same none is      *)
(* missing.                                                                  *)
THEOREM KillsWereMade == StatsSpec => []KillsExact
<1>1. StatsInv => KillsExact
  <2> SUFFICES ASSUME StatsInv, NEW s \in DOMAIN meta \ mistaken
               PROVE  /\ meta[s].kills <= made[s].kills
                      /\ steady => meta[s].kills = KillsOf(last_game_info.players)[s] - base[s]
    BY DEF KillsExact
  <2>1. MadeSafe(s) /\ Of(s) = meta[s] /\ meta[s] \in Stats /\ made[s] \in Stats /\ KillsToCome(s) \in Nat
    BY OfSlot
  <2>2. meta[s].kills \in Nat /\ made[s].kills \in Nat
    BY <2>1 DEF Stats
  <2>3. meta[s].kills + KillsToCome(s) <= made[s].kills
    BY <2>1 DEF MadeSafe
  <2>4. ASSUME steady PROVE meta[s].kills = KillsOf(last_game_info.players)[s] - base[s]
    <3>1. s \in Indices(Sampled) /\ meta[s].kills = LastOf(s).kills - base[s]
      BY <2>4 DEF StatsInv, SteadyInv
    <3> QED
      BY <3>1 DEF KillsOf, LastOf, Sampled
  <2> QED
    BY <2>1, <2>2, <2>3, <2>4
<1> QED
  BY <1>1, StatsSafe, PTL
=============================================================================

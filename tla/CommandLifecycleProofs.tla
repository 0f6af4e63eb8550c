----------------------- MODULE CommandLifecycleProofs -----------------------
(***************************************************************************)
(* Proofs about CommandLifecycle for any number of commands and records:   *)
(* where every command is, that the panel keeps its contract, and what is  *)
(* left when the program ends.                                             *)
(***************************************************************************)
EXTENDS CommandLifecycle, TLAPS

-----------------------------------------------------------------------------
(* The invariant *)

(* Where main is when a command is in its hands, and when it is not.         *)
Shape ==
  /\ issued \in Seq(Kinds) /\ phase \in [1..Len(issued) -> Phases]
  /\ commandRx \in Seq(Nat) /\ updateRx \in Seq(Nat)
  /\ mainPc \in {"connect", "refuse", "attach", "top", "serve", "execute", "join", "exited"}
  /\ tuiPc \in {"top", "poll", "send", "stopped"}
  /\ updatePc \in {"first check", "top", "recv", "check", "install", "restart", "stopped"}
  /\ threads \in [Workers -> {"unborn", "running", "stopped"}]
  /\ shutdown \in BOOLEAN

Stations ==
  /\ inHand # None <=> mainPc \in {"refuse", "execute"}
  /\ inHand # None => inHand \in Commands /\ ~ForUpdateWorker(inHand) /\ inHand # reconnecting
  /\ reconnecting # None =>
       /\ mainPc \in {"connect", "refuse", "attach"}
       /\ reconnecting \in Commands /\ issued[reconnecting] = "reconnect xemu"
  /\ updateInHand # None <=> updatePc \in {"check", "install"}
  /\ updateInHand # None => updateInHand \in Commands /\ ForUpdateWorker(updateInHand)
  /\ tuiHolds = IF tuiPc = "send" THEN Len(issued) ELSE None
  /\ tuiPc = "send" => Len(issued) > 0

(* Main and the update worker leave only at a shutdown.                      *)
Leaving ==
  /\ mainPc \in {"join", "exited"} => shutdown
  /\ updatePc = "stopped" => shutdown /\ updateRx = <<>>

(* The channels hold queued commands in the order they were given, each for  *)
(* its reader, and what the TUI holds is the latest.                         *)
Rising(s) == \A i, j \in 1..Len(s) : i < j => s[i] < s[j]
In(s) == {s[i] : i \in 1..Len(s)}
Channels ==
  /\ Rising(commandRx) /\ Rising(updateRx)
  /\ \A c \in In(commandRx) : c \in Commands /\ phase[c] = "queued" /\ c # tuiHolds
  /\ \A c \in In(updateRx) : c \in Commands /\ phase[c] = "queued" /\ c # tuiHolds
  /\ \A c \in In(updateRx) : ForUpdateWorker(c)
  /\ \A c \in In(updateRx), d \in In(commandRx) : ForUpdateWorker(d) => c < d

(* A command is running in the hands of one thread, and queued on its way to *)
(* one, or was left in the channel of an update worker that is gone.         *)
Marks ==
  \A c \in Commands :
    /\ phase[c] = "running" <=> c \in {inHand, reconnecting, updateInHand}
    /\ phase[c] = "queued" =>
         \/ c = tuiHolds \/ c \in In(commandRx) \/ c \in In(updateRx)
         \/ updatePc = "stopped" /\ ForUpdateWorker(c)
    /\ c = tuiHolds => phase[c] = "queued"

CInv == Shape /\ Stations /\ Leaving /\ Channels /\ Marks

InstallInv == updatePhase = "installed" => updatePc \in {"restart", "stopped"}
RestartInv ==
  /\ updatePc = "restart" => updatePhase = "installed"
  /\ restart => updatePc = "stopped" /\ updatePhase = "installed"
  /\ relaunched => restart
Threads == Workers \cup {"update", "tui"}
JoinInv ==
  /\ toJoin \in Seq(Threads)
  /\ mainPc \in {"join", "exited"} =>
       /\ updatePc = "stopped" \/ "update" \in In(toJoin)
       /\ tuiPc = "stopped" \/ "tui" \in In(toJoin)
       /\ \A w \in Workers : threads[w] = "running" => w \in In(toJoin)
  /\ mainPc = "exited" => toJoin = <<>>

USE DEF mainVars, updateVars, tuiVars, flagVars, vars, None, Commands, Final, Phases,
        TuiOthers, MainOthers, UpdateOthers

-----------------------------------------------------------------------------
(* Channels *)

LEMMA EmptyChannel == In(<<>>) = {} /\ Rising(<<>>) /\ <<>> \in Seq(Nat)
<1>1. Len(<<>>) = 0
  OBVIOUS
<1> QED
  BY <1>1 DEF In, Rising

LEMMA Sending ==
  ASSUME NEW s \in Seq(Nat), NEW c \in Nat, Rising(s), \A d \in In(s) : d < c
  PROVE  /\ Append(s, c) \in Seq(Nat) /\ Rising(Append(s, c))
         /\ In(Append(s, c)) = In(s) \cup {c}
<1>1. /\ Len(Append(s, c)) = Len(s) + 1 /\ Append(s, c)[Len(s) + 1] = c /\ Len(s) \in Nat
      /\ \A i \in 1..Len(s) : Append(s, c)[i] = s[i]
  OBVIOUS
<1>2. 1..(Len(s) + 1) = 1..Len(s) \cup {Len(s) + 1}
  BY <1>1
<1>3. In(Append(s, c)) = In(s) \cup {c}
  BY <1>1, <1>2 DEF In
<1>4. ASSUME NEW i \in 1..(Len(s) + 1), NEW j \in 1..(Len(s) + 1), i < j
      PROVE  Append(s, c)[i] < Append(s, c)[j]
  <2>1. i \in 1..Len(s) /\ Append(s, c)[i] = s[i] /\ s[i] \in In(s)
    BY <1>1, <1>4 DEF In
  <2>2. CASE j \in 1..Len(s)
    BY <1>1, <1>4, <2>1, <2>2 DEF Rising
  <2>3. CASE j = Len(s) + 1
    BY <1>1, <2>1, <2>3
  <2> QED
    BY <1>1, <2>2, <2>3
<1>5. Rising(Append(s, c))
  BY <1>1, <1>4 DEF Rising
<1> QED
  BY <1>3, <1>5

LEMMA Receiving ==
  ASSUME NEW s \in Seq(Nat), s # <<>>, Rising(s)
  PROVE  /\ Tail(s) \in Seq(Nat) /\ Head(s) \in Nat /\ Rising(Tail(s))
         /\ In(s) = In(Tail(s)) \cup {Head(s)}
         /\ \A d \in In(Tail(s)) : Head(s) < d
         /\ Head(s) \notin In(Tail(s)) /\ Head(s) \in In(s) /\ In(s) \subseteq Nat
<1>1. /\ Len(s) \in Nat \ {0} /\ Head(s) = s[1] /\ Len(Tail(s)) = Len(s) - 1
      /\ \A i \in 1..(Len(s) - 1) : Tail(s)[i] = s[i + 1]
      /\ Tail(s) \in Seq(Nat) /\ Head(s) \in Nat /\ \A i \in 1..Len(s) : s[i] \in Nat
  OBVIOUS
<1>2. \A i \in 1..(Len(s) - 1) : i + 1 \in 1..Len(s) /\ 1 < i + 1
  BY <1>1
<1>3. \A i \in 1..Len(s) : i = 1 \/ (i - 1 \in 1..(Len(s) - 1) /\ (i - 1) + 1 = i)
  BY <1>1
<1>4. 1 \in 1..Len(s)
  BY <1>1
<1>5. In(s) = In(Tail(s)) \cup {Head(s)}
  <2>1. \A i \in 1..Len(s) : i # 1 => s[i] = Tail(s)[i - 1]
    BY <1>1, <1>3
  <2> QED
    BY <1>1, <1>2, <1>3, <1>4, <2>1 DEF In
<1>6. \A d \in In(Tail(s)) : Head(s) < d
  BY <1>1, <1>2, <1>4 DEF In, Rising
<1>7. \A i, j \in 1..(Len(s) - 1) : i < j => i + 1 < j + 1
  OBVIOUS
<1>8. Rising(Tail(s))
  BY <1>1, <1>2, <1>7 DEF Rising
<1>9. In(s) \subseteq Nat
  BY <1>1 DEF In
<1>10. Head(s) \notin In(Tail(s))
  BY <1>1, <1>6
<1> QED
  BY <1>1, <1>5, <1>6, <1>8, <1>9, <1>10

-----------------------------------------------------------------------------
(* What several steps have in common, for the invariant and the contract     *)

Promised == [Contract!Next]_(Contract!vars)

(* No command changes hands; an update worker that stops drops its channel.  *)
LEMMA QuietSafe ==
  ASSUME CInv,
         UNCHANGED <<issued, phase, commandRx, inHand, reconnecting, updateInHand, tuiHolds>>,
         updateRx' = updateRx \/ (updateRx' = <<>> /\ updatePc' = "stopped"),
         Shape', Stations', Leaving', updatePc = "stopped" => updatePc' = "stopped",
         shutdown => shutdown'
  PROVE  CInv' /\ Promised
<1>1. /\ In(commandRx)' = In(commandRx) /\ Rising(commandRx)' = Rising(commandRx)
      /\ In(updateRx)' \subseteq In(updateRx) /\ Rising(updateRx)'
      /\ updateRx' # updateRx => updatePc' = "stopped"
      /\ updateRx' = updateRx => In(updateRx)' = In(updateRx)
  BY EmptyChannel DEF In, Rising, CInv, Channels
<1>2. Channels'
  BY <1>1 DEF CInv, Channels, ForUpdateWorker
<1>3. Marks'
  BY <1>1 DEF CInv, Marks, Channels, ForUpdateWorker
<1>4. Promised
  <2>1. CASE shutdown' = shutdown
    BY <2>1 DEF Promised, Contract!vars
  <2>2. CASE shutdown' # shutdown
    <3>1. Contract!Stop
      BY <2>2 DEF Contract!Stop, CInv, Shape
    <3> QED
      BY <3>1 DEF Promised, Contract!Next
  <2> QED
    BY <2>1, <2>2
<1> QED
  BY <1>2, <1>3, <1>4 DEF CInv

LEMMA Numbers ==
  ASSUME CInv
  PROVE  /\ Len(issued) \in Nat /\ \A c \in Commands : c \in Nat /\ c # None /\ c <= Len(issued)
         /\ None \notin Commands
<1>1. issued \in Seq(Kinds)
  BY DEF CInv, Shape
<1>2. Len(issued) \in Nat
  BY <1>1
<1> QED
  BY <1>2

(* Types of a changed mark.                                                  *)
LEMMA MarkType ==
  ASSUME CInv, NEW c \in Commands, NEW p \in Phases, SetPhase(c, p)
  PROVE  /\ phase' \in [1..Len(issued) -> Phases] /\ phase'[c] = p
         /\ \A d \in Commands : d # c => phase'[d] = phase[d]
         /\ c \in Nat
<1>1. phase \in [1..Len(issued) -> Phases] /\ c \in Nat
  BY Numbers DEF CInv, Shape
<1>2. phase' = [phase EXCEPT ![c] = p]
  BY DEF SetPhase
<1> HIDE DEF Phases
<1> QED
  BY <1>1, <1>2

(* The command in somebody's hands is settled.                               *)
LEMMA SettleSafe ==
  ASSUME CInv, NEW c \in Commands, c \in {inHand, reconnecting, updateInHand},
         NEW p \in Final, SetPhase(c, p),
         UNCHANGED <<issued, commandRx, updateRx, tuiHolds>>,
         {inHand', reconnecting', updateInHand'} \ {None} =
           {inHand, reconnecting, updateInHand} \ {None, c},
         Shape', Stations', Leaving', updatePc = "stopped" => updatePc' = "stopped"
  PROVE  CInv'
<1>1. /\ phase'[c] = p /\ \A d \in Commands : d # c => phase'[d] = phase[d]
      /\ phase[c] = "running"
  BY MarkType DEF CInv, Marks
<1>2. /\ In(commandRx)' = In(commandRx) /\ Rising(commandRx)' = Rising(commandRx)
      /\ In(updateRx)' = In(updateRx) /\ Rising(updateRx)' = Rising(updateRx)
  BY DEF In, Rising
<1>3. c \notin In(commandRx) /\ c \notin In(updateRx) /\ c # tuiHolds
  BY <1>1 DEF CInv, Channels, Marks
<1>4. Channels'
  BY <1>1, <1>2, <1>3 DEF CInv, Channels, ForUpdateWorker
<1>5. \A d \in {inHand', reconnecting', updateInHand'} : d \in Commands =>
        d # c /\ d \in {inHand, reconnecting, updateInHand}
  BY Numbers
<1>6. \A d \in {inHand, reconnecting, updateInHand} : d \in Commands /\ d # c =>
        d \in {inHand', reconnecting', updateInHand'}
  BY Numbers
<1>7. ASSUME NEW d \in Commands
      PROVE  /\ phase'[d] = "running" <=> d \in {inHand', reconnecting', updateInHand'}
             /\ phase'[d] = "queued" =>
                  \/ d = tuiHolds' \/ d \in In(commandRx)' \/ d \in In(updateRx)'
                  \/ updatePc' = "stopped" /\ ForUpdateWorker(d)'
             /\ d = tuiHolds' => phase'[d] = "queued"
  <2>1. CASE d = c
    BY <1>1, <1>3, <1>5, <2>1
  <2>2. CASE d # c
    BY <1>1, <1>2, <1>5, <1>6, <2>2 DEF CInv, Marks, ForUpdateWorker
  <2> QED
    BY <2>1, <2>2
<1>8. Marks'
  BY <1>7 DEF Marks
<1> QED
  BY <1>4, <1>8 DEF CInv

(* Which commands the contract takes for running.                            *)
LEMMA RunningRivals ==
  ASSUME CInv, NEW c \in Commands
  PROVE  /\ Contract!Commands = Commands
         /\ \A d \in Contract!Rivals(c) : d \in Commands /\ d # c
              /\ (ForUpdateWorker(d) <=> ForUpdateWorker(c))
         /\ ForUpdateWorker(c) =>
              Contract!Running(Contract!Rivals(c)) \subseteq {updateInHand} \ {c}
         /\ ~ForUpdateWorker(c) =>
              Contract!Running(Contract!Rivals(c)) \subseteq {inHand, reconnecting} \ {c}
<1>1. Contract!Commands = Commands
  BY DEF Contract!Commands
<1>2. ASSUME NEW d \in Contract!Rivals(c)
      PROVE  d \in Commands /\ d # c /\ (ForUpdateWorker(d) <=> ForUpdateWorker(c))
  BY <1>1, <1>2 DEF Contract!Rivals, Contract!Executor, ForUpdateWorker
<1>3. ASSUME NEW d \in Contract!Running(Contract!Rivals(c))
      PROVE  d \in {inHand, reconnecting, updateInHand} /\ d # None
             /\ d \in Contract!Rivals(c)
  <2>1. d \in Contract!Rivals(c) /\ phase[d] = "running"
    BY <1>3 DEF Contract!Running
  <2> QED
    BY <1>2, <2>1, Numbers DEF CInv, Marks
<1>4. ASSUME NEW d \in Commands
      PROVE  /\ d = updateInHand => ForUpdateWorker(d)
             /\ d \in {inHand, reconnecting} => ~ForUpdateWorker(d)
  BY Numbers DEF CInv, Stations, ForUpdateWorker
<1> QED
  BY <1>1, <1>2, <1>3, <1>4

(* Who may start: the first of a channel.                                    *)
LEMMA MainStarts ==
  ASSUME CInv, commandRx # <<>>, ~ForUpdateWorker(Head(commandRx)), inHand = None,
         SetPhase(Head(commandRx), "running"), UNCHANGED <<issued, shutdown>>
  PROVE  Promised
<1> DEFINE c == Head(commandRx)
<1>0. commandRx \in Seq(Nat) /\ Rising(commandRx)
  BY DEF CInv, Shape, Channels
<1>1. /\ c \in In(commandRx) /\ \A d \in In(commandRx) : d = c \/ c < d
      /\ In(commandRx) \subseteq Nat /\ c \in Nat
  BY <1>0, Receiving
<1>2. c \in Commands /\ phase[c] = "queued"
  BY <1>1 DEF CInv, Channels
<1>3. ASSUME NEW d \in Contract!Rivals(c), d < c, phase[d] = "queued" PROVE FALSE
  <2>1. d \in Commands /\ ~ForUpdateWorker(d) /\ d \in Nat
    BY <1>2, <1>3, RunningRivals
  <2>2. d \notin In(updateRx) /\ d \notin In(commandRx)
    BY <1>1, <1>3, <2>1 DEF CInv, Channels
  <2>3. d # tuiHolds
    <3>1. tuiHolds \in {Len(issued), None} /\ c <= Len(issued) /\ Len(issued) \in Nat
      BY <1>2, Numbers DEF CInv, Stations
    <3> QED
      BY <1>1, <1>3, <2>1, <3>1, Numbers
  <2> QED
    BY <1>3, <2>1, <2>2, <2>3 DEF CInv, Marks
<1>4. ASSUME NEW d \in Contract!Running(Contract!Rivals(c)) PROVE issued[d] = "reconnect xemu"
  <2>1. d \in {None, reconnecting} /\ d \in Commands
    BY <1>2, <1>4, RunningRivals DEF Contract!Running
  <2> QED
    BY <2>1, Numbers DEF CInv, Stations
<1>5. Contract!Start(c)
  BY <1>2, <1>3, <1>4 DEF Contract!Start, Contract!Becomes, SetPhase
<1>6. c \in Contract!Commands
  BY <1>2, RunningRivals
<1> QED
  BY <1>5, <1>6 DEF Promised, Contract!Next

LEMMA UpdaterStarts ==
  ASSUME CInv, updateRx # <<>>, updatePc = "recv",
         SetPhase(Head(updateRx), "running"), UNCHANGED <<issued, shutdown>>
  PROVE  Promised
<1> DEFINE c == Head(updateRx)
<1>0. updateRx \in Seq(Nat) /\ Rising(updateRx)
  BY DEF CInv, Shape, Channels
<1>1. /\ c \in In(updateRx) /\ \A d \in In(updateRx) : d = c \/ c < d
      /\ In(updateRx) \subseteq Nat /\ c \in Nat
  BY <1>0, Receiving
<1>2. c \in Commands /\ phase[c] = "queued" /\ ForUpdateWorker(c)
  BY <1>1 DEF CInv, Channels
<1>3. ASSUME NEW d \in Contract!Rivals(c), d < c, phase[d] = "queued" PROVE FALSE
  <2>1. d \in Commands /\ ForUpdateWorker(d) /\ d \in Nat
    BY <1>2, <1>3, RunningRivals
  <2>2. d \notin In(updateRx) /\ d \notin In(commandRx)
    BY <1>1, <1>3, <2>1 DEF CInv, Channels
  <2>3. d # tuiHolds
    <3>1. tuiHolds \in {Len(issued), None} /\ c <= Len(issued) /\ Len(issued) \in Nat
      BY <1>2, Numbers DEF CInv, Stations
    <3> QED
      BY <1>1, <1>3, <2>1, <3>1, Numbers
  <2> QED
    BY <1>3, <2>1, <2>2, <2>3 DEF CInv, Marks
<1>4. Contract!Running(Contract!Rivals(c)) = {}
  <2>1. updateInHand = None
    BY DEF CInv, Stations
  <2>2. \A d \in Contract!Running(Contract!Rivals(c)) : d \in Commands /\ d = None
    BY <1>2, <2>1, RunningRivals DEF Contract!Running
  <2> QED
    BY <2>2 DEF CInv, Shape
<1>5. Contract!Start(c)
  BY <1>2, <1>3, <1>4 DEF Contract!Start, Contract!Becomes, SetPhase
<1>6. c \in Contract!Commands
  BY <1>2, RunningRivals
<1> QED
  BY <1>5, <1>6 DEF Promised, Contract!Next

(* How a command ends.                                                       *)
LEMMA EndPromised ==
  ASSUME CInv, NEW c \in Commands, UNCHANGED issued,
         \/ /\ phase[c] = "running" /\ issued[c] # "shutdown"
            /\ SetPhase(c, "failed") /\ shutdown' \in {shutdown, TRUE}
         \/ /\ phase[c] = "running" /\ issued[c] = "shutdown"
            /\ SetPhase(c, "succeeded") /\ shutdown' = TRUE
         \/ /\ phase[c] = "running" /\ issued[c] # "shutdown"
            /\ Contract!Running(Contract!Rivals(c)) = {}
            /\ SetPhase(c, "succeeded") /\ shutdown' = shutdown
         \/ /\ phase[c] = "queued" /\ shutdown
            /\ SetPhase(c, "failed") /\ shutdown' = shutdown
  PROVE  Promised
<1>1. shutdown \in BOOLEAN /\ c \in Contract!Commands
  BY RunningRivals DEF CInv, Shape
<1>2. Contract!Fail(c) \/ Contract!Succeed(c) \/ Contract!Reject(c)
  BY <1>1 DEF Contract!Fail, Contract!Succeed, Contract!Reject, Contract!Becomes, SetPhase
<1> QED
  BY <1>1, <1>2 DEF Promised, Contract!Next

-----------------------------------------------------------------------------
(* The TUI *)

LEMMA AppendMark ==
  ASSUME NEW n \in Nat, NEW S, NEW f \in [1..n -> S], NEW x \in S
  PROVE  /\ Append(f, x) \in [1..(n + 1) -> S] /\ Append(f, x)[n + 1] = x
         /\ \A i \in 1..n : Append(f, x)[i] = f[i]
<1>1. f \in Seq(S) /\ Len(f) = n
  OBVIOUS
<1>2. /\ Append(f, x) \in Seq(S) /\ Len(Append(f, x)) = n + 1
      /\ Append(f, x)[n + 1] = x /\ \A i \in 1..n : Append(f, x)[i] = f[i]
  BY <1>1
<1>3. ASSUME NEW t \in Seq(S) PROVE t \in [1..Len(t) -> S]
  OBVIOUS
<1> DEFINE t == Append(f, x)
<1>4. t \in Seq(S) /\ Len(t) = n + 1
  BY <1>2
<1> HIDE DEF t
<1>5. t \in [1..(n + 1) -> S]
  BY <1>3, <1>4
<1> USE DEF t
<1> QED
  BY <1>2, <1>5

LEMMA DispatchSafe == ASSUME CInv, NEW k \in Kinds, Dispatch(k) PROVE CInv' /\ Promised
<1>1. Len(issued) \in Nat /\ issued \in Seq(Kinds) /\ phase \in [1..Len(issued) -> Phases]
  BY Numbers DEF CInv, Shape
<1>2. /\ issued' = Append(issued, k) /\ phase' = Append(phase, "queued")
      /\ tuiHolds' = Len(issued) + 1 /\ tuiPc = "poll" /\ tuiPc' = "send"
      /\ UNCHANGED <<mainPc, inHand, reconnecting, commandRx, updateRx, updatePc, updateInHand,
                     threads, shutdown>>
  BY DEF Dispatch
<1> DEFINE new == Len(issued) + 1
<1>3. /\ issued' \in Seq(Kinds) /\ Len(issued') = new /\ issued'[new] = k /\ new \in Nat
      /\ \A c \in 1..Len(issued) : issued'[c] = issued[c]
  BY <1>1, <1>2
<1>4. "queued" \in Phases
  OBVIOUS
<1>5. /\ phase' \in [1..new -> Phases] /\ phase'[new] = "queued"
      /\ \A c \in 1..Len(issued) : phase'[c] = phase[c]
  <2> HIDE DEF Phases
  <2> QED
    BY <1>1, <1>2, <1>4, AppendMark
<1>6. /\ 1..new = 1..Len(issued) \cup {new} /\ new \notin 1..Len(issued) /\ new # None
      /\ Commands' = 1..new /\ Commands = 1..Len(issued)
  BY <1>1, <1>3
<1>7. \A c \in Commands : ForUpdateWorker(c)' <=> ForUpdateWorker(c)
  BY <1>3 DEF ForUpdateWorker
<1>8. In(commandRx)' = In(commandRx) /\ In(updateRx)' = In(updateRx)
      /\ Rising(commandRx)' = Rising(commandRx) /\ Rising(updateRx)' = Rising(updateRx)
  BY <1>2 DEF In, Rising
<1>9. tuiHolds = None
  BY <1>2 DEF CInv, Stations
<1> HIDE DEF Commands
<1>10. Shape'
  BY <1>2, <1>3, <1>5 DEF CInv, Shape
<1>11. Stations'
  <2>1. inHand # None => /\ inHand \in Commands' /\ inHand # reconnecting
                         /\ issued'[inHand] \notin {"check", "install"}
    BY <1>3, <1>6 DEF CInv, Stations, ForUpdateWorker
  <2>2. reconnecting # None =>
         reconnecting \in Commands' /\ issued'[reconnecting] = "reconnect xemu"
    BY <1>3, <1>6 DEF CInv, Stations
  <2>3. updateInHand # None => /\ updateInHand \in Commands'
                               /\ issued'[updateInHand] \in {"check", "install"}
    BY <1>3, <1>6 DEF CInv, Stations, ForUpdateWorker
  <2>4. tuiHolds' = Len(issued') /\ Len(issued') > 0
    BY <1>1, <1>2, <1>3
  <2>5. /\ inHand # None <=> mainPc \in {"refuse", "execute"}
        /\ reconnecting # None => mainPc \in {"connect", "refuse", "attach"}
        /\ updateInHand # None <=> updatePc \in {"check", "install"}
    BY DEF CInv, Stations
  <2> QED
    BY <1>2, <2>1, <2>2, <2>3, <2>4, <2>5 DEF Stations, ForUpdateWorker
<1>12. Leaving'
  BY <1>2 DEF CInv, Leaving
<1>13. Channels'
  <2>1. \A c \in In(commandRx) : c \in Commands' /\ phase'[c] = "queued" /\ c # new
    BY <1>5, <1>6 DEF CInv, Channels
  <2>2. \A c \in In(updateRx) : c \in Commands' /\ phase'[c] = "queued" /\ c # new
    BY <1>5, <1>6 DEF CInv, Channels
  <2>3. \A c \in In(updateRx) : ForUpdateWorker(c)'
    BY <1>7 DEF CInv, Channels
  <2>4. \A c \in In(updateRx), d \in In(commandRx) : ForUpdateWorker(d)' => c < d
    BY <1>7 DEF CInv, Channels
  <2> QED
    BY <1>2, <1>8, <2>1, <2>2, <2>3, <2>4 DEF CInv, Channels
<1>14. Marks'
  <2>1. ASSUME NEW c \in Commands
        PROVE  /\ phase'[c] = "running" <=> c \in {inHand, reconnecting, updateInHand}
               /\ phase'[c] = "queued" =>
                    \/ c = new \/ c \in In(commandRx) \/ c \in In(updateRx)
                    \/ updatePc = "stopped" /\ ForUpdateWorker(c)'
               /\ c # new
    BY <1>5, <1>6, <1>7, <1>9, Numbers DEF CInv, Marks
  <2>2. new \notin {inHand, reconnecting, updateInHand}
    BY <1>6 DEF CInv, Stations
  <2>3. ASSUME NEW c \in Commands'
        PROVE  /\ phase'[c] = "running" <=> c \in {inHand, reconnecting, updateInHand}
               /\ phase'[c] = "queued" =>
                    \/ c = new \/ c \in In(commandRx) \/ c \in In(updateRx)
                    \/ updatePc = "stopped" /\ ForUpdateWorker(c)'
               /\ c = new => phase'[c] = "queued"
    <3>1. c \in Commands \/ c = new
      BY <1>6
    <3> QED
      BY <1>5, <2>1, <2>2, <3>1
  <2> QED
    BY <1>2, <1>8, <2>3 DEF Marks, ForUpdateWorker
<1>15. Promised
  <2>1. Contract!Issue(k)
    BY <1>2 DEF Contract!Issue
  <2> QED
    BY <2>1 DEF Promised, Contract!Next
<1> QED
  BY <1>10, <1>11, <1>12, <1>13, <1>14, <1>15 DEF CInv

LEMMA SendSafe == ASSUME CInv, SendCommand PROVE CInv' /\ Promised
<1> DEFINE c == tuiHolds
<1>1. /\ tuiPc = "send" /\ c = Len(issued) /\ c \in Commands /\ c \in Nat /\ c # None
      /\ phase[c] = "queued" /\ tuiHolds' = None /\ tuiPc' # "send"
      /\ UNCHANGED <<mainPc, inHand, reconnecting, updateRx, updatePc, updateInHand, threads,
                     issued, shutdown>>
  <2>1. tuiPc = "send" /\ tuiPc' # "send" /\ tuiHolds' = None
    BY DEF SendCommand
  <2>2. c = Len(issued) /\ Len(issued) > 0 /\ Len(issued) \in Nat
    BY <2>1, Numbers DEF CInv, Stations
  <2>3. c \in Commands /\ phase[c] = "queued"
    BY <2>2 DEF CInv, Marks
  <2> QED
    BY <2>1, <2>2, <2>3 DEF SendCommand
<1>2. Stations' /\ Leaving'
  BY <1>1 DEF CInv, Stations, Leaving, ForUpdateWorker
<1>3. CASE MainHoldsChannels
  <2>1. commandRx' = Append(commandRx, c) /\ phase' = phase /\ tuiPc' \in {"top", "stopped"}
    BY <1>3 DEF SendCommand
  <2>2. commandRx \in Seq(Nat) /\ Rising(commandRx) /\ \A d \in In(commandRx) : d < c
    <3>1. \A d \in In(commandRx) : d \in Commands /\ d # c
      BY DEF CInv, Channels
    <3>2. commandRx \in Seq(Nat) /\ Rising(commandRx)
      BY DEF CInv, Shape, Channels
    <3> QED
      BY <1>1, <3>1, <3>2, Numbers
  <2>3. /\ commandRx' \in Seq(Nat) /\ Rising(commandRx')
        /\ In(commandRx') = In(commandRx) \cup {c}
    BY <1>1, <2>1, <2>2, Sending
  <2>4. /\ Rising(commandRx)' /\ In(commandRx)' = In(commandRx) \cup {c}
        /\ In(updateRx)' = In(updateRx) /\ Rising(updateRx)' = Rising(updateRx)
    BY <1>1, <2>3 DEF In, Rising
  <2>5. Shape'
    BY <1>1, <2>1, <2>3 DEF CInv, Shape
  <2>6. \A d \in In(updateRx) : d \in Commands /\ d < c
    <3>1. \A d \in In(updateRx) : d \in Commands /\ d # c
      BY DEF CInv, Channels
    <3> QED
      BY <1>1, <3>1, Numbers
  <2>7. Channels'
    <3>1. \A d \in In(commandRx)' : d \in Commands /\ phase[d] = "queued" /\ d # None
      BY <1>1, <2>4, Numbers DEF CInv, Channels
    <3>2. \A d \in In(updateRx) : d \in Commands /\ phase[d] = "queued" /\ d # None
      BY Numbers DEF CInv, Channels
    <3>3. \A d \in In(updateRx), e \in In(commandRx)' : ForUpdateWorker(e) => d < e
      BY <2>4, <2>6 DEF CInv, Channels
    <3> QED
      BY <1>1, <2>1, <2>4, <3>1, <3>2, <3>3 DEF CInv, Channels, ForUpdateWorker
  <2>8. Marks'
    BY <1>1, <2>1, <2>4, Numbers DEF CInv, Marks, ForUpdateWorker
  <2>9. Promised
    BY <1>1, <2>1 DEF Promised, Contract!vars
  <2> QED
    BY <1>2, <2>5, <2>7, <2>8, <2>9 DEF CInv
<1>4. CASE ~MainHoldsChannels
  <2>1. SetPhase(c, "failed") /\ commandRx' = commandRx /\ tuiPc' = "top"
    BY <1>4 DEF SendCommand
  <2>2. shutdown
    BY <1>4 DEF MainHoldsChannels, CInv, Leaving
  <2>3. "failed" \in Phases
    OBVIOUS
  <2>4. /\ phase' \in [1..Len(issued) -> Phases] /\ phase'[c] = "failed"
        /\ \A d \in Commands : d # c => phase'[d] = phase[d]
    <3> HIDE DEF Phases
    <3> QED
      BY <1>1, <2>1, <2>3, MarkType
  <2>5. Shape'
    BY <1>1, <2>1, <2>4 DEF CInv, Shape
  <2>6. /\ In(commandRx)' = In(commandRx) /\ Rising(commandRx)' = Rising(commandRx)
        /\ In(updateRx)' = In(updateRx) /\ Rising(updateRx)' = Rising(updateRx)
    BY <1>1, <2>1 DEF In, Rising
  <2>7. Channels'
    <3>1. \A d \in In(commandRx) \cup In(updateRx) :
            d \in Commands /\ phase'[d] = "queued" /\ d # None
      BY <1>1, <2>4, Numbers DEF CInv, Channels
    <3> QED
      BY <1>1, <2>1, <2>6, <3>1 DEF CInv, Channels, ForUpdateWorker
  <2>8. Marks'
    <3>1. c \notin {inHand, reconnecting, updateInHand}
      BY <1>1 DEF CInv, Marks
    <3>2. ASSUME NEW d \in Commands
          PROVE  /\ phase'[d] = "running" <=> d \in {inHand, reconnecting, updateInHand}
                 /\ phase'[d] = "queued" =>
                      \/ d \in In(commandRx) \/ d \in In(updateRx)
                      \/ updatePc = "stopped" /\ ForUpdateWorker(d)
                 /\ d # None
      BY <1>1, <2>4, <3>1, Numbers DEF CInv, Marks
    <3> QED
      BY <1>1, <2>6, <3>2 DEF Marks, ForUpdateWorker
  <2>9. Promised
    BY <1>1, <2>1, <2>2, EndPromised
  <2> QED
    BY <1>2, <2>5, <2>7, <2>8, <2>9 DEF CInv
<1> QED
  BY <1>3, <1>4

LEMMA TuiSafe == ASSUME CInv, Tui \/ TuiFails PROVE CInv' /\ Promised
<1>1. CASE TuiStops \/ TuiDraws \/ NoKey \/ TuiFails
  <2>1. /\ UNCHANGED <<issued, phase, commandRx, updateRx, inHand, reconnecting, updateInHand,
                       tuiHolds, mainPc, updatePc, threads, shutdown>>
        /\ tuiPc # "send" /\ tuiPc' \in {"top", "poll", "stopped"}
    BY <1>1 DEF TuiStops, TuiDraws, NoKey, TuiFails
  <2>2. Shape' /\ Stations' /\ Leaving'
    BY <2>1 DEF CInv, Shape, Stations, Leaving, ForUpdateWorker
  <2> QED
    BY <2>1, <2>2, QuietSafe
<1>2. CASE (\E k \in Kinds : Dispatch(k))
  BY <1>2, DispatchSafe
<1>3. CASE SendCommand
  BY <1>3, SendSafe
<1>4. CASE (KeyU \/ KeyInModal) /\ ~(\E k \in Kinds : Dispatch(k))
  <2>1. /\ UNCHANGED <<issued, phase, commandRx, updateRx, inHand, reconnecting, updateInHand,
                       tuiHolds, mainPc, updatePc, threads, shutdown>>
        /\ tuiPc = "poll" /\ tuiPc' = "top"
    BY <1>4 DEF KeyU, KeyInModal, Kinds
  <2>2. Shape' /\ Stations' /\ Leaving'
    BY <2>1 DEF CInv, Shape, Stations, Leaving, ForUpdateWorker
  <2> QED
    BY <2>1, <2>2, QuietSafe
<1> QED
  BY <1>1, <1>2, <1>3, <1>4 DEF Tui, KeyForMain

-----------------------------------------------------------------------------
(* Taking commands from the channels                                         *)

LEMMA FirstWaiting ==
  ASSUME CInv, commandRx # <<>>, commandRx' = Tail(commandRx)
  PROVE  LET c == Head(commandRx) IN
         /\ c \in Commands /\ c \in Nat /\ phase[c] = "queued" /\ c # tuiHolds
         /\ commandRx' \in Seq(Nat) /\ Rising(commandRx)'
         /\ In(commandRx) = In(commandRx)' \cup {c} /\ c \notin In(commandRx)'
         /\ \A d \in In(commandRx)' : c < d
         /\ ForUpdateWorker(c) => \A d \in In(updateRx) : d < c
         /\ c \notin In(updateRx)
         /\ c \notin {inHand, reconnecting, updateInHand}
<1> DEFINE c == Head(commandRx)
<1>1. commandRx \in Seq(Nat) /\ Rising(commandRx)
  BY DEF CInv, Shape, Channels
<1>2. /\ commandRx' \in Seq(Nat) /\ c \in Nat /\ Rising(commandRx')
      /\ In(commandRx) = In(commandRx') \cup {c}
      /\ \A d \in In(commandRx') : c < d
      /\ c \notin In(commandRx') /\ c \in In(commandRx)
  BY <1>1, Receiving
<1>3. Rising(commandRx)' = Rising(commandRx') /\ In(commandRx)' = In(commandRx')
  BY DEF Rising, In
<1>4. c \in Commands /\ phase[c] = "queued" /\ c # tuiHolds
  BY <1>2 DEF CInv, Channels
<1>5. c \notin {inHand, reconnecting, updateInHand}
  BY <1>4 DEF CInv, Marks
<1>6. ForUpdateWorker(c) => \A d \in In(updateRx) : d < c
  BY <1>2 DEF CInv, Channels
<1>7. c \notin In(updateRx)
  <2>1. \A d \in In(updateRx) : ForUpdateWorker(d) /\ d \in Nat
    BY Numbers DEF CInv, Channels
  <2> QED
    BY <1>6, <2>1
<1> QED
  BY <1>2, <1>3, <1>4, <1>5, <1>6, <1>7

LEMMA TakeSafe ==
  ASSUME CInv, NEW next \in {"refuse", "execute"},
         next = "refuse" => mainPc = "connect", next = "execute" => mainPc = "serve",
         TakeCommand(next)
  PROVE  CInv' /\ Promised
<1> DEFINE c == Head(commandRx)
<1>1. /\ commandRx # <<>> /\ commandRx' = Tail(commandRx)
      /\ UNCHANGED <<reconnecting, threads, shutdown, updatePc, updateInHand, tuiPc, tuiHolds, issued>>
  BY DEF TakeCommand
<1>2. /\ c \in Commands /\ c \in Nat /\ phase[c] = "queued" /\ c # tuiHolds
      /\ commandRx' \in Seq(Nat) /\ Rising(commandRx)'
      /\ In(commandRx) = In(commandRx)' \cup {c} /\ c \notin In(commandRx)'
      /\ \A d \in In(commandRx)' : c < d
      /\ ForUpdateWorker(c) => \A d \in In(updateRx) : d < c
      /\ c \notin In(updateRx)
      /\ c \notin {inHand, reconnecting, updateInHand}
  BY <1>1, FirstWaiting
<1>3. inHand = None /\ mainPc \in {"connect", "serve"}
  BY DEF CInv, Stations
<1> HIDE DEF c
<1>4. CASE ForUpdateWorker(c) /\ updatePc = "stopped"
  <2>1. SetPhase(c, "failed") /\ UNCHANGED <<updateRx, mainPc, inHand>>
    BY <1>4 DEF TakeCommand, c
  <2>2. shutdown /\ "failed" \in Phases
    BY <1>4 DEF CInv, Leaving
  <2>3. /\ phase' \in [1..Len(issued) -> Phases] /\ phase'[c] = "failed"
        /\ \A d \in Commands : d # c => phase'[d] = phase[d]
    <3> HIDE DEF Phases
    <3> QED
      BY <1>2, <2>1, <2>2, MarkType
  <2>4. Shape' /\ Stations' /\ Leaving'
    BY <1>1, <1>2, <2>1, <2>3 DEF CInv, Shape, Stations, Leaving, ForUpdateWorker
  <2>5. In(updateRx)' = In(updateRx) /\ Rising(updateRx)' = Rising(updateRx)
    BY <2>1 DEF In, Rising
  <2>6. Channels'
    BY <1>1, <1>2, <2>1, <2>3, <2>5 DEF CInv, Channels, ForUpdateWorker
  <2>7. Marks'
    <3>1. ASSUME NEW d \in Commands
          PROVE  /\ phase'[d] = "running" <=> d \in {inHand, reconnecting, updateInHand}
                 /\ phase'[d] = "queued" =>
                      \/ d = tuiHolds \/ d \in In(commandRx)' \/ d \in In(updateRx)
                      \/ updatePc = "stopped" /\ ForUpdateWorker(d)
                 /\ d = tuiHolds => phase'[d] = "queued"
      BY <1>2, <2>3 DEF CInv, Marks
    <3> QED
      BY <1>1, <2>1, <2>5, <3>1 DEF Marks, ForUpdateWorker
  <2>8. Promised
    BY <1>1, <1>2, <2>1, <2>2, EndPromised
  <2> QED
    BY <2>4, <2>6, <2>7, <2>8 DEF CInv
<1>5. CASE ForUpdateWorker(c) /\ updatePc # "stopped"
  <2>1. updateRx' = Append(updateRx, c) /\ UNCHANGED <<phase, mainPc, inHand>>
    BY <1>5 DEF TakeCommand, c
  <2>2. updateRx \in Seq(Nat) /\ Rising(updateRx)
    BY DEF CInv, Shape, Channels
  <2>3. /\ updateRx' \in Seq(Nat) /\ Rising(updateRx')
        /\ In(updateRx') = In(updateRx) \cup {c}
    BY <1>2, <1>5, <2>1, <2>2, Sending
  <2>4. In(updateRx)' = In(updateRx) \cup {c} /\ Rising(updateRx)'
    BY <2>3 DEF In, Rising
  <2>5. Shape' /\ Stations' /\ Leaving'
    BY <1>1, <1>2, <1>5, <2>1, <2>3 DEF CInv, Shape, Stations, Leaving, ForUpdateWorker
  <2>6. Channels'
    <3>1. \A d \in In(updateRx)' : /\ d \in Commands /\ phase[d] = "queued" /\ d # tuiHolds
                                   /\ ForUpdateWorker(d)
      BY <1>2, <1>5, <2>4 DEF CInv, Channels
    <3>2. \A d \in In(updateRx)', e \in In(commandRx)' : ForUpdateWorker(e) => d < e
      BY <1>2, <2>4 DEF CInv, Channels
    <3> QED
      BY <1>1, <1>2, <2>1, <2>4, <3>1, <3>2 DEF CInv, Channels, ForUpdateWorker
  <2>7. Marks'
    BY <1>1, <1>2, <2>1, <2>4 DEF CInv, Marks, ForUpdateWorker
  <2>8. Promised
    BY <1>1, <2>1 DEF Promised, Contract!vars
  <2> QED
    BY <2>5, <2>6, <2>7, <2>8 DEF CInv
<1>6. CASE ~ForUpdateWorker(c)
  <2>1. inHand' = c /\ SetPhase(c, "running") /\ mainPc' = next /\ updateRx' = updateRx
    BY <1>6 DEF TakeCommand, c
  <2>2. "running" \in Phases
    OBVIOUS
  <2>3. /\ phase' \in [1..Len(issued) -> Phases] /\ phase'[c] = "running"
        /\ \A d \in Commands : d # c => phase'[d] = phase[d]
    <3> HIDE DEF Phases
    <3> QED
      BY <1>2, <2>1, <2>2, MarkType
  <2>4. Shape' /\ Leaving'
    BY <1>1, <1>2, <1>3, <2>1, <2>3 DEF CInv, Shape, Leaving
  <2>5. Stations'
    <3>1. reconnecting # None => mainPc = "connect" /\ mainPc' = "refuse"
      BY <1>3, <2>1 DEF CInv, Stations
    <3>2. c # None /\ mainPc' \in {"refuse", "execute"}
      BY <1>2, <2>1, Numbers
    <3> QED
      BY <1>1, <1>2, <1>6, <2>1, <3>1, <3>2 DEF CInv, Stations, ForUpdateWorker
  <2>6. In(updateRx)' = In(updateRx) /\ Rising(updateRx)' = Rising(updateRx)
    BY <2>1 DEF In, Rising
  <2>7. Channels'
    BY <1>1, <1>2, <2>1, <2>3, <2>6 DEF CInv, Channels, ForUpdateWorker
  <2>8. Marks'
    <3>1. ASSUME NEW d \in Commands
          PROVE  /\ phase'[d] = "running" <=> d \in {c, reconnecting, updateInHand}
                 /\ phase'[d] = "queued" =>
                      \/ d = tuiHolds \/ d \in In(commandRx)' \/ d \in In(updateRx)
                      \/ updatePc = "stopped" /\ ForUpdateWorker(d)
                 /\ d = tuiHolds => phase'[d] = "queued"
      BY <1>2, <1>3, <2>3, Numbers DEF CInv, Marks
    <3> QED
      BY <1>1, <2>1, <2>6, <3>1 DEF Marks, ForUpdateWorker
  <2>9. Promised
    BY <1>1, <1>3, <1>6, <2>1, MainStarts DEF c
  <2> QED
    BY <2>4, <2>5, <2>7, <2>8, <2>9 DEF CInv
<1> QED
  BY <1>4, <1>5, <1>6

LEMMA UpdateTakesSafe == ASSUME CInv, UpdateTakes PROVE CInv' /\ Promised
<1> DEFINE c == Head(updateRx)
<1>1. /\ updatePc = "recv" /\ updateRx # <<>> /\ updateRx' = Tail(updateRx)
      /\ updateInHand' = c /\ SetPhase(c, "running") /\ updatePc' \in {"install", "check"}
      /\ UNCHANGED <<mainPc, inHand, reconnecting, commandRx, tuiPc, tuiHolds, threads, issued,
                     shutdown>>
  BY DEF UpdateTakes
<1>2. updateRx \in Seq(Nat) /\ Rising(updateRx)
  BY DEF CInv, Shape, Channels
<1>3. /\ updateRx' \in Seq(Nat) /\ c \in Nat /\ Rising(updateRx')
      /\ In(updateRx) = In(updateRx') \cup {c}
      /\ c \notin In(updateRx') /\ c \in In(updateRx)
  BY <1>1, <1>2, Receiving
<1>4. Rising(updateRx)' /\ In(updateRx)' = In(updateRx')
  BY <1>3 DEF Rising, In
<1>5. c \in Commands /\ phase[c] = "queued" /\ c # tuiHolds /\ ForUpdateWorker(c)
  BY <1>3 DEF CInv, Channels
<1>6. c \notin {inHand, reconnecting, updateInHand} /\ updateInHand = None
  BY <1>1, <1>5 DEF CInv, Marks, Stations
<1>7. Promised
  BY <1>1, UpdaterStarts
<1>8. c \notin In(commandRx)
  <2>1. \A d \in In(commandRx) : ForUpdateWorker(d) => c < d
    BY <1>3 DEF CInv, Channels
  <2> QED
    BY <1>3, <1>5, <2>1
<1>9. "running" \in Phases
  OBVIOUS
<1> HIDE DEF c
<1>10. /\ phase' \in [1..Len(issued) -> Phases] /\ phase'[c] = "running"
       /\ \A d \in Commands : d # c => phase'[d] = phase[d]
  <2> HIDE DEF Phases
  <2> QED
    BY <1>1, <1>5, <1>9, MarkType
<1>11. Shape' /\ Leaving'
  BY <1>1, <1>3, <1>10 DEF CInv, Shape, Leaving
<1>12. Stations'
  <2>1. c # None
    BY <1>5, Numbers
  <2> QED
    BY <1>1, <1>5, <2>1 DEF CInv, Stations, ForUpdateWorker
<1>13. In(commandRx)' = In(commandRx) /\ Rising(commandRx)' = Rising(commandRx)
  BY <1>1 DEF In, Rising
<1>14. Channels'
  BY <1>1, <1>3, <1>4, <1>8, <1>10, <1>13 DEF CInv, Channels, ForUpdateWorker
<1>15. Marks'
  <2>1. ASSUME NEW d \in Commands
        PROVE  /\ phase'[d] = "running" <=> d \in {inHand, reconnecting, c}
               /\ phase'[d] = "queued" =>
                    \/ d = tuiHolds \/ d \in In(commandRx) \/ d \in In(updateRx)'
               /\ d = tuiHolds => phase'[d] = "queued"
    BY <1>1, <1>3, <1>4, <1>5, <1>6, <1>10, Numbers DEF CInv, Marks
  <2> QED
    BY <1>1, <1>13, <2>1 DEF Marks, ForUpdateWorker
<1> QED
  BY <1>7, <1>11, <1>12, <1>14, <1>15 DEF CInv

-----------------------------------------------------------------------------
(* Executing and refusing them                                               *)

(* Main marks the command in its hands and has its hands free.               *)
LEMMA HandFinishes ==
  ASSUME CInv, mainPc \in {"refuse", "execute"}, NEW p \in Final, SetPhase(inHand, p),
         inHand' = None, mainPc' \in {"connect", "serve", "join"},
         mainPc' = (IF mainPc = "refuse" THEN "connect" ELSE mainPc'),
         mainPc' = "join" => shutdown', shutdown' \in {shutdown, TRUE},
         UNCHANGED <<issued, reconnecting, commandRx, updateRx, updatePc, updateInHand, tuiPc,
                     tuiHolds, threads>>
  PROVE  CInv'
<1>1. inHand \in Commands /\ inHand # None /\ inHand # reconnecting /\ inHand # updateInHand
  BY DEF CInv, Stations, ForUpdateWorker
<1>2. p \in Phases
  OBVIOUS
<1>3. phase' \in [1..Len(issued) -> Phases]
  <2> HIDE DEF Phases
  <2> QED
    BY <1>1, <1>2, MarkType
<1>4. Shape' /\ Leaving'
  BY <1>3 DEF CInv, Shape, Leaving
<1>5. Stations'
  BY <1>1 DEF CInv, Stations, ForUpdateWorker
<1>6. {inHand', reconnecting', updateInHand'} \ {None}
        = {inHand, reconnecting, updateInHand} \ {None, inHand}
  BY <1>1
<1> HIDE DEF Final
<1> QED
  BY <1>1, <1>4, <1>5, <1>6, SettleSafe

LEMMA RefuseSafe == ASSUME CInv, Refuse PROVE CInv' /\ Promised
<1>1. /\ mainPc = "refuse" /\ inHand \in Commands /\ inHand # None
      /\ phase[inHand] = "running"
  BY DEF Refuse, CInv, Stations, Marks
<1>2. /\ mainPc' = "connect" /\ inHand' = None
      /\ UNCHANGED <<issued, reconnecting, commandRx, updateRx, updatePc, updateInHand, tuiPc,
                     tuiHolds, threads>>
      /\ \/ issued[inHand] = "shutdown" /\ shutdown' = TRUE /\ SetPhase(inHand, "succeeded")
         \/ issued[inHand] # "shutdown" /\ shutdown' = shutdown /\ SetPhase(inHand, "failed")
  BY DEF Refuse
<1>3. PICK p \in Final : SetPhase(inHand, p)
  BY <1>2
<1>4. CInv'
  BY <1>1, <1>2, <1>3, HandFinishes
<1>5. Promised
  BY <1>1, <1>2, EndPromised
<1> QED
  BY <1>4, <1>5

LEMMA ExecuteSafe ==
  ASSUME CInv, ExecuteShutdown \/ ExecuteRelayCommand \/ ExecuteOther PROVE CInv' /\ Promised
<1>1. mainPc = "execute"
  BY DEF ExecuteShutdown, ExecuteRelayCommand, ExecuteOther
<1>2. /\ inHand \in Commands /\ inHand # None /\ phase[inHand] = "running"
      /\ ~ForUpdateWorker(inHand) /\ reconnecting = None
  BY <1>1 DEF CInv, Stations, Marks
<1>3. Contract!Running(Contract!Rivals(inHand)) = {}
  <2>1. \A d \in Contract!Running(Contract!Rivals(inHand)) :
          d \in {inHand, reconnecting} \ {inHand} /\ d \in Commands
    BY <1>2, RunningRivals DEF Contract!Running
  <2> QED
    BY <1>2, <2>1, Numbers
<1>4. /\ inHand' = None /\ mainPc' \in {"serve", "join"}
      /\ mainPc' = "join" => shutdown'
      /\ UNCHANGED <<issued, reconnecting, commandRx, updateRx, updatePc, updateInHand, tuiPc,
                     tuiHolds, threads>>
  BY DEF ExecuteShutdown, ExecuteRelayCommand, ExecuteOther, FinishWorkers
<1>5. \/ issued[inHand] = "shutdown" /\ shutdown' = TRUE /\ SetPhase(inHand, "succeeded")
      \/ /\ issued[inHand] # "shutdown" /\ shutdown' = shutdown
         /\ SetPhase(inHand, "failed") \/ SetPhase(inHand, "succeeded")
  BY DEF ExecuteShutdown, ExecuteRelayCommand, ExecuteOther, FinishWorkers
<1>6. PICK p \in Final : SetPhase(inHand, p)
  BY <1>5
<1>7. CInv'
  BY <1>1, <1>4, <1>5, <1>6, HandFinishes
<1>8. Promised
  BY <1>2, <1>3, <1>4, <1>5, EndPromised
<1> QED
  BY <1>7, <1>8

LEMMA ExecuteReconnectSafe == ASSUME CInv, ExecuteReconnect PROVE CInv' /\ Promised
<1>1. /\ mainPc = "execute" /\ issued[inHand] = "reconnect xemu" /\ mainPc' = "connect"
      /\ reconnecting' = inHand /\ inHand' = None
      /\ UNCHANGED <<issued, phase, commandRx, updateRx, updatePc, updateInHand, tuiPc,
                     tuiHolds, threads, shutdown>>
  BY DEF ExecuteReconnect
<1>2. inHand \in Commands /\ inHand # None /\ reconnecting = None
  BY <1>1 DEF CInv, Stations
<1>3. Shape' /\ Stations' /\ Leaving'
  BY <1>1, <1>2 DEF CInv, Shape, Stations, Leaving, ForUpdateWorker
<1>4. /\ In(commandRx)' = In(commandRx) /\ Rising(commandRx)' = Rising(commandRx)
      /\ In(updateRx)' = In(updateRx) /\ Rising(updateRx)' = Rising(updateRx)
  BY <1>1 DEF In, Rising
<1>5. Channels'
  BY <1>1, <1>4 DEF CInv, Channels, ForUpdateWorker
<1>6. Marks'
  BY <1>1, <1>2, <1>4 DEF CInv, Marks, ForUpdateWorker
<1>7. Promised
  BY <1>1 DEF Promised, Contract!vars
<1> QED
  BY <1>3, <1>5, <1>6, <1>7 DEF CInv

(* A reconnect ends: connected, given up, or interrupted.                    *)
LEMMA ReconnectEnds ==
  ASSUME CInv, reconnecting # None, mainPc \in {"connect", "attach"},
         UNCHANGED <<issued, inHand, commandRx, updateRx, updatePc, updateInHand, tuiPc,
                     tuiHolds, threads>>,
         reconnecting' = None,
         \/ mainPc' = "serve" /\ shutdown' = shutdown /\ SetPhase(reconnecting, "succeeded")
         \/ mainPc' = "serve" /\ shutdown' = shutdown /\ SetPhase(reconnecting, "failed")
         \/ mainPc' = "join" /\ shutdown' = TRUE /\ SetPhase(reconnecting, "failed")
  PROVE  CInv' /\ Promised
<1> DEFINE c == reconnecting
<1>1. /\ c \in Commands /\ c # None /\ issued[c] = "reconnect xemu" /\ phase[c] = "running"
      /\ inHand = None /\ c # updateInHand
  BY DEF CInv, Stations, Marks, ForUpdateWorker
<1>2. PICK p \in Final : SetPhase(c, p)
  OBVIOUS
<1>3. phase' \in [1..Len(issued) -> Phases]
  <2>1. p \in Phases
    OBVIOUS
  <2> HIDE DEF Phases
  <2> QED
    BY <1>1, <1>2, <2>1, MarkType
<1>4. Shape' /\ Leaving'
  BY <1>3 DEF CInv, Shape, Leaving
<1>5. Stations'
  BY <1>1 DEF CInv, Stations, ForUpdateWorker
<1>6. {inHand', reconnecting', updateInHand'} \ {None} = {inHand, c, updateInHand} \ {None, c}
  BY <1>1
<1>7. CInv'
  <2> HIDE DEF Final
  <2> QED
    BY <1>1, <1>2, <1>4, <1>5, <1>6, SettleSafe
<1>8. Contract!Running(Contract!Rivals(c)) = {}
  <2>1. ~ForUpdateWorker(c)
    BY <1>1 DEF ForUpdateWorker
  <2>2. \A d \in Contract!Running(Contract!Rivals(c)) : d \in {inHand, c} \ {c} /\ d \in Commands
    BY <1>1, <2>1, RunningRivals DEF Contract!Running
  <2> QED
    BY <1>1, <2>2, Numbers
<1>9. Promised
  BY <1>1, <1>8, EndPromised
<1> QED
  BY <1>7, <1>9

(* The flag may be raised and is never lowered.                              *)
LEMMA FlagRises ==
  ASSUME CInv, shutdown' = shutdown \/ shutdown' = TRUE
  PROVE  shutdown' \in BOOLEAN /\ (shutdown => shutdown')
<1>1. shutdown \in BOOLEAN
  BY DEF CInv, Shape
<1>2. CASE shutdown' = shutdown
  BY <1>1, <1>2
<1>3. CASE shutdown' = TRUE
  BY <1>3
<1> QED
  BY <1>2, <1>3

LEMMA ConnectingSafe ==
  ASSUME CInv, PollConnection \/ Connected \/ ConnectFails PROVE CInv' /\ Promised
<1>1. /\ UNCHANGED <<issued, inHand, commandRx, updateRx, updatePc, updateInHand, tuiPc, tuiHolds>>
      /\ mainPc \in {"connect", "attach"}
  BY DEF PollConnection, Connected, ConnectFails
<1>2. CASE reconnecting # None /\ mainPc' # "attach"
  <2>1. /\ reconnecting' = None /\ threads' = threads
        /\ \/ mainPc' = "serve" /\ shutdown' = shutdown /\ SetPhase(reconnecting, "succeeded")
           \/ mainPc' = "serve" /\ shutdown' = shutdown /\ SetPhase(reconnecting, "failed")
           \/ mainPc' = "join" /\ shutdown' = TRUE /\ SetPhase(reconnecting, "failed")
    BY <1>2 DEF PollConnection, Connected, ConnectFails, FinishWorkers
  <2> QED
    BY <1>1, <1>2, <2>1, ReconnectEnds
<1>3. CASE ~(reconnecting # None /\ mainPc' # "attach")
  <2>1. /\ reconnecting' = reconnecting /\ phase' = phase
        /\ shutdown' = shutdown \/ shutdown' = TRUE
        /\ threads' \in [Workers -> {"unborn", "running", "stopped"}]
        /\ \/ mainPc' = "attach"
           \/ reconnecting = None /\ mainPc' = "top"
           \/ reconnecting = None /\ mainPc' = "join" /\ shutdown' = TRUE
    BY <1>3 DEF PollConnection, Connected, ConnectFails, FinishWorkers, CInv, Shape
  <2>2. shutdown' \in BOOLEAN /\ (shutdown => shutdown')
    BY <2>1, FlagRises
  <2>3. Shape'
    BY <1>1, <2>1, <2>2 DEF CInv, Shape
  <2>4. Leaving'
    BY <1>1, <2>1, <2>2 DEF CInv, Leaving
  <2>5. inHand = None
    BY <1>1 DEF CInv, Stations
  <2>6. Stations'
    BY <1>1, <2>1, <2>5 DEF CInv, Stations, ForUpdateWorker
  <2> QED
    BY <1>1, <2>1, <2>2, <2>3, <2>4, <2>6, QuietSafe
<1> QED
  BY <1>2, <1>3

LEMMA MainQuiet ==
  ASSUME CInv, NotYetConnected \/ TopOfLoop \/ NoMoreCommands \/ Join \/ Exit
  PROVE  CInv' /\ Promised
<1>1. /\ UNCHANGED <<issued, phase, inHand, reconnecting, commandRx, updateRx, updatePc,
                     updateInHand, tuiPc, tuiHolds, threads>>
      /\ shutdown' = shutdown \/ shutdown' = TRUE
      /\ \/ mainPc = "attach" /\ mainPc' = "connect"
         \/ mainPc \in {"top", "serve"} /\ mainPc' \in {"top", "serve"}
         \/ mainPc \in {"top", "serve"} /\ mainPc' = "join" /\ shutdown' = TRUE
         \/ mainPc = "join" /\ mainPc' \in {"join", "exited"} /\ shutdown' = shutdown
  BY DEF NotYetConnected, TopOfLoop, NoMoreCommands, Join, Exit, FinishWorkers
<1>2. shutdown' \in BOOLEAN /\ (shutdown => shutdown')
  BY <1>1, FlagRises
<1>3. Shape'
  BY <1>1, <1>2 DEF CInv, Shape
<1>4. Leaving'
  BY <1>1, <1>2 DEF CInv, Leaving
<1>5. Stations'
  BY <1>1 DEF CInv, Stations, ForUpdateWorker
<1> QED
  BY <1>1, <1>2, <1>3, <1>4, <1>5, QuietSafe

LEMMA MainSafe == ASSUME CInv, Main PROVE CInv' /\ Promised
<1>1. CASE TakeWhileConnecting \/ Serve
  BY <1>1, TakeSafe DEF TakeWhileConnecting, Serve
<1>2. CASE Refuse \/ ExecuteShutdown \/ ExecuteRelayCommand \/ ExecuteOther \/ ExecuteReconnect
  BY <1>2, RefuseSafe, ExecuteSafe, ExecuteReconnectSafe
<1>3. CASE PollConnection \/ Connected \/ ConnectFails
  BY <1>3, ConnectingSafe
<1>4. CASE NotYetConnected \/ TopOfLoop \/ NoMoreCommands \/ Join \/ Exit
  BY <1>4, MainQuiet
<1> QED
  BY <1>1, <1>2, <1>3, <1>4 DEF Main

-----------------------------------------------------------------------------
(* The update worker and the others                                          *)

LEMMA UpdateEndsSafe == ASSUME CInv, CheckEnds \/ InstallEnds PROVE CInv' /\ Promised
<1>1. /\ UNCHANGED <<issued, mainPc, inHand, reconnecting, commandRx, updateRx, tuiPc, tuiHolds,
                     threads, shutdown>>
      /\ updatePc \in {"first check", "check", "install"} /\ updatePc' \in {"top", "restart"}
      /\ updateInHand' = None
  BY DEF CheckEnds, InstallEnds
<1>2. CASE updateInHand = None
  <2>1. phase' = phase
    BY <1>2 DEF CheckEnds, InstallEnds, CInv, Stations
  <2>2. Shape' /\ Leaving' /\ Stations'
    BY <1>1, <1>2, <2>1 DEF CInv, Shape, Leaving, Stations, ForUpdateWorker
  <2> QED
    BY <1>1, <1>2, <2>1, <2>2, QuietSafe
<1>3. CASE updateInHand # None
  <2> DEFINE c == updateInHand
  <2>1. /\ c \in Commands /\ ForUpdateWorker(c) /\ phase[c] = "running"
        /\ issued[c] # "shutdown" /\ c \notin {inHand, reconnecting}
    BY <1>3 DEF CInv, Stations, Marks, ForUpdateWorker
  <2>2. PICK p \in Final : SetPhase(c, p)
    BY <1>3 DEF CheckEnds, InstallEnds
  <2>3. phase' \in [1..Len(issued) -> Phases]
    <3>1. p \in Phases
      OBVIOUS
    <3> HIDE DEF Phases
    <3> QED
      BY <2>1, <2>2, <3>1, MarkType
  <2>4. Shape' /\ Leaving'
    BY <1>1, <2>3 DEF CInv, Shape, Leaving
  <2>5. Stations'
    BY <1>1 DEF CInv, Stations, ForUpdateWorker
  <2>6. {inHand', reconnecting', updateInHand'} \ {None} = {inHand, reconnecting, c} \ {None, c}
    BY <1>1, <2>1
  <2>7. CInv'
    <3> HIDE DEF Final
    <3> QED
      BY <1>1, <2>1, <2>2, <2>4, <2>5, <2>6, SettleSafe
  <2>8. Contract!Running(Contract!Rivals(c)) = {}
    BY <2>1, RunningRivals
  <2>9. Promised
    BY <1>1, <2>1, <2>2, <2>8, EndPromised
  <2> QED
    BY <2>7, <2>9
<1> QED
  BY <1>2, <1>3

LEMMA UpdaterQuiet ==
  ASSUME CInv, UpdateStops \/ UpdateListens \/ UpdateTimeout \/ RequestRestart
  PROVE  CInv' /\ Promised
<1>1. /\ UNCHANGED <<issued, phase, mainPc, inHand, reconnecting, commandRx, updateInHand, tuiPc,
                     tuiHolds, threads>>
      /\ updatePc \in {"top", "recv", "restart"} /\ updatePc' \in {"top", "recv", "stopped"}
      /\ updateRx' = updateRx \/ (updateRx' = <<>> /\ updatePc' = "stopped")
      /\ updatePc' = "stopped" => updateRx' = <<>>
      /\ shutdown' = shutdown \/ shutdown' = TRUE
  BY DEF UpdateStops, UpdateListens, UpdateTimeout, RequestRestart
<1>2. updatePc' = "stopped" => shutdown'
  BY DEF UpdateStops, UpdateListens, UpdateTimeout, RequestRestart, MainHoldsChannels, CInv, Leaving
<1>3. shutdown' \in BOOLEAN /\ (shutdown => shutdown')
  BY <1>1, FlagRises
<1>4. Shape'
  BY <1>1, <1>3, EmptyChannel DEF CInv, Shape
<1>5. Leaving'
  BY <1>1, <1>2, <1>3 DEF CInv, Leaving
<1>6. Stations'
  BY <1>1 DEF CInv, Stations, ForUpdateWorker
<1> QED
  BY <1>1, <1>3, <1>4, <1>5, <1>6, QuietSafe

LEMMA OthersSafe ==
  ASSUME CInv, (\E w \in Workers : WorkerStops(w) \/ WorkerFails(w)) \/ UNCHANGED vars
  PROVE  CInv' /\ Promised
<1>1. /\ UNCHANGED <<issued, phase, mainPc, inHand, reconnecting, commandRx, updateRx, updatePc,
                     updateInHand, tuiPc, tuiHolds, shutdown>>
      /\ threads' \in [Workers -> {"unborn", "running", "stopped"}]
  BY DEF WorkerStops, WorkerFails, CInv, Shape
<1>2. Shape' /\ Leaving' /\ Stations'
  BY <1>1 DEF CInv, Shape, Leaving, Stations, ForUpdateWorker
<1> QED
  BY <1>1, <1>2, QuietSafe

-----------------------------------------------------------------------------
LEMMA CommandInit == Init => CInv /\ Contract!Init
<1> SUFFICES ASSUME Init PROVE CInv /\ Contract!Init
  OBVIOUS
<1>1. issued = <<>> /\ phase = <<>> /\ commandRx = <<>> /\ updateRx = <<>> /\ Len(issued) = 0
  BY DEF Init
<1>2. Shape
  <2>1. 1..Len(issued) = {} /\ <<>> \in [{} -> Phases] /\ <<>> \in Seq(Kinds)
    BY <1>1
  <2> QED
    BY <1>1, <2>1, EmptyChannel DEF Init, Shape
<1>3. Leaving
  BY DEF Init, Leaving
<1>4. Stations
  BY DEF Init, Stations
<1>5. Channels /\ Marks
  BY <1>1, EmptyChannel DEF Channels, Marks
<1> QED
  BY <1>1, <1>2, <1>3, <1>4, <1>5 DEF CInv, Contract!Init, Init

LEMMA CommandStep == CInv /\ [Next]_vars => CInv' /\ Promised
<1> SUFFICES ASSUME CInv, [Next]_vars PROVE CInv' /\ Promised
  OBVIOUS
<1>1. CASE Tui \/ TuiFails
  BY <1>1, TuiSafe
<1>2. CASE Main
  BY <1>2, MainSafe
<1>3. CASE Updater
  BY <1>3, UpdateEndsSafe, UpdaterQuiet, UpdateTakesSafe DEF Updater
<1>4. CASE (\E w \in Workers : WorkerStops(w) \/ WorkerFails(w)) \/ UNCHANGED vars
  BY <1>4, OthersSafe
<1> QED
  BY <1>1, <1>2, <1>3, <1>4 DEF Next

(* Every command is where its mark on the panel says, for any number of      *)
(* commands and whatever shutdown or reconnect cuts in (process_commands,    *)
(* process_connect_commands, update_worker).                                 *)
THEOREM CommandsAccountedFor == Spec => []NoCommandLost
<1>1. CInv => NoCommandLost
  <2> SUFFICES ASSUME CInv, NEW c \in Commands
               PROVE  /\ phase[c] = "running" <=> c \in {inHand, reconnecting, updateInHand}
                      /\ phase[c] = "queued" => \/ c = tuiHolds \/ Contains(commandRx, c)
                                               \/ Contains(updateRx, c) \/ shutdown
                      /\ Contains(commandRx, c) \/ Contains(updateRx, c) => phase[c] = "queued"
    BY DEF NoCommandLost
  <2>1. /\ Contains(commandRx, c) <=> c \in In(commandRx)
        /\ Contains(updateRx, c) <=> c \in In(updateRx)
    BY DEF Contains, In
  <2> QED
    BY <2>1 DEF CInv, Marks, Channels, Leaving
<1> QED
  BY <1>1, CommandInit, CommandStep, PTL DEF Spec

(* The threads, the two channels and the marks implement the contract of the *)
(* panel: commands are started in the order they were given, one at a time   *)
(* but inside a reconnect, and none is turned away untried unless the        *)
(* program is stopping.                                                      *)
THEOREM PanelKeepsContract == Spec => ImplementsContract
<1>1. CInv /\ [Next]_vars => [Contract!Next]_(Contract!vars)
  BY CommandStep DEF Promised
<1> QED
  BY <1>1, CommandInit, CommandStep, PTL DEF Spec, ImplementsContract, Contract!Spec

-----------------------------------------------------------------------------
(* Installing, restarting and leaving                                        *)

LEMMA InstallStep ==
  InstallInv /\ RestartInv /\ [Next]_vars =>
    InstallInv' /\ RestartInv' /\ (updatePhase = "installed" => updatePhase' = "installed")
<1> SUFFICES ASSUME InstallInv, RestartInv, [Next]_vars
             PROVE  /\ InstallInv' /\ RestartInv'
                    /\ updatePhase = "installed" => updatePhase' = "installed"
  OBVIOUS
<1> USE DEF InstallInv, RestartInv
<1>1. CASE Tui \/ TuiFails
  <2>1. UNCHANGED <<updatePc, updatePhase, restart, relaunched>>
    BY <1>1 DEF Tui, TuiStops, TuiDraws, NoKey, KeyU, KeyInModal, KeyForMain, Dispatch,
                SendCommand, TuiFails
  <2> QED
    BY <2>1
<1>2. CASE Main
  <2>1. UNCHANGED <<updatePc, updatePhase, restart>> /\ (relaunched' = relaunched \/ Exit)
    BY <1>2 DEF Main, TakeWhileConnecting, Refuse, PollConnection, NotYetConnected, Connected,
                ConnectFails, TopOfLoop, Serve, NoMoreCommands, ExecuteShutdown,
                ExecuteReconnect, ExecuteRelayCommand, ExecuteOther, Join, Exit, TakeCommand
  <2>2. CASE relaunched' = relaunched
    BY <2>1, <2>2
  <2>3. CASE Exit
    <3>1. relaunched' => restart
      BY <2>3 DEF Exit
    <3> QED
      BY <2>1, <3>1
  <2> QED
    BY <2>1, <2>2, <2>3
<1>3. CASE Updater
  <2>1. relaunched' = relaunched
    BY <1>3 DEF Updater, UpdateStops, UpdateListens, UpdateTimeout, UpdateTakes, CheckEnds,
                InstallEnds, RequestRestart
  <2>2. CASE UpdateStops \/ UpdateListens \/ UpdateTimeout
    <3>1. /\ updatePc \in {"top", "recv"} /\ updatePc' \in {"stopped", "recv", "top"}
          /\ UNCHANGED <<updatePhase, restart>>
      BY <2>2 DEF UpdateStops, UpdateListens, UpdateTimeout
    <3> QED
      BY <2>1, <3>1
  <2>3. CASE UpdateTakes \/ CheckEnds \/ InstallEnds
    <3>1. /\ updatePc \in {"recv", "first check", "check", "install"} /\ restart' = restart
          /\ \/ updatePc' # "restart" /\ updatePhase' # "installed"
             \/ updatePc' = "restart" /\ updatePhase' = "installed"
      BY <2>3 DEF UpdateTakes, CheckEnds, InstallEnds
    <3> QED
      BY <2>1, <3>1
  <2>4. CASE RequestRestart
    BY <2>1, <2>4 DEF RequestRestart
  <2> QED
    BY <1>3, <2>2, <2>3, <2>4 DEF Updater
<1>4. CASE (\E w \in Workers : WorkerStops(w) \/ WorkerFails(w)) \/ UNCHANGED vars
  BY <1>4 DEF WorkerStops, WorkerFails
<1> QED
  BY <1>1, <1>2, <1>3, <1>4 DEF Next

LEMMA InstallInit == Init => InstallInv /\ RestartInv
BY DEF Init, InstallInv, RestartInv

LEMMA Joined ==
  ASSUME NEW s \in Seq(Threads), NEW t \in Seq(Threads)
  PROVE  s \o t \in Seq(Threads) /\ In(s \o t) = In(s) \cup In(t)
<1>1. /\ Len(s \o t) = Len(s) + Len(t) /\ s \o t \in Seq(Threads)
      /\ Len(s) \in Nat /\ Len(t) \in Nat
      /\ \A i \in 1..Len(s) : (s \o t)[i] = s[i]
      /\ \A i \in 1..Len(t) : (s \o t)[Len(s) + i] = t[i]
  OBVIOUS
<1>2. In(s \o t) \subseteq In(s) \cup In(t)
  <2> SUFFICES ASSUME NEW i \in 1..(Len(s) + Len(t)) PROVE (s \o t)[i] \in In(s) \cup In(t)
    BY <1>1 DEF In
  <2>1. CASE i \in 1..Len(s)
    BY <1>1, <2>1 DEF In
  <2>2. CASE i \notin 1..Len(s)
    <3>1. i - Len(s) \in 1..Len(t) /\ Len(s) + (i - Len(s)) = i
      BY <1>1, <2>2
    <3> QED
      BY <1>1, <3>1 DEF In
  <2> QED
    BY <2>1, <2>2
<1>3. In(s) \subseteq In(s \o t)
  <2>1. \A i \in 1..Len(s) : i \in 1..(Len(s) + Len(t))
    BY <1>1
  <2> QED
    BY <1>1, <2>1 DEF In
<1>4. In(t) \subseteq In(s \o t)
  <2>1. \A i \in 1..Len(t) : Len(s) + i \in 1..(Len(s) + Len(t))
    BY <1>1
  <2> QED
    BY <1>1, <2>1 DEF In
<1> QED
  BY <1>1, <1>2, <1>3, <1>4

LEMMA OneJoined ==
  ASSUME NEW t \in Threads PROVE <<t>> \in Seq(Threads) /\ In(<<t>>) = {t}
<1>1. Len(<<t>>) = 1 /\ <<t>>[1] = t /\ 1..1 = {1}
  OBVIOUS
<1> QED
  BY <1>1 DEF In

LEMMA NextJoined ==
  ASSUME NEW s \in Seq(Threads), s # <<>>
  PROVE  Tail(s) \in Seq(Threads) /\ In(s) = In(Tail(s)) \cup {Head(s)}
<1>1. /\ Len(s) \in Nat \ {0} /\ Head(s) = s[1] /\ Len(Tail(s)) = Len(s) - 1
      /\ \A i \in 1..(Len(s) - 1) : Tail(s)[i] = s[i + 1]
      /\ Tail(s) \in Seq(Threads)
  OBVIOUS
<1>2. \A i \in 1..(Len(s) - 1) : i + 1 \in 1..Len(s)
  BY <1>1
<1>3. \A i \in 1..Len(s) : i = 1 \/ (i - 1 \in 1..(Len(s) - 1) /\ (i - 1) + 1 = i)
  BY <1>1
<1>4. \A i \in 1..Len(s) : i # 1 => s[i] = Tail(s)[i - 1]
  BY <1>1, <1>3
<1>5. 1 \in 1..Len(s)
  BY <1>1
<1>6. In(s) \subseteq In(Tail(s)) \cup {Head(s)}
  BY <1>1, <1>3, <1>4 DEF In
<1>7. In(Tail(s)) \cup {Head(s)} \subseteq In(s)
  BY <1>1, <1>2, <1>5 DEF In
<1> QED
  BY <1>1, <1>6, <1>7

(* Whatever was started is joined.                                           *)
LEMMA JoinedAll ==
  /\ JoinOrder \in Seq(Threads) /\ {"update", "tui"} \subseteq In(JoinOrder)
  /\ \A w \in Workers : threads[w] = "running" => w \in In(JoinOrder)
<1>1. \A w \in Workers : /\ Handle(w) \in Seq(Threads)
                         /\ In(Handle(w)) = IF threads[w] # "unborn" THEN {w} ELSE {}
  <2>1. <<>> \in Seq(Threads) /\ In(<<>>) = {}
    BY EmptyChannel
  <2> QED
    BY <2>1, OneJoined DEF Handle, Threads
<1>2. {"replay", "local_ws", "relay"} \subseteq Workers /\ {"update", "tui"} \subseteq Threads
  BY DEF Workers, Threads
<1> DEFINE a == Handle("replay") \o <<"update">>
           b == a \o Handle("local_ws")
           d == b \o Handle("relay")
<1>3. a \in Seq(Threads) /\ In(a) = In(Handle("replay")) \cup {"update"}
  <2>1. Handle("replay") \in Seq(Threads)
    BY <1>1, <1>2
  <2>2. <<"update">> \in Seq(Threads) /\ In(<<"update">>) = {"update"}
    BY <1>2, OneJoined
  <2> QED
    BY <2>1, <2>2, Joined
<1> HIDE DEF a
<1>4. b \in Seq(Threads) /\ In(b) = In(a) \cup In(Handle("local_ws"))
  BY <1>1, <1>2, <1>3, Joined
<1> HIDE DEF b
<1>5. d \in Seq(Threads) /\ In(d) = In(b) \cup In(Handle("relay"))
  BY <1>1, <1>2, <1>4, Joined
<1> HIDE DEF d
<1>6. JoinOrder = d \o <<"tui">>
  BY DEF JoinOrder, a, b, d
<1>7. JoinOrder \in Seq(Threads) /\ In(JoinOrder) = In(d) \cup {"tui"}
  BY <1>2, <1>5, <1>6, OneJoined, Joined
<1> QED
  BY <1>1, <1>3, <1>4, <1>5, <1>7 DEF Workers

LEMMA JoinStep == CInv /\ JoinInv /\ [Next]_vars => JoinInv'
<1> SUFFICES ASSUME CInv, JoinInv, [Next]_vars PROVE JoinInv'
  OBVIOUS
<1>1. CASE Tui \/ TuiFails
  <2>1. UNCHANGED <<mainPc, toJoin, updatePc, threads>> /\ tuiPc # "stopped"
    BY <1>1 DEF Tui, TuiStops, TuiDraws, NoKey, KeyU, KeyInModal, KeyForMain, Dispatch,
                SendCommand, TuiFails
  <2> QED
    BY <2>1 DEF JoinInv, In
<1>2. CASE Updater
  <2>1. UNCHANGED <<mainPc, toJoin, tuiPc, threads>> /\ updatePc # "stopped"
    BY <1>2 DEF Updater, UpdateStops, UpdateListens, UpdateTimeout, UpdateTakes, CheckEnds,
                InstallEnds, RequestRestart
  <2> QED
    BY <2>1 DEF JoinInv, In
<1>3. CASE (\E w \in Workers : WorkerStops(w) \/ WorkerFails(w)) \/ UNCHANGED vars
  <2>1. /\ UNCHANGED <<mainPc, toJoin, tuiPc, updatePc>>
        /\ \A v \in Workers : threads'[v] = "running" => threads[v] = "running"
    BY <1>3 DEF WorkerStops, WorkerFails, CInv, Shape
  <2> QED
    BY <2>1 DEF JoinInv, In
<1>4. CASE Main
  <2>1. /\ UNCHANGED <<updatePc, tuiPc>>
        /\ \/ FinishWorkers(exitCode') /\ threads' = threads
           \/ mainPc' \notin {"join", "exited"} /\ toJoin' = toJoin
           \/ Join \/ Exit
    BY <1>4 DEF Main, TakeWhileConnecting, Refuse, PollConnection, NotYetConnected, Connected,
                ConnectFails, TopOfLoop, Serve, NoMoreCommands, ExecuteShutdown,
                ExecuteReconnect, ExecuteRelayCommand, ExecuteOther, Join, Exit, TakeCommand,
                FinishWorkers
  <2>2. CASE FinishWorkers(exitCode') /\ threads' = threads
    <3>1. mainPc' = "join" /\ toJoin' = JoinOrder /\ In(toJoin)' = In(JoinOrder)
      BY <2>2 DEF FinishWorkers, In
    <3> QED
      BY <2>1, <2>2, <3>1, JoinedAll DEF JoinInv
  <2>3. CASE mainPc' \notin {"join", "exited"} /\ toJoin' = toJoin
    BY <2>3 DEF JoinInv
  <2>4. CASE Join
    <3>1. /\ mainPc = "join" /\ mainPc' = "join" /\ toJoin # <<>> /\ Stopped(Head(toJoin))
          /\ toJoin' = Tail(toJoin) /\ threads' = threads /\ toJoin \in Seq(Threads)
      BY <2>4 DEF Join, JoinInv
    <3>2. toJoin' \in Seq(Threads) /\ In(toJoin) = In(toJoin)' \cup {Head(toJoin)}
      BY <3>1, NextJoined DEF In
    <3>3. /\ Head(toJoin) = "update" => updatePc = "stopped"
          /\ Head(toJoin) = "tui" => tuiPc = "stopped"
          /\ \A w \in Workers : Head(toJoin) = w => threads[w] = "stopped"
      BY <3>1 DEF Stopped, Workers
    <3> QED
      BY <2>1, <3>1, <3>2, <3>3 DEF JoinInv
  <2>5. CASE Exit
    <3>1. UNCHANGED <<toJoin, threads>> /\ toJoin = <<>> /\ mainPc = "join"
      BY <2>5 DEF Exit
    <3> QED
      BY <2>1, <3>1 DEF JoinInv, In
  <2> QED
    BY <2>1, <2>2, <2>3, <2>4, <2>5
<1> QED
  BY <1>1, <1>2, <1>3, <1>4 DEF Next

LEMMA JoinInit == Init => JoinInv
<1> SUFFICES ASSUME Init PROVE JoinInv
  OBVIOUS
<1>1. mainPc = "connect" /\ toJoin = <<>>
  BY DEF Init
<1>2. <<>> \in Seq(Threads)
  OBVIOUS
<1> QED
  BY <1>1, <1>2 DEF JoinInv

(* After an installation the update worker neither checks nor installs       *)
(* again, whatever waits in its channel (update_worker: request_restart and  *)
(* out of the loop).                                                         *)
THEOREM InstalledStays == Spec => InstalledIsFinal
<1>1. InstallInv /\ RestartInv /\ [Next]_vars =>
        [updatePhase = "installed" => updatePhase' = "installed"]_vars
  BY InstallStep
<1> QED
  BY <1>1, InstallInit, InstallStep, PTL DEF Spec, InstalledIsFinal

(* However many threads were started and wherever a shutdown found them,     *)
(* none is left when main exits, and only an installed update is started     *)
(* (finish_background_workers, relaunch_if_requested).                       *)
THEOREM NothingLeftBehind == Spec => []RelaunchAlone
<1>1. JoinInv /\ RestartInv => RelaunchAlone
  BY EmptyChannel DEF JoinInv, RestartInv, RelaunchAlone
<1> QED
  BY <1>1, CommandInit, CommandStep, InstallInit, InstallStep, JoinInit, JoinStep, PTL DEF Spec

-----------------------------------------------------------------------------
(* Types *)

(* The panel keeps the latest records; the rest is what the loops know.      *)
PanelType ==
  /\ records \in Seq(1..Len(issued)) /\ Len(records) <= MaxRecords
  /\ exitCode \in {"ok", "error"} /\ {updatePhase, seenPhase} \subseteq UpdatePhases
  /\ installModal \in BOOLEAN /\ {restart, relaunched} \subseteq BOOLEAN

LEMMA Recorded ==
  ASSUME NEW n \in Nat, NEW r \in Seq(1..n), Len(r) <= MaxRecords
  PROVE  Record(r, n + 1) \in Seq(1..(n + 1)) /\ Len(Record(r, n + 1)) <= MaxRecords
<1>1. MaxRecords \in Nat \ {0}
  BY CommandBounds
<1>2. r \in Seq(1..(n + 1)) /\ n + 1 \in 1..(n + 1) /\ Len(r) \in Nat
  <2>1. 1..n \subseteq 1..(n + 1)
    OBVIOUS
  <2> QED
    BY <2>1
<1>3. CASE Len(r) = MaxRecords
  <2>1. r # <<>>
    BY <1>1, <1>3
  <2>2. Tail(r) \in Seq(1..(n + 1)) /\ Len(Tail(r)) = Len(r) - 1
    BY <1>2, <2>1
  <2> QED
    BY <1>1, <1>2, <1>3, <2>2 DEF Record
<1>4. CASE Len(r) # MaxRecords
  <2>1. Append(r, n + 1) \in Seq(1..(n + 1)) /\ Len(Append(r, n + 1)) = Len(r) + 1
    BY <1>2
  <2>2. Len(r) + 1 <= MaxRecords
    BY <1>1, <1>2, <1>4
  <2>3. Record(r, n + 1) = Append(r, n + 1)
    BY <1>4 DEF Record
  <2> QED
    BY <2>1, <2>2, <2>3
<1> QED
  BY <1>3, <1>4

LEMMA PanelStep ==
  ASSUME CInv, PanelType, [Next]_vars
  PROVE  PanelType'
<1>1. Len(issued) \in Nat
  BY Numbers
<1>2. ASSUME NEW k \in Kinds, Dispatch(k), installModal' \in BOOLEAN
      PROVE  PanelType'
  <2>1. /\ records' = Record(records, Len(issued) + 1)
        /\ UNCHANGED <<exitCode, updatePhase, seenPhase, restart, relaunched>>
    BY <1>2 DEF Dispatch
  <2>2. Len(issued') = Len(issued) + 1
    <3>1. issued' = Append(issued, k) /\ issued \in Seq(Kinds)
      BY <1>2 DEF Dispatch, CInv, Shape
    <3> QED
      BY <3>1
  <2> QED
    BY <1>1, <1>2, <2>1, <2>2, Recorded DEF PanelType
<1>3. CASE KeyU \/ KeyInModal \/ KeyForMain
  <2>1. /\ {"check", "install"} \subseteq Kinds
        /\ installModal' \in BOOLEAN
    BY <1>3 DEF KeyU, KeyInModal, KeyForMain, Kinds, PanelType
  <2>2. \/ \E k \in Kinds : Dispatch(k)
        \/ UNCHANGED <<issued, records, exitCode, updatePhase, seenPhase, restart, relaunched>>
    BY <1>3, <2>1 DEF KeyU, KeyInModal, KeyForMain
  <2> QED
    BY <1>2, <2>1, <2>2 DEF PanelType
<1>4. CASE TuiStops \/ TuiDraws \/ NoKey \/ SendCommand \/ TuiFails
  <2>1. /\ UNCHANGED <<issued, records, exitCode, updatePhase, installModal, restart, relaunched>>
        /\ seenPhase' \in {seenPhase, updatePhase}
    BY <1>4 DEF TuiStops, TuiDraws, NoKey, SendCommand, TuiFails
  <2> QED
    BY <2>1 DEF PanelType
<1>5. CASE Main
  <2>1. /\ UNCHANGED <<issued, records, updatePhase, seenPhase, installModal, restart>>
        /\ exitCode' \in {exitCode, "ok", "error"}
        /\ relaunched' = relaunched \/ relaunched' \in BOOLEAN
    BY <1>5 DEF Main, TakeWhileConnecting, Refuse, PollConnection, NotYetConnected, Connected,
                ConnectFails, TopOfLoop, Serve, TakeCommand, NoMoreCommands, ExecuteShutdown,
                ExecuteReconnect, ExecuteRelayCommand, ExecuteOther, Join, Exit, FinishWorkers
  <2> QED
    BY <2>1 DEF PanelType
<1>6. CASE Updater
  <2>1. /\ UNCHANGED <<issued, records, exitCode, seenPhase, installModal, relaunched>>
        /\ updatePhase' = updatePhase \/ updatePhase' \in UpdatePhases
        /\ restart' = restart \/ restart' = TRUE
    BY <1>6 DEF Updater, UpdateStops, UpdateListens, UpdateTimeout, UpdateTakes, CheckEnds,
                InstallEnds, RequestRestart, UpdatePhases
  <2> QED
    BY <2>1 DEF PanelType
<1>7. CASE (\E w \in Workers : WorkerStops(w) \/ WorkerFails(w)) \/ UNCHANGED vars
  BY <1>7 DEF WorkerStops, WorkerFails, PanelType
<1> QED
  BY <1>3, <1>4, <1>5, <1>6, <1>7 DEF Next, Tui

LEMMA PanelInit == Init => PanelType
<1> SUFFICES ASSUME Init PROVE PanelType
  OBVIOUS
<1>1. Len(issued) = 0 /\ Len(records) = 0 /\ records \in Seq(1..Len(issued))
  <2>1. issued = <<>> /\ records = <<>>
    BY DEF Init
  <2> QED
    BY <2>1
<1>2. Len(records) <= MaxRecords
  BY <1>1, CommandBounds
<1> QED
  BY <1>1, <1>2, CommandBounds DEF Init, PanelType, UpdatePhases

(* What the channels carry, the panel shows and the threads hold are always  *)
(* commands that were given, and the panel never holds more than it has room *)
(* for (queue_command).                                                      *)
THEOREM CommandTypes == Spec => []TypeOK
<1>1. ASSUME NEW s \in Seq(Nat), In(s) \subseteq Commands
      PROVE  s \in Seq(Commands)
  <2>1. Len(s) \in Nat /\ s = [i \in 1..Len(s) |-> s[i]] /\ \A i \in 1..Len(s) : s[i] \in In(s)
    BY DEF In
  <2>2. s \in [1..Len(s) -> Commands]
    BY <1>1, <2>1
  <2> HIDE DEF Commands
  <2> QED
    BY <2>1, <2>2
<1>2. CInv /\ JoinInv /\ PanelType => TypeOK
  <2> SUFFICES ASSUME CInv, JoinInv, PanelType PROVE TypeOK
    OBVIOUS
  <2>1. Len(issued) \in Nat
    BY Numbers
  <2>2. commandRx \in Seq(Commands) /\ updateRx \in Seq(Commands)
    BY <1>1 DEF CInv, Shape, Channels
  <2>3. phase \in Seq(Phases) /\ Len(phase) = Len(issued)
    <3>1. phase \in [1..Len(issued) -> Phases]
      BY DEF CInv, Shape
    <3> HIDE DEF Phases
    <3> QED
      BY <2>1, <3>1
  <2>4. {inHand, reconnecting, updateInHand, tuiHolds} \subseteq Commands \cup {None}
    <3>1. Len(issued) > 0 => Len(issued) \in 1..Len(issued)
      BY <2>1
    <3>2. /\ tuiHolds \in Commands \cup {None}
          /\ {inHand, reconnecting, updateInHand} \subseteq Commands \cup {None}
      BY <3>1 DEF CInv, Stations
    <3> QED
      BY <3>2
  <2>5. toJoin \in Seq(Workers \cup {"update", "tui"})
    BY DEF JoinInv, Threads
  <2> QED
    BY <2>2, <2>3, <2>4, <2>5 DEF TypeOK, CInv, Shape, PanelType
<1> QED
  BY <1>2, CommandInit, CommandStep, JoinInit, JoinStep, PanelInit, PanelStep, PTL DEF Spec
=============================================================================

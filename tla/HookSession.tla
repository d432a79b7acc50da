----------------------------- MODULE HookSession -----------------------------
(* One session in one OpenCode process and those that resume it              *)
(* (hosts/opencode/plugin.ts): hooks and bus events append tasks to the      *)
(* session's chain, a task posts a turn to the daemon without waiting for    *)
(* the answer, an answer moves the watermark or re-arms the reconciliation,  *)
(* and reconcileSession replays what the host recorded since the watermark.  *)
(*                                                                           *)
(* Time is cut into periods more than REPLAY_OVERLAP_MS apart, so the replay *)
(* window "newer than the mark less the overlap" is "of the mark's period or *)
(* later".  A turn is a prompt or a reply; tool results are left out.  The   *)
(* watermark files are HookWatermarks; here the saved mark is a number.      *)
EXTENDS Integers, Sequences, FiniteSets

CONSTANTS
    Turns,          \* prompts and replies the host records, numbered in order
    Replies,        \* those that are an assistant's
    MaxPeriod,
    MaxCrashes,
    MaxExtra,       \* events that come again, or while something is under way
    AnswersMix      \* the daemon may fail a request and take another in one period

ASSUME SessionAssumption ==
    /\ Turns \in Nat /\ Replies \subseteq 1..Turns /\ MaxPeriod \in Nat \ {0}
    /\ MaxCrashes \in Nat /\ MaxExtra \in Nat
    /\ AnswersMix \in BOOLEAN

Turn == 1..Turns
Period == 1..MaxPeriod
Reconcile == 0      \* a task of the chain; the others post the turn of their number

VARIABLES
    \* the host and the daemon
    now, stamp,     \* the period, and the one each turn was recorded in (0: not yet)
    up,             \* the daemon answers in this period
    stored,         \* turns the daemon took
    \* the plugin's process
    chain,          \* sessionChains
    window,         \* start of the replay while reconcileSession reads the host, or 0
    reconciled,     \* reconciledSessions
    mark,           \* watermarksCache, 0 for none
    sent,           \* sentAssistant
    inflight,       \* posts not answered yet, per turn
    \* what outlives it
    saved,          \* the mark on disk
    unmarked,       \* history: turns the daemon had not taken when a process
                    \* died that had never written the session's mark
    spoilt,         \* history: a session read failed, or a process died with
                    \* requests unanswered
    crashes, extra

host == <<now, stamp, up>>
process == <<chain, window, reconciled, mark, sent, inflight>>
counters == <<crashes, extra>>
history == <<unmarked, spoilt>>
vars == <<host, stored, process, saved, history, counters>>

Recorded == {m \in Turn : stamp[m] # 0}
Queued == {chain[i] : i \in 1..Len(chain)}
Busy == chain # <<>> \/ \E m \in Turn : inflight[m] > 0

TypeOK ==
    /\ now \in Period /\ stamp \in [Turn -> Period \cup {0}] /\ up \in BOOLEAN
    /\ chain \in Seq(Turn \cup {Reconcile}) /\ window \in Period \cup {0}
    /\ reconciled \in BOOLEAN /\ mark \in Period \cup {0} /\ saved \in Period \cup {0}
    /\ sent \subseteq Replies /\ inflight \in [Turn -> Nat]
    /\ stored \subseteq Turn /\ unmarked \subseteq Turn /\ spoilt \in BOOLEAN
    /\ crashes \in 0..MaxCrashes /\ extra \in 0..MaxExtra

Init ==
    /\ now = 1 /\ stamp = [m \in Turn |-> 0] /\ up \in BOOLEAN /\ stored = {}
    /\ chain = <<>> /\ window = 0 /\ reconciled = FALSE /\ mark = 0 /\ sent = {}
    /\ inflight = [m \in Turn |-> 0]
    /\ saved = 0 /\ unmarked = {} /\ spoilt = FALSE /\ crashes = 0 /\ extra = 0

-----------------------------------------------------------------------------
(* The hooks: every event enqueues a reconciliation, ahead of its own post.  *)

(* onPromptAdmitted and session.step.ended: the host has recorded the turn.  *)
Record(m) ==
    /\ m = Cardinality(Recorded) + 1
    /\ stamp' = [stamp EXCEPT ![m] = now]
    /\ chain' = chain \o <<Reconcile, m>>
    /\ UNCHANGED <<now, up, stored, window, reconciled, mark, sent, inflight,
                   saved, history, counters>>

(* The event stream delivers a step boundary and its text again, to the      *)
(* process that had them and shortly after.                                  *)
Redeliver(m) ==
    /\ m \in Replies \cap (sent \cup Queued) /\ stamp[m] = now /\ extra < MaxExtra
    /\ chain' = chain \o <<Reconcile, m>> /\ extra' = extra + 1
    /\ UNCHANGED <<host, stored, window, reconciled, mark, sent, inflight,
                   saved, history, crashes>>

(* Any other event of the session; those that come while a task or a request *)
(* is under way are bounded.                                                 *)
OtherEvent ==
    /\ Recorded # {}
    /\ chain' = Append(chain, Reconcile)
    /\ \/ ~Busy /\ UNCHANGED extra
       \/ Busy /\ extra < MaxExtra /\ extra' = extra + 1
    /\ UNCHANGED <<host, stored, window, reconciled, mark, sent, inflight,
                   saved, history, crashes>>

(* session.idle and the compaction hook: persistWatermarks.                  *)
PersistMark ==
    /\ mark # 0
    /\ saved' = mark
    /\ UNCHANGED <<host, stored, process, history, counters>>

-----------------------------------------------------------------------------
(* The chain.                                                                *)

(* Mutant of Fresh: a reply is posted whenever it is met.                    *)
FreshAlways(S) == S

(* What seen(sentAssistant, ...) lets through.                               *)
Fresh(S) == S \ sent

Post(S) ==
    /\ inflight' = [m \in Turn |-> IF m \in S THEN inflight[m] + 1 ELSE inflight[m]]
    /\ sent' = sent \cup (S \cap Replies)

PostTurn ==
    /\ chain # <<>> /\ Head(chain) # Reconcile
    /\ Post(Fresh({Head(chain)}))
    /\ chain' = Tail(chain)
    /\ UNCHANGED <<host, stored, window, reconciled, mark, saved, history, counters>>

NextIsReconcile == chain # <<>> /\ Head(chain) = Reconcile /\ window = 0

AlreadyReconciled ==
    /\ NextIsReconcile /\ reconciled
    /\ chain' = Tail(chain)
    /\ UNCHANGED <<host, stored, window, reconciled, mark, sent, inflight,
                   saved, history, counters>>

(* No mark: the session's history is not replayed, and a mark is set.        *)
SkipHistory ==
    /\ NextIsReconcile /\ ~reconciled /\ mark = 0
    /\ mark' = now /\ reconciled' = TRUE /\ chain' = Tail(chain)
    /\ UNCHANGED <<host, stored, window, sent, inflight, saved, history, counters>>

ReadHost ==
    /\ NextIsReconcile /\ ~reconciled /\ mark # 0
    /\ window' = mark
    /\ UNCHANGED <<host, stored, chain, reconciled, mark, sent, inflight,
                   saved, history, counters>>

(* The read returned nothing: the next event tries again.                    *)
ReadFailed ==
    /\ window # 0
    /\ window' = 0 /\ chain' = Tail(chain) /\ spoilt' = TRUE
    /\ UNCHANGED <<host, stored, reconciled, mark, sent, inflight,
                   saved, unmarked, counters>>

(* Mutant of Replayed: the window is open at the mark.                       *)
ReplayedAfter == Fresh({m \in Recorded : stamp[m] > window})

Replayed == Fresh({m \in Recorded : stamp[m] >= window})

Replay ==
    /\ window # 0
    /\ Post(Replayed)
    /\ reconciled' = TRUE /\ window' = 0 /\ chain' = Tail(chain)
    /\ UNCHANGED <<host, stored, mark, saved, history, counters>>

-----------------------------------------------------------------------------
(* The answers to post().                                                    *)
Answered(m) == inflight[m] > 0 /\ inflight' = [inflight EXCEPT ![m] = @ - 1]

Ack(m) ==
    /\ Answered(m) /\ up
    /\ stored' = stored \cup {m}
    /\ mark' = IF mark < stamp[m] THEN stamp[m] ELSE mark
    /\ UNCHANGED <<host, chain, window, reconciled, sent, saved, history, counters>>

(* Mutant of Rearmed: the failure is only logged.                            *)
NotRearmed == reconciled

Rearmed == FALSE

(* A rejected, failed or timed out request; the daemon may have taken it.    *)
Nack(m) ==
    /\ Answered(m)
    /\ \/ /\ ~up \/ AnswersMix
          /\ UNCHANGED stored
       \/ /\ up
          /\ stored' = stored \cup {m}
    /\ reconciled' = Rearmed /\ sent' = sent \ {m}
    /\ UNCHANGED <<host, chain, window, mark, saved, history, counters>>

-----------------------------------------------------------------------------
(* Requests are answered or time out long before a period ends; the daemon   *)
(* is back in the last one.                                                  *)
NextPeriod ==
    /\ ~Busy /\ now < MaxPeriod
    /\ now' = now + 1 /\ up' \in IF now' = MaxPeriod THEN {TRUE} ELSE BOOLEAN
    /\ UNCHANGED <<stamp, stored, process, saved, history, counters>>

(* The process dies and another opens the session; requests on their way     *)
(* reach the daemon or not.                                                  *)
Crash ==
    /\ crashes < MaxCrashes
    /\ crashes' = crashes + 1
    /\ \E S \in SUBSET {m \in Turn : up /\ inflight[m] > 0} : stored' = stored \cup S
    /\ chain' = <<>> /\ window' = 0 /\ reconciled' = FALSE /\ sent' = {}
    /\ inflight' = [m \in Turn |-> 0] /\ mark' = saved
    /\ unmarked' = IF saved = 0 THEN unmarked \cup (Recorded \ stored') ELSE unmarked
    /\ spoilt' = (spoilt \/ \E m \in Turn : inflight[m] > 0)
    /\ UNCHANGED <<host, saved, extra>>

Next ==
    \/ \E m \in Turn : Record(m) \/ Redeliver(m) \/ Ack(m) \/ Nack(m)
    \/ OtherEvent \/ PersistMark
    \/ PostTurn \/ AlreadyReconciled \/ SkipHistory \/ ReadHost \/ ReadFailed \/ Replay
    \/ NextPeriod \/ Crash

Spec == Init /\ [][Next]_vars

-----------------------------------------------------------------------------
(* The event loop runs the chain, post() times out, time goes on whenever    *)
(* nothing is under way, and the session is used again once all is quiet.    *)
FairSpec ==
    /\ Spec
    /\ WF_vars(PostTurn \/ AlreadyReconciled \/ SkipHistory \/ ReadHost)
    /\ WF_vars(ReadFailed \/ Replay)
    /\ \A m \in Turn : WF_vars(Ack(m) \/ Nack(m))
    /\ SF_vars(NextPeriod)
    /\ WF_vars(~Busy /\ OtherEvent)

(* A turn the daemon does not have is on its way, or is in the window of the *)
(* replay to come.                                                           *)
Covered(m) ==
    \/ m \in stored \/ m \in Queued \/ inflight[m] > 0
    \/ window # 0 /\ stamp[m] >= window
    \/ ~reconciled /\ mark # 0 /\ stamp[m] >= mark

(* No outage leaves a hole behind: what the daemon refused, or what a crash  *)
(* left in the chain, is in the window of the next replay.  Three conditions *)
(* are the code's own: a process that dies has written the session's mark,   *)
(* or the next one skips the history (reconcileSession) and what the first   *)
(* had not delivered is lost (unmarked); the host can be read and no process *)
(* dies over an open request (spoilt); and the daemon does not refuse one    *)
(* request while it takes another (AnswersMix).                              *)
OutagesCovered == ~spoilt => \A m \in Recorded \ unmarked : Covered(m)

(* scheduleRecovery says so of every outage: "an outage hole can never be    *)
(* leapfrogged by a later acked turn".                                       *)
NeverLeapfrogged == \A m \in Recorded : Covered(m)

(* reconcileSession says of a session without a mark: "the FIRST acked turn  *)
(* from now on writes the watermark that makes the NEXT crash recoverable".  *)
FirstAckRecovers == ~spoilt /\ stored # {} => \A m \in Recorded : Covered(m)

(* A reply is never on its way twice: the live lane and the replay share its *)
(* fingerprint, which only a failed post takes back.                         *)
OneReplyInFlight == \A m \in Replies : inflight[m] <= 1

(* And so each turn reaches the daemon once it is back, under the conditions *)
(* of OutagesCovered.                                                        *)
TurnsArrive == \A m \in Turn : m \in Recorded ~> (m \in stored \cup unmarked \/ spoilt)
-----------------------------------------------------------------------------
(* Why the first and the third hold, when the daemon does not refuse one     *)
(* request while it takes another.                                           *)
Held(m) == m \in stored \cup unmarked \/ m \in Queued \/ inflight[m] > 0
AllHeld == \A m \in Recorded : Held(m)
Posting == (\E m \in Turn : inflight[m] > 0) \/ (chain # <<>> /\ Head(chain) # Reconcile)

(* Each task that posts follows a reconciliation, in the period of its turn. *)
ChainOK ==
    /\ \A i \in 2..Len(chain) : chain[i] # Reconcile => chain[i-1] = Reconcile
    /\ \A m \in Queued \cap Turn : stamp[m] = now

(* Marks are of periods that have come; a session that has reconciled or is  *)
(* posting has one, and only acknowledgements move it ahead of a replay that *)
(* has begun.                                                                *)
TimesOK ==
    /\ \A m \in Turn : stamp[m] <= now
    /\ saved <= mark /\ mark <= now
    /\ Posting \/ reconciled => mark # 0
    /\ window # 0 => /\ window <= mark /\ (up \/ window = mark) /\ ~reconciled
                     /\ chain # <<>> /\ Head(chain) = Reconcile

(* A reply that is on its way has its fingerprint, and one that has it is on *)
(* its way or stored.                                                        *)
SentOK ==
    /\ \A m \in Replies : inflight[m] <= 1 /\ (inflight[m] > 0 => m \in sent)
    /\ \A m \in sent : inflight[m] > 0 \/ m \in stored

(* What is refused is not behind the mark.                                   *)
RefusedOK == ~up => \A m \in Turn : inflight[m] > 0 => stamp[m] # 0 /\ mark <= stamp[m]

(* While the daemon takes requests, nothing is posted before the replay.     *)
ReplayedOK ==
    ~spoilt => /\ \A m \in Recorded : Held(m) \/ (~reconciled /\ mark # 0 /\ mark <= stamp[m])
               /\ up /\ Posting => AllHeld

Sound == TypeOK /\ ChainOK /\ TimesOK /\ SentOK /\ RefusedOK
=============================================================================

------------------------------ MODULE Sending -------------------------------
(***************************************************************************)
(* Sending files over Taildrop: the queue of files the system's share      *)
(* sheet handed over (share.go) and sendOne (ops.go), which every sender   *)
(* uses.  Shared files wait in s.shares until the page sends one of them   *)
(* to some peers (handleShareSend); handleSend, quickSend and send_file    *)
(* send a file of their own.                                               *)
(*                                                                         *)
(* sendOne starts a push in a goroutine of its own and waits for its       *)
(* result or for the end of its context, whichever it sees: then the push  *)
(* goes on without it.  Progress and badge events to the pages are left    *)
(* out: nothing reads them but the page.                                   *)
(***************************************************************************)
EXTENDS Integers, Sequences, FiniteSets, SequencesExt

CONSTANTS
  Files,      \* files the share sheet may hand over
  Own,        \* a file another sender brings along
  Peers,
  PeerLists,  \* the lists of peers a request may name, a peer perhaps twice
  Senders,    \* requests that send
  SendLimits  \* bound: requests, failures (of the daemon, of a read), clears

ASSUME SendingAssumption ==
  /\ Own \notin Files /\ IsFiniteSet(Senders)
  /\ \A ps \in PeerLists : ps \in Seq(Peers) \ {<<>>}
  /\ SendLimits \in [{"send", "fail", "clear"} -> Nat]

VARIABLES
  shares,     \* s.shares
  sender,     \* where each request stands
  push,       \* the push each request waits for
  ended,      \* requests whose context has ended
  orphans,    \* pushes nobody waits for any more, with their number
  fresh,      \* files not handed over yet
  logged,     \* how often the history says "sent", by file and peer
  delivered,  \* history: how often a peer got a file
  gone,       \* history: files the user cleared or that could not be opened
  answered,   \* history: files and peers a request was answered "ok" for
  missed,     \* history: files and peers whose push was given up, or its answer lost
  asked,      \* history: how often requests named a file and a peer
  spent       \* how much of SendLimits is used up

sendingVars == <<shares, sender, push, ended, orphans, fresh, logged, delivered,
                 gone, answered, missed, asked, spent>>

Sends == (Files \cup {Own}) \X Peers
NoSender == [at |-> "idle", file |-> Own, to |-> <<>>, left |-> <<>>]
Bump(f, x) == [f EXCEPT ![x] = @ + 1]

SendingInit ==
  /\ shares = <<>>
  /\ sender = [r \in Senders |-> NoSender]
  /\ push = [r \in Senders |-> "none"]
  /\ ended = {}
  /\ orphans = [s \in Sends |-> 0]
  /\ fresh = Files
  /\ logged = [s \in Sends |-> 0] /\ delivered = [s \in Sends |-> 0]
  /\ gone = {} /\ answered = {} /\ missed = {}
  /\ asked = [s \in Sends |-> 0]
  /\ spent = [k \in DOMAIN SendLimits |-> 0]

SpendOn(k) == spent[k] < SendLimits[k] /\ spent' = Bump(spent, k)
Target(r) == <<sender[r].file, Head(sender[r].left)>>

\* The request is over.
Leave(r) ==
  /\ sender' = [sender EXCEPT ![r] = NoSender]
  /\ push' = [push EXCEPT ![r] = "none"]
  /\ ended' = ended \ {r}

\* Mutant: a failed send does not put its file back.
GiveUpForget(r) == Leave(r) /\ UNCHANGED shares

\* handleShareSend and the others after an error: a shared file is put back.
GiveUp(r) ==
  /\ shares' = IF sender[r].file \in Files THEN Append(shares, sender[r].file) ELSE shares
  /\ Leave(r)

-----------------------------------------------------------------------------
\* enqueueShare: the share sheet, a second instance or the command line.
EnqueueShare(f) ==
  /\ f \in fresh
  /\ fresh' = fresh \ {f}
  /\ shares' = Append(shares, f)
  /\ UNCHANGED <<sender, push, ended, orphans, logged, delivered, gone, answered,
                 missed, asked, spent>>

\* handleSharePending, DELETE.
ClearShares ==
  /\ shares # <<>> /\ SpendOn("clear")
  /\ gone' = gone \cup ToSet(shares)
  /\ shares' = <<>>
  /\ UNCHANGED <<sender, push, ended, orphans, fresh, logged, delivered, answered,
                 missed, asked>>

\* How often list ps names peer p.
Times(ps, p) == Cardinality({i \in DOMAIN ps : ps[i] = p})

\* handleShareSend joins the fields peer and peers as they come.
Begin(r, f, ps) ==
  /\ sender[r].at = "idle" /\ SpendOn("send")
  /\ asked' = [s \in Sends |-> asked[s] + IF s[1] = f THEN Times(ps, s[2]) ELSE 0]
  /\ sender' = [sender EXCEPT ![r] = [at |-> "next", file |-> f, to |-> ps, left |-> ps]]
  /\ UNCHANGED <<push, ended, orphans, fresh, logged, delivered, answered, missed>>

\* takeShare: the first entry of the file leaves the queue.
TakeFirst(f) ==
  \E i \in DOMAIN shares :
    /\ shares[i] = f /\ \A j \in 1..(i - 1) : shares[j] # f
    /\ shares' = RemoveAt(shares, i)

\* Mutant: the file is sent from the queue and stays there.
TakeShareKeep(r, f, ps) == f \in ToSet(shares) /\ Begin(r, f, ps) /\ UNCHANGED <<shares, gone>>

\* handleShareSend takes the file from the queue.
TakeShare(r, f, ps) ==
  /\ TakeFirst(f)
  /\ Begin(r, f, ps)
  /\ UNCHANGED gone

\* It cannot be opened (any more); it is not put back.
OpenFails(r, f, ps) ==
  /\ TakeFirst(f) /\ sender[r].at = "idle" /\ SpendOn("fail")
  /\ gone' = gone \cup {f}
  /\ UNCHANGED <<sender, push, ended, orphans, fresh, logged, delivered, answered, missed,
                 asked>>

\* The page's upload, the tray's file picker and send_file bring a file of their own.
SendOwn(r, ps) == Begin(r, Own, ps) /\ UNCHANGED <<shares, gone>>
HandleSend(r, p) == SendOwn(r, <<p>>)
QuickSend(r, p) == SendOwn(r, <<p>>)
SendFile(r, ps) == SendOwn(r, ps)

-----------------------------------------------------------------------------
\* sendOne: the push to the next peer starts.
StartPush(r) ==
  /\ sender[r].at = "next" /\ sender[r].left # <<>>
  /\ sender' = [sender EXCEPT ![r].at = "pushing"]
  /\ push' = [push EXCEPT ![r] = "going"]
  /\ UNCHANGED <<shares, ended, orphans, fresh, logged, delivered, gone, answered,
                 missed, asked, spent>>

\* Seek fails before it.
SeekFails(r) ==
  /\ sender[r].at = "next" /\ sender[r].file \in Files /\ sender[r].left # <<>>
  /\ SpendOn("fail")
  /\ GiveUp(r)
  /\ UNCHANGED <<orphans, fresh, logged, delivered, gone, answered, missed, asked>>

\* The daemon has the whole file, or refuses it, or has it and its answer is lost; a
\* context that ended stops a push.
PushEnds(r, result, arrives) ==
  /\ push[r] = "going" /\ (result = "ok" => arrives)
  /\ push' = [push EXCEPT ![r] = result]
  /\ delivered' = IF arrives THEN Bump(delivered, Target(r)) ELSE delivered
  /\ missed' = IF arrives /\ result = "failed" THEN missed \cup {Target(r)} ELSE missed
  /\ IF result = "ok" \/ r \in ended THEN UNCHANGED spent ELSE SpendOn("fail")
  /\ UNCHANGED <<shares, sender, ended, orphans, fresh, logged, gone, answered, asked>>

OrphanEnds(s, arrives) ==
  /\ orphans[s] > 0
  /\ orphans' = [orphans EXCEPT ![s] = @ - 1]
  /\ delivered' = IF arrives THEN Bump(delivered, s) ELSE delivered
  /\ UNCHANGED <<shares, sender, push, ended, fresh, logged, gone, answered, missed,
                 asked, spent>>

\* Mutant: every send is logged as sent.
PushedLogAll(r) ==
  /\ sender[r].at = "pushing" /\ push[r] = "ok"
  /\ logged' = [s \in Sends |-> IF s[1] = sender[r].file THEN logged[s] + 1 ELSE logged[s]]
  /\ sender' = [sender EXCEPT ![r].at = "next", ![r].left = Tail(@)]
  /\ push' = [push EXCEPT ![r] = "none"]
  /\ UNCHANGED <<shares, ended, orphans, fresh, delivered, gone, answered, missed,
                 asked, spent>>

\* sendOne sees the result: the history gets it (a failure as "send_failed").
Pushed(r) ==
  /\ sender[r].at = "pushing" /\ push[r] = "ok"
  /\ logged' = Bump(logged, Target(r))
  /\ sender' = [sender EXCEPT ![r].at = "next", ![r].left = Tail(@)]
  /\ push' = [push EXCEPT ![r] = "none"]
  /\ UNCHANGED <<shares, ended, orphans, fresh, delivered, gone, answered, missed,
                 asked, spent>>

PushFailed(r) ==
  /\ sender[r].at = "pushing" /\ push[r] = "failed"
  /\ GiveUp(r)
  /\ UNCHANGED <<orphans, fresh, logged, delivered, gone, answered, missed, asked, spent>>

\* Mutant: the context is looked at before a push, not while it goes on.
AbandonBefore(r) ==
  /\ sender[r].at = "next" /\ sender[r].left # <<>> /\ r \in ended
  /\ missed' = missed \cup {Target(r)}
  /\ GiveUp(r)
  /\ UNCHANGED <<orphans, fresh, logged, delivered, gone, answered, asked, spent>>

\* sendOne sees that the context ended: nothing is recorded, the push goes on.
Abandon(r) ==
  /\ sender[r].at = "pushing" /\ r \in ended
  /\ orphans' = IF push[r] = "going" THEN Bump(orphans, Target(r)) ELSE orphans
  /\ missed' = missed \cup {Target(r)}
  /\ GiveUp(r)
  /\ UNCHANGED <<fresh, logged, delivered, gone, answered, asked, spent>>

\* All peers have it.
AnswerSent(r) ==
  /\ sender[r].at = "next" /\ sender[r].left = <<>>
  /\ answered' = answered \cup ({sender[r].file} \X ToSet(sender[r].to))
  /\ Leave(r)
  /\ UNCHANGED <<shares, orphans, fresh, logged, delivered, gone, missed, asked, spent>>

\* The browser goes away, or the thirty minutes are over.
ContextEnds(r) ==
  /\ sender[r].at # "idle" /\ r \notin ended
  /\ ended' = ended \cup {r}
  /\ UNCHANGED <<shares, sender, push, orphans, fresh, logged, delivered, gone, answered,
                 missed, asked, spent>>

SenderStep(r) ==
  StartPush(r) \/ SeekFails(r) \/ Pushed(r) \/ PushFailed(r) \/ Abandon(r) \/ AnswerSent(r)

SendingNext ==
  \/ \E f \in Files : EnqueueShare(f)
  \/ ClearShares
  \/ \E r \in Senders :
       \/ \E p \in Peers : HandleSend(r, p) \/ QuickSend(r, p)
       \/ \E ps \in PeerLists :
            SendFile(r, ps) \/ \E f \in Files : TakeShare(r, f, ps) \/ OpenFails(r, f, ps)
       \/ SenderStep(r) \/ ContextEnds(r)
       \/ \E result \in {"ok", "failed"} : \E arrives \in BOOLEAN : PushEnds(r, result, arrives)
  \/ \E s \in Sends, arrives \in BOOLEAN : OrphanEnds(s, arrives)

\* A request runs on.  handleShareSend gives itself thirty minutes; handleSend ends
\* when the browser goes away or the daemon answers, and neither has to happen.
TimeIsUp(r) == sender[r].file \in Files /\ ContextEnds(r)
SendingFair == \A r \in Senders : WF_sendingVars(SenderStep(r)) /\ WF_sendingVars(TimeIsUp(r))

SendingSpec == SendingInit /\ [][SendingNext]_sendingVars /\ SendingFair

-----------------------------------------------------------------------------
SendingTypeOK ==
  /\ shares \in Seq(Files) /\ fresh \subseteq Files /\ gone \subseteq Files
  /\ \A r \in Senders :
       /\ sender[r].at \in {"idle", "next", "pushing"}
       /\ sender[r].file \in Files \cup {Own}
       /\ sender[r].to \in Seq(Peers) /\ sender[r].left \in Seq(Peers)
       /\ push[r] \in {"none", "going", "ok", "failed"}
       /\ sender[r].at = "pushing" <=> push[r] # "none"
  /\ ended \subseteq Senders
  /\ {orphans, logged, delivered, asked} \subseteq [Sends -> Nat]
  /\ answered \subseteq Sends /\ missed \subseteq Sends

Holders(f) == {r \in Senders : sender[r].file = f}
Copies(f) == Cardinality({i \in DOMAIN shares : shares[i] = f}) + Cardinality(Holders(f))

\* A file the system handed over is in the queue or with the one request that sends
\* it, never both and never with two, until its peers have it, the user cleared it or
\* it cannot be opened: however requests fail, end early and clear meanwhile.
NoShareLost ==
  \A f \in Files :
    /\ Copies(f) <= 1
    /\ f \notin fresh \cup gone => Copies(f) = 1 \/ \E p \in Peers : <<f, p>> \in answered

Unread(s) ==
  Cardinality({r \in Senders : sender[r].at = "pushing" /\ push[r] = "ok" /\ Target(r) = s})

\* The history says "sent" only of files that arrived; an arrival is missing from it
\* only when the request that pushed it had ended or the daemon's answer was lost; a
\* request that was answered "ok" has reached all its peers; and a peer gets a shared
\* file no more often than requests named the two: what is put back, or still under way
\* after its request ended, is not sent once more by itself.
SendsAccounted ==
  /\ \A s \in Sends : logged[s] + Unread(s) <= delivered[s]
  /\ \A s \in Sends \ missed : logged[s] + Unread(s) = delivered[s]
  /\ \A s \in answered : delivered[s] > 0
  /\ \A s \in Files \X Peers : delivered[s] + orphans[s] <= asked[s]

\* Every request that sends a shared file is answered, though the daemon may never
\* answer it: the file does not stay with a request for ever.
EverySendEnds == \A r \in Senders : sender[r].file \in Files ~> sender[r].at = "idle"
=============================================================================

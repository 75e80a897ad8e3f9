------------------------------ MODULE Updates -------------------------------
(***************************************************************************)
(* Is there a newer release?  Two answers are kept: that of the version    *)
(* poll, on every build (updater_shared.go: every six hours, and on demand *)
(* where there is no updater), and that of the desktop's updater, which    *)
(* checks when asked and installs what it found (updater.go).  The page is *)
(* shown the poll's until the updater was asked, then the updater's.       *)
(*                                                                         *)
(* The updater itself is Wails'.  It answers a check twice: to the caller, *)
(* and by an event that is handled some time later.  A version is a        *)
(* number; the order is semverCompare's.  The events that make the page    *)
(* ask again are left out.                                                 *)
(***************************************************************************)
EXTENDS Integers, FiniteSets

CONSTANTS
  Versions,     \* what the feed may list
  Current,      \* appVersion
  Polls,        \* calls of the poll that may be under way
  Jobs,         \* checks and installs that may be under way
  UpdateLimits  \* bound: new releases, jobs, failures

ASSUME UpdatesAssumption ==
  /\ Versions \subseteq Nat \ {0} /\ Current \in Versions
  /\ UpdateLimits \in [{"release", "job", "fail"} -> Nat]

VARIABLES
  feed,     \* the version in the release manifest
  polling,  \* what each call of the poll has read, 0 when there is none
  poll,     \* s.version
  state,    \* s.update.st
  checked,  \* s.update.checked
  job,      \* where each check or install stands, and what its check was told
  notices,  \* events of the updater that have not been handled
  found,    \* what the updater resolved last, 0 if nothing
  listed,   \* history: the versions the feed has listed
  shaky,    \* history: jobs whose check another check or an event overlapped
  spurious, \* history: installs that were told there is no update although their
            \* own check had found one, until the job is used again
  installed,\* the app is restarting into this version, 0 if it is not
  done      \* how much of UpdateLimits is used up

updatesVars == <<feed, polling, poll, state, checked, job, notices, found, listed, shaky,
                 spurious, installed, done>>

Told(kind, v) == [state |-> kind, latest |-> v, available |-> kind = "available"]
NoJob == [at |-> "none", install |-> FALSE, release |-> 0]

UpdatesInit ==
  /\ feed \in Versions
  /\ polling = [a \in Polls |-> 0]
  /\ poll = [latest |-> 0, available |-> FALSE]
  /\ state = Told("idle", 0)
  /\ checked = FALSE
  /\ job = [q \in Jobs |-> NoJob]
  /\ notices = {}
  /\ found = 0
  /\ listed = {feed} /\ shaky = {} /\ spurious = {}
  /\ installed = 0
  /\ done = [k \in DOMAIN UpdateLimits |-> 0]

Use(k) == done[k] < UpdateLimits[k] /\ done' = [done EXCEPT ![k] = @ + 1]
Running == installed = 0

\* A release is published, or one is taken back.
Publish(v) ==
  /\ Running /\ v # feed /\ Use("release")
  /\ feed' = v
  /\ listed' = listed \cup {v}
  /\ UNCHANGED <<polling, poll, state, checked, job, notices, found, shaky, spurious, installed>>

-----------------------------------------------------------------------------
\* queryLatestVersion; when it fails, the poll is over and nothing changes.
PollFeed(a) ==
  /\ Running /\ polling[a] = 0
  /\ polling' = [polling EXCEPT ![a] = feed]
  /\ UNCHANGED <<feed, poll, state, checked, job, notices, found, listed, shaky, spurious, installed, done>>

\* Mutant: another version than the running one counts as newer.
PolledAnother(a) ==
  /\ Running /\ polling[a] # 0
  /\ poll' = [latest |-> polling[a], available |-> polling[a] # Current]
  /\ polling' = [polling EXCEPT ![a] = 0]
  /\ UNCHANGED <<feed, state, checked, job, notices, found, listed, shaky, spurious, installed, done>>

\* The check of startVersionCheck, and versionCheckNow.
Polled(a) ==
  /\ Running /\ polling[a] # 0
  /\ poll' = [latest |-> polling[a], available |-> polling[a] > Current]
  /\ polling' = [polling EXCEPT ![a] = 0]
  /\ UNCHANGED <<feed, state, checked, job, notices, found, listed, shaky, spurious, installed, done>>

-----------------------------------------------------------------------------
\* check, on its own or for install.
BeginCheck(q, install) ==
  /\ Running /\ job[q].at = "none" /\ Use("job")
  /\ state' = Told("checking", 0)
  /\ job' = [job EXCEPT ![q] = [at |-> "checking", install |-> install, release |-> 0]]
  /\ shaky' = (shaky \ {q}) \cup {p \in Jobs \ {q} : job[p].at # "none"}
                \cup (IF notices # {} \/ \E p \in Jobs \ {q} : job[p].at # "none"
                      THEN {q} ELSE {})
  /\ spurious' = spurious \ {q}
  /\ UNCHANGED <<feed, polling, poll, checked, notices, found, listed, installed>>

\* The updater answers; the event follows.
Answer(q) ==
  LET release == IF feed > Current THEN feed ELSE 0 IN
  /\ Running /\ job[q].at = "checking"
  /\ checked' = TRUE
  /\ found' = release
  /\ notices' = notices \cup {Told(IF release = 0 THEN "idle" ELSE "available", release)}
  /\ job' = [job EXCEPT ![q].at = "told", ![q].release = release]
  /\ UNCHANGED <<feed, polling, poll, state, listed, shaky, spurious, installed, done>>

\* The feed cannot be read; that counts as an answer too.
AnswerFails(q) ==
  /\ Running /\ job[q].at = "checking" /\ Use("fail")
  /\ checked' = TRUE
  /\ notices' = notices \cup {Told("error", 0)}
  /\ job' = [job EXCEPT ![q].at = "failing"]
  /\ UNCHANGED <<feed, polling, poll, state, found, listed, shaky, spurious, installed>>

\* check notes the failure; an install ends with it.
SetError(q) ==
  /\ Running /\ job[q].at = "failing"
  /\ state' = Told("error", 0)
  /\ job' = [job EXCEPT ![q] = NoJob]
  /\ UNCHANGED <<feed, polling, poll, checked, notices, found, listed, shaky, spurious,
                 installed, done>>

\* Mutant: the answer is left to the event.
SetCheckedNot(q) ==
  /\ Running /\ job[q].at = "told"
  /\ job' = [job EXCEPT ![q] = IF job[q].install THEN [@ EXCEPT !.at = "decide"] ELSE NoJob]
  /\ UNCHANGED <<feed, polling, poll, state, checked, notices, found, listed, shaky, spurious,
                 installed, done>>

\* check notes the answer; an install goes on.
SetChecked(q) ==
  LET v == job[q].release IN
  /\ Running /\ job[q].at = "told"
  /\ state' = Told(IF v = 0 THEN "idle" ELSE "available", v)
  /\ job' = [job EXCEPT ![q] = IF job[q].install THEN [@ EXCEPT !.at = "decide"] ELSE NoJob]
  /\ UNCHANGED <<feed, polling, poll, checked, notices, found, listed, shaky, spurious,
                 installed, done>>

\* install reads the state again: errUpdateNotFound,
NotFound(q) ==
  /\ Running /\ job[q].at = "decide" /\ ~state.available
  /\ spurious' = IF job[q].release = 0 THEN spurious ELSE spurious \cup {q}
  /\ job' = [job EXCEPT ![q] = NoJob]
  /\ UNCHANGED <<feed, polling, poll, state, checked, notices, found, listed, shaky, installed, done>>

\* or DownloadAndInstall of what the updater resolved,
Download(q) ==
  /\ Running /\ job[q].at = "decide" /\ state.available /\ found # 0
  /\ notices' = notices \cup {Told("downloading", 0)}
  /\ job' = [job EXCEPT ![q].at = "downloading", ![q].release = found]
  /\ UNCHANGED <<feed, polling, poll, state, checked, found, listed, shaky, spurious, installed, done>>

\* which may fail, or find that nothing is resolved any more,
DownloadFails(q) ==
  /\ Running
  /\ \/ job[q].at = "decide" /\ state.available /\ found = 0 /\ UNCHANGED done
     \/ job[q].at = "downloading" /\ Use("fail")
  /\ notices' = notices \cup {Told("error", 0)}
  /\ job' = [job EXCEPT ![q] = NoJob]
  /\ UNCHANGED <<feed, polling, poll, state, checked, found, listed, shaky, spurious, installed>>

\* the swap of the program's file,
Swap(q) ==
  /\ Running /\ job[q].at = "downloading"
  /\ notices' = notices \cup {Told("installed", 0)}
  /\ job' = [job EXCEPT ![q].at = "installed"]
  /\ UNCHANGED <<feed, polling, poll, state, checked, found, listed, shaky, spurious, installed, done>>

\* and Restart.
Restart(q) ==
  /\ Running /\ job[q].at = "installed"
  /\ installed' = job[q].release
  /\ UNCHANGED <<feed, polling, poll, state, checked, job, notices, found, listed, shaky, spurious, done>>

\* It fails, and the updater may say so: the program runs on, for all its file is new.
RestartFails(q) ==
  /\ Running /\ job[q].at = "installed" /\ Use("fail")
  /\ notices' \in {notices, notices \cup {Told("error", 0)}}
  /\ job' = [job EXCEPT ![q] = NoJob]
  /\ UNCHANGED <<feed, polling, poll, state, checked, found, listed, shaky, spurious, installed>>

\* initUpdater's handlers: an event of the updater replaces the state; but for the
\* events of a check, the version is kept.
Notice(n) ==
  /\ Running /\ n \in notices
  /\ notices' = notices \ {n}
  /\ state' = IF n.state \in {"downloading", "installed", "error"} THEN [n EXCEPT !.latest = state.latest] ELSE n
  /\ shaky' = shaky \cup {q \in Jobs : job[q].at # "none"}
  /\ UNCHANGED <<feed, polling, poll, checked, job, found, listed, spurious, installed, done>>

UpdatesNext ==
  \/ \E v \in Versions : Publish(v)
  \/ \E a \in Polls : PollFeed(a) \/ Polled(a)
  \/ \E q \in Jobs :
       \/ \E install \in BOOLEAN : BeginCheck(q, install)
       \/ Answer(q) \/ AnswerFails(q) \/ SetChecked(q) \/ SetError(q)
       \/ NotFound(q) \/ Download(q) \/ DownloadFails(q) \/ Swap(q)
       \/ Restart(q) \/ RestartFails(q)
  \/ \E n \in notices : Notice(n)

UpdatesSpec == UpdatesInit /\ [][UpdatesNext]_updatesVars

-----------------------------------------------------------------------------
\* withPolledAvailability: what handleUpdate shows.
Shown ==
  IF checked \/ state.available \/ ~poll.available
    THEN state
    ELSE Told("available", poll.latest)

Releases == Versions \cup {0}
States == [state : {"idle", "checking", "available", "downloading", "installed", "error"},
           latest : Releases, available : BOOLEAN]
Work == [at : {"none", "checking", "told", "failing", "decide", "downloading", "installed"},
         install : BOOLEAN, release : Releases]

UpdatesTypeOK ==
  /\ feed \in Versions /\ listed \subseteq Versions
  /\ polling \in [Polls -> Releases]
  /\ poll \in [latest : Releases, available : BOOLEAN]
  /\ state \in States /\ notices \subseteq States
  /\ checked \in BOOLEAN
  /\ job \in [Jobs -> Work]
  /\ shaky \subseteq Jobs /\ spurious \subseteq Jobs
  /\ {found, installed} \subseteq Releases

\* What the page offers, and what the app restarts into, is a release the feed has
\* listed and newer than the running one: never an older one after a release was taken
\* back; and as long as the updater was not asked, what the poll found is offered.
OffersOnlyNewer ==
  /\ Shown.available => Shown.latest > Current /\ Shown.latest \in listed
  /\ ~Running => installed > Current /\ installed \in listed
  /\ (~checked /\ poll.available) => Shown.available

\* updater.go:26 "errUpdateNotFound is returned when an install was asked for but the
\* feed has nothing newer": true of an install whose check no other check and no event
\* of the updater overlapped.
NotFoundUnlessRaced == spurious \subseteq shaky

-----------------------------------------------------------------------------
\* What the source says and the code does not keep; no run checks these two.

\* updater.go:26, without the exception.
NotFoundIsTrue == spurious = {}

\* updater.go:137-138 "hasChecked reports whether the Wails updater has answered [...].
\* Until it has, the version poll is the only source": a check that failed is counted
\* as an answer, and from then on what the poll found is not offered.
FailureIsNoAnswer == (checked /\ poll.available) => state.state # "error"
=============================================================================

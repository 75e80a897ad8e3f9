------------------------------- MODULE Config -------------------------------
(***************************************************************************)
(* The settings (config in main.go; handleConfig and handleDeviceHidden in *)
(* server.go; handleMcpStatus and handleMcpRotate in mcp.go).  A handler   *)
(* changes the config in memory under cfgMu, takes a copy, and writes the  *)
(* copy to config.json after it let go of cfgMu, through a temporary file  *)
(* that has one name for everybody.  The program that starts reads the     *)
(* file, mints what it lacks, and saves in between, before it serves; of   *)
(* a save that fails then there is a line in the log, and it runs on.      *)
(*                                                                         *)
(* A value is the number of the request, or of the start, that gave it, 0  *)
(* by default.  One setting stands for each way a setting is treated:      *)
(*   autoSave       applied by loadConfig after it has minted and saved    *)
(*                  (so are lan and the notify settings)                   *)
(*   hiddenDevices  a map shared with the copies, saved without a copy     *)
(*   mcpEnabled, mcpToken  changed in the copy first, both of them put     *)
(*                  into memory when the copy is saved                     *)
(*   shortcut       saved but not read by loadConfig                       *)
(***************************************************************************)
EXTENDS Integers

CONSTANTS
  Requests,  \* settings requests in flight
  Main,      \* the program that starts
  Legacy,    \* the program may start on a config from before session tokens
  ConfigLimits     \* bound: settings requests, failing saves, crashes

ASSUME ConfigAssumption ==
  /\ Legacy \in BOOLEAN /\ Main \notin Requests
  /\ ConfigLimits \in [{"set", "fail", "crash"} -> Nat]

Mcp == {"mcpEnabled", "mcpToken"}
Fields == {"autoSave", "hiddenDevices", "shortcut"} \cup Mcp
Minted == {"installID", "token"}
Keys == Fields \cup Minted
Early == {"hiddenDevices"} \cup Mcp
Late == {"autoSave"}
Savers == Requests \cup {Main}

VARIABLES
  boot,    \* how far the program has started
  read,    \* f of loadConfig: what it read
  mem,     \* s.cfg, nothing while no process runs
  conf,    \* config.json
  tmp,     \* config.json.tmp
  pc,      \* where each request, and the program that starts, stands
  asks,    \* the settings it is about
  copy,    \* the config it saves
  fd,      \* the file it has open: under which name it is now
  issued,  \* history: the last value given to each setting
  acked,   \* history: the newest value of each setting a request was answered for
  current, \* the same, since the process started
  unsaved, \* history: the last save failed
  raced,   \* history: a request came while another was on its way
  used     \* how much of ConfigLimits is used up

configVars == <<boot, read, mem, conf, tmp, pc, asks, copy, fd, issued, acked, current,
                unsaved, raced, used>>

Blank == [k \in Keys |-> 0]
Missing == [kind |-> "missing"]
Torn == [kind |-> "torn"]   \* empty, cut short or two texts over each other
File(c) == [kind |-> "json", config |-> c]
Readable(file) == file.kind = "json"

\* The config c, with the settings fs as d has them.
Merge(c, d, fs) == [k \in Keys |-> IF k \in fs THEN d[k] ELSE c[k]]

ConfigInit ==
  /\ boot = "off"
  /\ read = Blank /\ mem = Blank
  /\ conf \in {Missing} \cup (IF Legacy THEN {File([Blank EXCEPT !["autoSave"] = 1])} ELSE {})
  /\ tmp = Missing
  /\ pc = [r \in Savers |-> "idle"]
  /\ asks = [r \in Savers |-> {}]
  /\ copy = [r \in Savers |-> Blank]
  /\ fd = [r \in Savers |-> "closed"]
  /\ issued = [k \in Keys |-> 1]
  /\ acked = [f \in Fields |-> 0] /\ current = [f \in Fields |-> 0]
  /\ unsaved = FALSE /\ raced = FALSE
  /\ used = [k \in DOMAIN ConfigLimits |-> 0]

Spend(k) == used[k] < ConfigLimits[k] /\ used' = [used EXCEPT ![k] = @ + 1]
Goto(r, place) == pc' = [pc EXCEPT ![r] = place]

\* The settings fs get new values.
Issue(fs) == issued' = [k \in Keys |-> IF k \in fs THEN issued[k] + 1 ELSE issued[k]]

\* The request, or the save, is over.
Return(r) ==
  /\ Goto(r, "idle")
  /\ asks' = [asks EXCEPT ![r] = {}]
  /\ copy' = [copy EXCEPT ![r] = Blank]
  /\ fd' = [fd EXCEPT ![r] = "closed"]

-----------------------------------------------------------------------------
Serving == boot = "up" /\ pc[Main] = "idle"

\* A settings request about fs comes in.
Arrive(r, fs) ==
  /\ Serving /\ pc[r] = "idle"
  /\ Spend("set")
  /\ asks' = [asks EXCEPT ![r] = fs]
  /\ Issue(fs)
  /\ raced' = (raced \/ \E other \in Requests \ {r} : pc[other] # "idle")

\* Under cfgMu the settings change, those of MCP in the copy only that is taken.
Ask(r, fs) ==
  /\ Arrive(r, fs)
  /\ mem' = Merge(mem, issued', fs \ Mcp)
  /\ copy' = [copy EXCEPT ![r] = Merge(mem, issued', fs)]
  /\ Goto(r, "save")
  /\ UNCHANGED <<boot, read, conf, tmp, fd, acked, current, unsaved>>

\* MCP is switched on or off; who is switched on without a token gets one.
Switch == {{"mcpEnabled"}} \cup (IF mem["mcpToken"] = 0 THEN {Mcp} ELSE {})

\* handleConfig, about a setting of its own, and maybe MCP too.
HandleConfig(r) ==
  \E f \in {"autoSave", "shortcut"}, mcp \in {{}} \cup Switch : Ask(r, {f} \cup mcp)

HandleMcpStatus(r) == \E mcp \in Switch : Ask(r, mcp)

\* A new token, and on or off if the request says so.
HandleMcpRotate(r) == \E mcp \in {{"mcpToken"}, Mcp} : Ask(r, mcp)

\* handleDeviceHidden, under cfgMu.
Hide(r) ==
  /\ Arrive(r, {"hiddenDevices"})
  /\ mem' = Merge(mem, issued', {"hiddenDevices"})
  /\ Goto(r, "marshal")
  /\ UNCHANGED <<boot, read, conf, tmp, copy, fd, acked, current, unsaved>>

\* It saves s.cfg itself, as it is when it gets there.
Marshal(r) ==
  /\ pc[r] = "marshal"
  /\ copy' = [copy EXCEPT ![r] = mem]
  /\ Goto(r, "save")
  /\ UNCHANGED <<boot, read, mem, conf, tmp, asks, fd, issued, acked, current, unsaved,
                 raced, used>>

-----------------------------------------------------------------------------
\* Mutant: config.json is written in place.
OpenInPlace(r) ==
  /\ pc[r] = "save"
  /\ conf' = Torn /\ tmp' = Torn
  /\ fd' = [fd EXCEPT ![r] = "tmp"]
  /\ Goto(r, "write")
  /\ UNCHANGED <<boot, read, mem, asks, copy, issued, acked, current, unsaved, raced, used>>

\* save: os.WriteFile opens the temporary file and empties it,
Open(r) ==
  /\ pc[r] = "save"
  /\ tmp' = Torn
  /\ fd' = [fd EXCEPT ![r] = "tmp"]
  /\ Goto(r, "write")
  /\ UNCHANGED <<boot, read, mem, conf, asks, copy, issued, acked, current, unsaved, raced,
                 used>>

\* and writes into it, over what another request may have written there meanwhile.
Write(r) ==
  LET over(file) == IF Readable(file) THEN {File(copy[r]), Torn} ELSE {File(copy[r])}
  IN  /\ pc[r] = "write"
      /\ CASE fd[r] = "tmp"  -> tmp' \in over(tmp) /\ UNCHANGED conf
           [] fd[r] = "conf" -> conf' \in over(conf) /\ UNCHANGED tmp
           [] OTHER          -> UNCHANGED <<conf, tmp>>
      /\ fd' = [fd EXCEPT ![r] = "closed"]
      /\ Goto(r, "rename")
      /\ UNCHANGED <<boot, read, mem, asks, copy, issued, acked, current, unsaved, raced, used>>

\* Any step of it may fail: a request is answered with the error, a program that
\* starts logs it.
SaveFails(r) ==
  /\ pc[r] \in {"save", "write", "rename"}
  /\ Spend("fail")
  /\ Return(r)
  /\ unsaved' = TRUE
  /\ UNCHANGED <<boot, read, mem, conf, tmp, issued, acked, current, raced>>

\* The temporary file becomes config.json, for those who have it open too.
Rename(r) ==
  /\ pc[r] = "rename" /\ tmp # Missing
  /\ conf' = tmp /\ tmp' = Missing
  /\ fd' = [s \in Savers |-> CASE fd[s] = "tmp"  -> "conf"
                               [] fd[s] = "conf" -> "gone"
                               [] OTHER          -> fd[s]]
  /\ unsaved' = FALSE
  /\ Goto(r, "saved")
  /\ UNCHANGED <<boot, read, mem, asks, copy, issued, acked, current, raced, used>>

\* Another request renamed it: the request fails.
RenameFails(r) ==
  /\ pc[r] = "rename" /\ tmp = Missing
  /\ Return(r)
  /\ unsaved' = TRUE
  /\ UNCHANGED <<boot, read, mem, conf, tmp, issued, acked, current, raced, used>>

\* The newest values answered for, when r is answered too.
Answered(old, r) ==
  [f \in Fields |-> IF f \in asks[r] /\ copy[r][f] > old[f] THEN copy[r][f] ELSE old[f]]

\* Mutant: the whole copy is written back.
FinishAll(r) ==
  /\ pc[r] = "saved"
  /\ mem' = copy[r]
  /\ acked' = Answered(acked, r) /\ current' = Answered(current, r)
  /\ Return(r)
  /\ UNCHANGED <<boot, read, conf, tmp, issued, unsaved, raced, used>>

\* A request about MCP puts both settings into s.cfg; the request is answered.
Finish(r) ==
  /\ pc[r] = "saved"
  /\ mem' = Merge(mem, copy[r], IF asks[r] \cap Mcp = {} THEN {} ELSE Mcp)
  /\ acked' = Answered(acked, r) /\ current' = Answered(current, r)
  /\ Return(r)
  /\ UNCHANGED <<boot, read, conf, tmp, issued, unsaved, raced, used>>

Save(r) ==
  \/ Open(r) \/ Write(r) \/ SaveFails(r) \/ Rename(r) \/ RenameFails(r)
  \/ Finish(r)

-----------------------------------------------------------------------------
\* What the file holds.
Stored == IF Readable(conf) THEN conf.config ELSE Blank

\* loadConfig reads the file, and takes most of it at once.
Load ==
  /\ boot = "off"
  /\ boot' = "id"
  /\ read' = Stored
  /\ mem' = Merge(Blank, Stored, Early \cup Minted)
  /\ UNCHANGED <<conf, tmp, pc, asks, copy, fd, issued, acked, current, unsaved, raced,
                 used>>

\* The program goes on to its next stage, and saves first or not.
Proceed(stage, next) ==
  /\ boot = stage /\ pc[Main] = "idle"
  /\ boot' = next
  /\ UNCHANGED <<conf, tmp, asks, fd, acked, current, unsaved, raced, used>>

StartSave == copy' = [copy EXCEPT ![Main] = mem'] /\ Goto(Main, "save")

\* Mutant: a program that starts on a config is not given what it lacks.
MintForgotten(k, stage, next) ==
  /\ Proceed(stage, next)
  /\ IF mem[k] = 0 /\ conf = Missing
     THEN Issue({k}) /\ mem' = Merge(mem, issued', {k}) /\ StartSave
     ELSE UNCHANGED <<issued, mem, copy, pc>>
  /\ UNCHANGED read

\* The install ID, and the session token, is minted and saved if there is none.
Mint(k, stage, next) ==
  /\ Proceed(stage, next)
  /\ IF mem[k] = 0
     THEN Issue({k}) /\ mem' = Merge(mem, issued', {k}) /\ StartSave
     ELSE UNCHANGED <<issued, mem, copy, pc>>
  /\ UNCHANGED read

\* Only then come the settings that default to something.
ApplyLate ==
  /\ Proceed("late", "saveDir")
  /\ mem' = Merge(mem, read, Late) /\ read' = Blank
  /\ UNCHANGED <<issued, copy, pc>>

\* A flag (-save-dir, -lan) saves again.
Flag(stage, next) ==
  /\ Proceed(stage, next)
  /\ UNCHANGED <<read, issued, mem>>
  /\ StartSave \/ UNCHANGED <<copy, pc>>

Start ==
  \/ Load
  \/ Mint("installID", "id", "token") \/ Mint("token", "token", "late")
  \/ ApplyLate
  \/ Flag("saveDir", "lan") \/ Flag("lan", "up")

\* The process ends, with whatever was going on.
Crash ==
  /\ boot # "off"
  /\ Spend("crash")
  /\ boot' = "off"
  /\ read' = Blank /\ mem' = Blank
  /\ pc' = [r \in Savers |-> "idle"]
  /\ asks' = [r \in Savers |-> {}]
  /\ copy' = [r \in Savers |-> Blank]
  /\ fd' = [r \in Savers |-> "closed"]
  /\ current' = [f \in Fields |-> 0]
  /\ unsaved' = FALSE
  /\ UNCHANGED <<conf, tmp, issued, acked, raced>>

ConfigNext ==
  \/ \E r \in Requests :
       \/ HandleConfig(r) \/ HandleMcpStatus(r) \/ HandleMcpRotate(r)
       \/ Hide(r) \/ Marshal(r)
  \/ \E r \in Savers : Save(r)
  \/ Start
  \/ Crash

ConfigSpec == ConfigInit /\ [][ConfigNext]_configVars

-----------------------------------------------------------------------------
Configs == [Keys -> Nat]

\* A server that runs has an install ID and a session token, and a file is open
\* exactly while it is written.
ConfigTypeOK ==
  /\ boot \in {"off", "id", "token", "late", "saveDir", "lan", "up"}
  /\ {unsaved, raced} \subseteq BOOLEAN
  /\ {read, mem} \subseteq Configs
  /\ Serving => \A k \in Minted : mem[k] > 0
  /\ \A file \in {conf, tmp} : file \in {Missing, Torn} \/ file.config \in Configs
  /\ asks \in [Savers -> SUBSET Fields] /\ copy \in [Savers -> Configs]
  /\ fd \in [Savers -> {"closed", "tmp", "conf", "gone"}]
  /\ \A r \in Savers : fd[r] # "closed" <=> pc[r] = "write"
  /\ issued \in [Keys -> Nat]
  /\ acked \in [Fields -> Nat] /\ current \in [Fields -> Nat]

Quiet == Serving /\ \A r \in Requests : pc[r] = "idle"

\* README.md:162-166: settings "live in the ... volume".  A restart brings back
\* what the program runs with (all but the shortcut), unless the last save failed.
RestartChangesNothing ==
  (Quiet /\ ~unsaved) =>
    Readable(conf) /\ \A k \in Keys \ {"shortcut"} : conf.config[k] = mem[k]

\* The program uses what it was told: no request that ends later, with an older
\* copy, takes back a setting a request was answered for (but one of MCP) while the
\* process runs.  As long as no two requests overlapped, config.json holds, at any
\* time, every setting a request was ever answered for, those of MCP too, and the
\* program uses it, whatever save fails, of a request or of a start, and wherever the
\* process ends (but for the shortcut); and a restart changes nothing.
SettingsKept ==
  /\ Serving => \A f \in Fields \ Mcp : mem[f] >= current[f]
  /\ ~raced => \A f \in Fields \ {"shortcut"} :
                 /\ Stored[f] >= acked[f]
                 /\ Serving => mem[f] >= acked[f]
  /\ raced \/ RestartChangesNothing

\* main.go:106-110: "the same token survives restarts *and* container rebuilds".
\* Once config.json holds the session token, or the install ID, it is the one the
\* program uses and config.json holds, as long as no two settings requests overlapped.
\* (A save that fails at the start leaves the file without: the next start mints anew.)
TokenStableUnlessRaced ==
  [][\A k \in Minted :
       (Stored[k] # 0 /\ ~raced) =>
         /\ Stored'[k] = Stored[k]
         /\ boot' # "off" => mem'[k] = Stored[k]]_configVars

-----------------------------------------------------------------------------
\* What the source says and the code does not keep; no run checks these four.

\* Two overlapping requests: the older copy may be written last.
AnsweredIsStored == (Quiet /\ Readable(conf)) => \A f \in Fields : conf.config[f] >= acked[f]

\* Two overlapping requests to MCP: the one that ends later puts back, with the
\* setting it is about, the other one as it was when it came.
McpSettingsKept == Serving => \A f \in Mcp : mem[f] >= current[f]

\* Whatever happens, the first token is the only one (the first value given is 2).  But
\* a save fails at the start; or one of two overlapping requests renames the file the
\* other has just emptied; and when the process ends then, the token is minted anew.
TokenStable == Serving => \A k \in Minted : mem[k] = 2

\* The shortcut is a setting like the others, but loadConfig does not read it.
ShortcutSurvives == [][boot = "late" => mem'["shortcut"] = read["shortcut"]]_configVars
=============================================================================

---------------------------- MODULE ConfigProofs ----------------------------
(***************************************************************************)
(* The settings, for any number of requests, failing saves and crashes, of *)
(* a program whose config has session tokens from the start: what a        *)
(* request was answered for is not taken back while the process runs, but  *)
(* for MCP's settings, and as long as no two requests overlap the file     *)
(* keeps it, those too, and the token it has once got.                     *)
(*                                                                         *)
(* Memory: a copy is never ahead of memory, as the values of a setting     *)
(* only grow.  The file: a request that is alone, and a program that       *)
(* starts, finds its own copy in the temporary file when it renames it,    *)
(* and what it saves is memory, but for the settings of MCP it is about to *)
(* put there.  The start: a file that lacks a token never held a setting   *)
(* a request was answered for, so the save after a minting, in which the   *)
(* settings that come late are missing, takes none back.                   *)
(***************************************************************************)
EXTENDS Config, TLAPS

Boots == {"off", "id", "token", "late", "saveDir", "lan", "up"}
Places == {"idle", "marshal", "save", "write", "rename", "saved"}
AnyFile == {Missing, Torn} \cup {File(c) : c \in Configs}

Shapes ==
  /\ boot \in Boots /\ unsaved \in BOOLEAN /\ raced \in BOOLEAN
  /\ read \in Configs /\ mem \in Configs /\ conf \in AnyFile /\ tmp \in AnyFile
  /\ pc \in [Savers -> Places] /\ asks \in [Savers -> SUBSET Fields]
  /\ copy \in [Savers -> Configs]
  /\ fd \in [Savers -> {"closed", "tmp", "conf", "gone"}]
  /\ issued \in Configs /\ acked \in [Fields -> Nat] /\ current \in [Fields -> Nat]

\* Who has not made a copy yet has none, the starting program is not asked for
\* anything, and requests come when it has started.
Turns ==
  /\ \A r \in Savers : pc[r] \in {"idle", "marshal"} => copy[r] = Blank
  /\ asks[Main] = {} /\ pc[Main] # "marshal"
  /\ \A r \in Requests : pc[r] # "idle" => Serving
  /\ boot \in {"off", "id"} => pc[Main] = "idle"
  /\ boot = "off" => \A f \in Fields : current[f] = 0

\* A file is open exactly while it is written.
Opened == \A r \in Savers : fd[r] # "closed" <=> pc[r] = "write"

\* What a program that has come so far has been given.
Fresh == boot \in {"id", "token", "late"}
Idle == \A r \in Savers : pc[r] = "idle"

Stages ==
  /\ Fresh => \A f \in Late : mem[f] = 0
  /\ boot \notin {"off", "id"} => mem["installID"] # 0
  /\ boot \notin {"off", "id", "token"} => mem["token"] # 0

\* No value is newer than the last one given.
Issued ==
  /\ \A k \in Keys :
       /\ mem[k] <= issued[k] /\ read[k] <= issued[k]
       /\ \A r \in Savers : copy[r][k] <= issued[k]
       /\ Readable(conf) => conf.config[k] <= issued[k]
       /\ Readable(tmp) => tmp.config[k] <= issued[k]
  /\ \A f \in Fields : acked[f] <= issued[f] /\ current[f] <= issued[f]

\* No copy, and no answer, is ahead of memory.
Ahead ==
  \A f \in Fields \ Mcp :
    current[f] <= mem[f] /\ \A r \in Savers : copy[r][f] <= mem[f]

\* The saver that is alone, by the steps of its save.
AloneSaves(r) ==
  /\ pc[r] \in {"save", "write", "rename", "saved"} =>
       \A k \in Keys :
         \/ copy[r][k] = mem[k]
         \/ k \in Mcp /\ k \in asks[r] /\ acked[k] <= copy[r][k]
  /\ pc[r] = "write" => tmp = Torn /\ fd[r] = "tmp"
  /\ pc[r] = "rename" => tmp = File(copy[r])
  /\ pc[r] = "saved" => conf = File(copy[r]) /\ ~unsaved

\* What the file holds, against memory and what was answered.
Keeps ==
  /\ conf # Torn
  /\ \A k \in Minted : Stored[k] # 0 /\ boot # "off" => mem[k] = Stored[k]
  /\ \A k \in Minted : Stored[k] = 0 => \A f \in Fields : Stored[f] = 0 /\ acked[f] = 0
  /\ \A f \in Fields \ {"shortcut"} : acked[f] <= Stored[f]
  /\ boot \in {"saveDir", "lan", "up"} => \A f \in Fields \ {"shortcut"} : acked[f] <= mem[f]
  /\ Fresh => \A f \in Fields :
       read[f] = Stored[f] /\ mem[f] = IF f \in Early THEN Stored[f] ELSE 0
  /\ Fresh /\ pc[Main] # "idle" => \A f \in Fields : Stored[f] = 0 /\ acked[f] = 0
  /\ Idle /\ ~unsaved /\ boot # "off" =>
       \A k \in Keys \ {"shortcut"} : mem[k] = Stored[k] \/ (Fresh /\ k \in Late)

Alone ==
  /\ \A r, s \in Savers : pc[r] # "idle" /\ pc[s] # "idle" => r = s
  /\ \A r \in Savers : AloneSaves(r)
  /\ Keeps

Inv == Shapes /\ Turns /\ Stages /\ Issued /\ Ahead /\ (~raced => Alone)

-----------------------------------------------------------------------------
\* Files and configs.
LEMMA FileRecords ==
  /\ \A c : Readable(File(c)) /\ File(c).config = c /\ File(c) # Missing /\ File(c) # Torn
  /\ ~Readable(Missing) /\ ~Readable(Torn)
BY DEF Readable, File, Missing, Torn

LEMMA FileKinds ==
  ASSUME NEW x \in AnyFile
  PROVE  Readable(x) => x.config \in Configs /\ x = File(x.config)
BY FileRecords DEF AnyFile

LEMMA Names ==
  /\ Fields \subseteq Keys /\ Minted \subseteq Keys /\ Mcp \subseteq Fields /\ Early \subseteq Fields
  /\ Late \subseteq Fields /\ Minted \cap Fields = {} /\ Early \cap Late = {}
  /\ Keys = Fields \cup Minted /\ "shortcut" \in Fields \ (Early \cup Late \cup Mcp)
  /\ Fields = Early \cup Late \cup {"shortcut"} /\ Mcp \subseteq Early
  /\ "hiddenDevices" \in Fields \ Mcp /\ "autoSave" \in Fields \ Mcp
  /\ {"installID", "token"} = Minted /\ "installID" # "token" /\ "mcpEnabled" \in Mcp
  /\ "mcpToken" \in Mcp
BY DEF Keys, Fields, Minted, Mcp, Early, Late

LEMMA Starter ==
  /\ Main \in Savers /\ Main \notin Requests /\ Requests \subseteq Savers
  /\ \A r \in Savers : r \in Requests \/ r = Main
BY ConfigAssumption DEF Savers

LEMMA Merges ==
  ASSUME NEW c \in Configs, NEW d \in Configs, NEW fs
  PROVE  /\ Merge(c, d, fs) \in Configs
         /\ \A k \in Keys : /\ k \in fs => Merge(c, d, fs)[k] = d[k]
                            /\ k \notin fs => Merge(c, d, fs)[k] = c[k]
BY DEF Merge, Configs

LEMMA Blanks == Blank \in Configs /\ \A k \in Keys : Blank[k] = 0
BY DEF Blank, Configs

LEMMA Values == \A c \in Configs : \A k \in Keys : c[k] \in Nat
BY DEF Configs

LEMMA Holds ==
  ASSUME conf \in AnyFile
  PROVE  /\ Stored \in Configs
         /\ Readable(conf) => Stored = conf.config
         /\ \A k \in Keys : Stored[k] # 0 => Readable(conf)
         /\ conf = Missing \/ conf = Torn => \A k \in Keys : Stored[k] = 0
BY FileKinds, FileRecords, Blanks DEF Stored

-----------------------------------------------------------------------------
\* What the actions do.
Asked(r) == HandleConfig(r) \/ HandleMcpStatus(r) \/ HandleMcpRotate(r) \/ Hide(r)

Arrival(r, fs) ==
  /\ Serving /\ pc[r] = "idle"
  /\ issued' \in Configs
  /\ \A k \in Keys : issued'[k] = IF k \in fs THEN issued[k] + 1 ELSE issued[k]
  /\ asks' = [asks EXCEPT ![r] = fs]
  /\ mem' = Merge(mem, issued', fs \ Mcp)
  /\ \/ /\ copy' = [copy EXCEPT ![r] = Merge(mem, issued', fs)]
        /\ pc' = [pc EXCEPT ![r] = "save"]
     \/ copy' = copy /\ pc' = [pc EXCEPT ![r] = "marshal"]
  /\ raced' = (raced \/ \E other \in Requests \ {r} : pc[other] # "idle")
  /\ UNCHANGED <<boot, read, conf, tmp, fd, acked, current, unsaved>>

LEMMA Arrivals ==
  ASSUME Shapes, NEW r \in Requests, Asked(r)
  PROVE  \E fs \in SUBSET Fields : Arrival(r, fs)
<1> USE DEF Arrival
<1> DEFINE Given(fs) ==
      issued' \in Configs
      /\ \A k \in Keys : issued'[k] = IF k \in fs THEN issued[k] + 1 ELSE issued[k]
<1>1. ASSUME NEW fs, Issue(fs) PROVE Given(fs)
  BY <1>1, Values DEF Issue, Shapes, Configs
<1>2. ASSUME NEW fs \in SUBSET Fields, Ask(r, fs) PROVE Arrival(r, fs)
  <2>1. Given(fs)
    BY <1>1, <1>2 DEF Ask, Arrive
  <2> QED
    BY <1>2, <2>1 DEF Ask, Arrive, Given, Goto
<1>3. CASE HandleConfig(r)
  <2>1. PICK f \in {"autoSave", "shortcut"}, mcp \in {{}} \cup Switch : Ask(r, {f} \cup mcp)
    BY <1>3 DEF HandleConfig
  <2>2. {f} \cup mcp \in SUBSET Fields
    BY Names DEF Switch
  <2> QED
    BY <1>2, <2>1, <2>2
<1>4. CASE HandleMcpStatus(r) \/ HandleMcpRotate(r)
  <2>1. PICK mcp \in {{"mcpToken"}, {"mcpEnabled"}, Mcp} : Ask(r, mcp)
    BY <1>4 DEF HandleMcpStatus, HandleMcpRotate, Switch
  <2>2. mcp \in SUBSET Fields
    BY Names
  <2> QED
    BY <1>2, <2>1, <2>2
<1>5. CASE Hide(r)
  <2> DEFINE fs == {"hiddenDevices"}
  <2>1. Given(fs)
    BY <1>1, <1>5 DEF Hide, Arrive
  <2>2. fs \in SUBSET Fields /\ fs \ Mcp = fs
    BY Names
  <2>3. Arrival(r, fs)
    BY <1>5, <2>1, <2>2 DEF Hide, Arrive, Given, Goto
  <2> QED
    BY <2>2, <2>3
<1> QED
  BY <1>3, <1>4, <1>5 DEF Asked

\* A step of the starting program after the reading.
LEMMA Proceeds ==
  ASSUME Shapes, Start, ~Load
  PROVE  /\ pc[Main] = "idle" /\ boot # "off" /\ boot' # "off" /\ boot' \in Boots
         /\ mem' \in Configs /\ issued' \in Configs /\ read' \in Configs
         /\ \A k \in Keys : issued[k] <= issued'[k]
         /\ \/ UNCHANGED <<copy, pc>>
            \/ copy' = [copy EXCEPT ![Main] = mem'] /\ pc' = [pc EXCEPT ![Main] = "save"]
         /\ UNCHANGED <<conf, tmp, asks, fd, acked, current, unsaved, raced>>
         /\ \/ \E k \in Minted :
                 /\ \/ k = "installID" /\ boot = "id" /\ boot' = "token"
                    \/ k = "token" /\ boot = "token" /\ boot' = "late"
                 /\ read' = read
                 /\ \/ /\ mem[k] = 0 /\ mem'[k] = issued'[k] /\ mem'[k] # 0
                       /\ \A q \in Keys \ {k} : mem'[q] = mem[q] /\ issued'[q] = issued[q]
                       /\ copy' = [copy EXCEPT ![Main] = mem']
                       /\ pc' = [pc EXCEPT ![Main] = "save"]
                    \/ mem[k] # 0 /\ UNCHANGED <<mem, issued, copy, pc>>
            \/ /\ boot = "late" /\ boot' = "saveDir" /\ mem' = Merge(mem, read, Late)
               /\ read' = Blank /\ UNCHANGED <<issued, copy, pc>>
            \/ /\ \/ boot = "saveDir" /\ boot' = "lan"
                  \/ boot = "lan" /\ boot' = "up"
               /\ UNCHANGED <<read, mem, issued>>
<1>1. ASSUME NEW k \in Minted, NEW stage \in Boots, NEW next \in Boots, Mint(k, stage, next)
      PROVE  /\ mem' \in Configs /\ issued' \in Configs
             /\ \A q \in Keys : issued[q] <= issued'[q]
             /\ \/ /\ mem[k] = 0 /\ mem'[k] = issued'[k] /\ mem'[k] # 0
                   /\ \A q \in Keys \ {k} : mem'[q] = mem[q] /\ issued'[q] = issued[q]
                   /\ copy' = [copy EXCEPT ![Main] = mem']
                   /\ pc' = [pc EXCEPT ![Main] = "save"]
                \/ mem[k] # 0 /\ UNCHANGED <<mem, issued, copy, pc>>
  <2>1. CASE mem[k] = 0
    <3>1. Issue({k}) /\ mem' = Merge(mem, issued', {k}) /\ StartSave
      BY <1>1, <2>1 DEF Mint
    <3>2. /\ issued' \in Configs /\ issued'[k] = issued[k] + 1 /\ issued[k] \in Nat
          /\ \A q \in Keys \ {k} : issued'[q] = issued[q]
      BY <3>1, Values, Names DEF Issue, Shapes, Configs
    <3>3. PICK n \in Configs : n = issued'
      BY <3>2
    <3>4. /\ mem' \in Configs /\ mem'[k] = issued'[k]
          /\ \A q \in Keys \ {k} : mem'[q] = mem[q]
      BY <3>1, <3>3, Merges, Names DEF Shapes
    <3>5. \A q \in Keys : issued[q] \in Nat
      BY Values DEF Shapes
    <3>6. mem'[k] # 0 /\ \A q \in Keys : issued[q] <= issued'[q]
      BY <3>2, <3>4, <3>5
    <3>7. copy' = [copy EXCEPT ![Main] = mem'] /\ pc' = [pc EXCEPT ![Main] = "save"]
      BY <3>1 DEF StartSave, Goto
    <3> QED
      BY <2>1, <3>2, <3>4, <3>6, <3>7, Zenon
  <2>2. CASE mem[k] # 0
    <3>1. UNCHANGED <<mem, issued, copy, pc>>
      BY <1>1, <2>2 DEF Mint
    <3>2. \A q \in Keys : issued[q] \in Nat
      BY Values DEF Shapes
    <3> QED
      BY <2>2, <3>1, <3>2 DEF Shapes
  <2> QED
    BY <2>1, <2>2
<1>2. \A q \in Keys : issued[q] <= issued[q]
  BY Values DEF Shapes
<1>3. CASE Mint("installID", "id", "token")
  <2>1. "installID" \in Minted /\ {"id", "token"} \subseteq Boots
    BY Names DEF Boots
  <2> QED
    BY <1>1, <1>3, <2>1 DEF Mint, Proceed, Shapes
<1>4. CASE Mint("token", "token", "late")
  <2>1. "token" \in Minted /\ {"token", "late"} \subseteq Boots
    BY Names DEF Boots
  <2> QED
    BY <1>1, <1>4, <2>1 DEF Mint, Proceed, Shapes
<1>5. CASE ApplyLate
  <2>1. Merge(mem, read, Late) \in Configs
    BY Merges DEF Shapes
  <2> QED
    BY <1>2, <1>5, <2>1, Blanks DEF ApplyLate, Proceed, Shapes, Boots
<1>6. CASE Flag("saveDir", "lan") \/ Flag("lan", "up")
  BY <1>2, <1>6 DEF Flag, Proceed, StartSave, Goto, Shapes, Boots
<1> QED
  BY <1>3, <1>4, <1>5, <1>6 DEF Start

LEMMA Loads ==
  ASSUME Shapes, Load
  PROVE  /\ boot = "off" /\ boot' = "id" /\ read' = Stored /\ read' \in Configs
         /\ mem' \in Configs
         /\ \A k \in Early \cup Minted : mem'[k] = Stored[k]
         /\ \A k \in Keys \ (Early \cup Minted) : mem'[k] = 0
         /\ UNCHANGED <<conf, tmp, pc, asks, copy, fd, issued, acked, current, unsaved, raced>>
<1>1. Stored \in Configs
  BY Holds DEF Shapes
<1> QED
  BY <1>1, Merges, Blanks, Names DEF Load

LEMMA Ends ==
  ASSUME Shapes, NEW r \in Savers, Finish(r)
  PROVE  /\ pc[r] = "saved" /\ mem' \in Configs
         /\ \A k \in Keys : /\ asks[r] \cap Mcp # {} /\ k \in Mcp => mem'[k] = copy[r][k]
                            /\ ~(asks[r] \cap Mcp # {} /\ k \in Mcp) => mem'[k] = mem[k]
         /\ acked' \in [Fields -> Nat] /\ current' \in [Fields -> Nat]
         /\ \A f \in Fields : /\ acked'[f] \in {acked[f], copy[r][f]}
                              /\ f \notin asks[r] => acked'[f] = acked[f]
                              /\ current'[f] \in {current[f], copy[r][f]}
                              /\ f \notin asks[r] => current'[f] = current[f]
         /\ pc' = [pc EXCEPT ![r] = "idle"] /\ asks' = [asks EXCEPT ![r] = {}]
         /\ copy' = [copy EXCEPT ![r] = Blank] /\ fd' = [fd EXCEPT ![r] = "closed"]
         /\ UNCHANGED <<boot, read, conf, tmp, issued, unsaved, raced>>
<1>1. PICK c \in Configs : c = copy[r]
  BY DEF Shapes
<1>2. PICK fs : fs = IF asks[r] \cap Mcp = {} THEN {} ELSE Mcp
  OBVIOUS
<1>3. mem' = Merge(mem, c, fs)
  BY <1>1, <1>2 DEF Finish
<1>4. ASSUME NEW old \in [Fields -> Nat]
      PROVE  /\ Answered(old, r) \in [Fields -> Nat]
             /\ \A f \in Fields : /\ Answered(old, r)[f] \in {old[f], c[f]}
                                  /\ f \notin asks[r] => Answered(old, r)[f] = old[f]
  <2>1. \A f \in Fields : c[f] \in Nat
    BY Values, Names
  <2>2. Answered(old, r) =
          [f \in Fields |-> IF f \in asks[r] /\ c[f] > old[f] THEN c[f] ELSE old[f]]
    BY <1>1 DEF Answered
  <2> QED
    BY <2>1, <2>2
<1>5. acked' = Answered(acked, r) /\ current' = Answered(current, r)
  BY DEF Finish
<1>6. mem' \in Configs
  BY <1>3, Merges DEF Shapes
<1>7. \A k \in Keys : /\ asks[r] \cap Mcp # {} /\ k \in Mcp => mem'[k] = c[k]
                      /\ ~(asks[r] \cap Mcp # {} /\ k \in Mcp) => mem'[k] = mem[k]
  BY <1>2, <1>3, Merges DEF Shapes
<1> QED
  BY <1>1, <1>4, <1>5, <1>6, <1>7 DEF Shapes, Finish, Return, Goto

Failure(r) ==
  /\ pc[r] \in {"save", "write", "rename"} /\ unsaved' = TRUE
  /\ pc' = [pc EXCEPT ![r] = "idle"] /\ asks' = [asks EXCEPT ![r] = {}]
  /\ copy' = [copy EXCEPT ![r] = Blank] /\ fd' = [fd EXCEPT ![r] = "closed"]
  /\ UNCHANGED <<boot, read, mem, conf, tmp, issued, acked, current, raced>>

LEMMA Fails ==
  ASSUME NEW r \in Savers, SaveFails(r) \/ RenameFails(r)
  PROVE  Failure(r)
BY DEF SaveFails, RenameFails, Return, Goto, Failure

-----------------------------------------------------------------------------
\* Every step keeps the types.
LEMMA ShapeStep == Shapes /\ [ConfigNext]_configVars => Shapes'
<1> SUFFICES ASSUME Shapes, [ConfigNext]_configVars PROVE Shapes'
  OBVIOUS
<1> USE Blanks, Starter DEF Shapes, Goto, Places
<1>1. {Missing, Torn} \subseteq AnyFile /\ \A c \in Configs : File(c) \in AnyFile
  BY DEF AnyFile
<1>2. ASSUME NEW r \in Requests,
             Asked(r)
      PROVE  Shapes'
  <2>1. PICK fs \in SUBSET Fields : Arrival(r, fs)
    BY <1>2, Arrivals
  <2>2. PICK n \in Configs : n = issued'
    BY <2>1 DEF Arrival
  <2>3. PICK m \in Configs, w \in Configs : m = Merge(mem, n, fs) /\ w = Merge(mem, n, fs \ Mcp)
    BY Merges
  <2>4. mem' \in Configs /\ copy' \in [Savers -> Configs] /\ pc' \in [Savers -> Places]
    BY <2>1, <2>2, <2>3 DEF Arrival
  <2>5. asks' \in [Savers -> SUBSET Fields]
    BY <2>1 DEF Arrival
  <2> QED
    BY <2>1, <2>4, <2>5 DEF Arrival
<1>3. ASSUME NEW r \in Requests, Marshal(r) PROVE Shapes'
  BY <1>3 DEF Marshal
<1>4. ASSUME NEW r \in Savers, Open(r) PROVE Shapes'
  BY <1>1, <1>4 DEF Open
<1>5. ASSUME NEW r \in Savers, Write(r) PROVE Shapes'
  <2>1. conf' \in {conf, Torn, File(copy[r])} /\ tmp' \in {tmp, Torn, File(copy[r])}
    BY <1>5 DEF Write
  <2>2. conf' \in AnyFile /\ tmp' \in AnyFile
    BY <1>1, <2>1
  <2>3. /\ fd' = [fd EXCEPT ![r] = "closed"] /\ pc' = [pc EXCEPT ![r] = "rename"]
        /\ UNCHANGED <<boot, read, mem, asks, copy, issued, acked, current, unsaved, raced>>
    BY <1>5 DEF Write
  <2>4. fd' \in [Savers -> {"closed", "tmp", "conf", "gone"}] /\ pc' \in [Savers -> Places]
    BY <2>3
  <2> QED
    BY <2>2, <2>3, <2>4, Zenon DEF Shapes
<1>6. ASSUME NEW r \in Savers, SaveFails(r) \/ RenameFails(r) PROVE Shapes'
  <2>1. Failure(r)
    BY <1>6, Fails
  <2> QED
    BY <2>1 DEF Failure
<1>7. ASSUME NEW r \in Savers, Rename(r) PROVE Shapes'
  <2>1. fd' \in [Savers -> {"closed", "tmp", "conf", "gone"}]
    BY <1>7 DEF Rename
  <2> QED
    BY <1>1, <1>7, <2>1 DEF Rename
<1>8. ASSUME NEW r \in Savers, Finish(r) PROVE Shapes'
  BY <1>8, Ends
<1>9. CASE Load
  <2>1. boot' \in Boots
    BY <1>9 DEF Load, Boots
  <2> QED
    BY <1>9, <2>1, Loads
<1>10. CASE Start /\ ~Load
  <2>1. copy' \in [Savers -> Configs] /\ pc' \in [Savers -> Places]
    BY <1>10, Proceeds
  <2> QED
    BY <1>10, <2>1, Proceeds
<1>11. CASE Crash
  <2>1. boot' \in Boots
    BY <1>11 DEF Crash, Boots
  <2> QED
    BY <1>1, <1>11, <2>1 DEF Crash
<1>12. CASE UNCHANGED configVars
  BY <1>12 DEF configVars
<1> QED
  BY <1>2, <1>3, <1>4, <1>5, <1>6, <1>7, <1>8, <1>9, <1>10, <1>11, <1>12 DEF ConfigNext, Save, Asked

\* Every step keeps who may be on the way.
LEMMA TurnStep == Shapes /\ Turns /\ [ConfigNext]_configVars => Turns'
<1> SUFFICES ASSUME Shapes, Turns, [ConfigNext]_configVars PROVE Turns'
  OBVIOUS
<1> USE Starter DEF Shapes, Turns, Goto, Serving
<1>1. ASSUME NEW r \in Requests,
             Asked(r)
      PROVE  Turns'
  <2>1. PICK fs \in SUBSET Fields : Arrival(r, fs)
    BY <1>1, Arrivals
  <2>2. /\ boot = "up" /\ pc[Main] = "idle" /\ asks'[Main] = asks[Main] /\ pc[r] = "idle"
        /\ \/ pc'[r] = "save"
           \/ pc'[r] = "marshal" /\ copy'[r] = copy[r]
        /\ \A s \in Savers \ {r} : pc'[s] = pc[s] /\ copy'[s] = copy[s]
        /\ UNCHANGED <<boot, current>>
    BY <2>1 DEF Arrival
  <2> QED
    BY <2>2
<1>2. ASSUME NEW r \in Requests, Marshal(r) PROVE Turns'
  BY <1>2 DEF Marshal
<1>3. ASSUME NEW r \in Savers, Open(r) \/ Write(r) \/ Rename(r) PROVE Turns'
  <2>1. /\ pc[r] # "idle" /\ pc'[r] \notin {"idle", "marshal"}
        /\ \A s \in Savers \ {r} : pc'[s] = pc[s]
        /\ UNCHANGED <<boot, asks, copy, current>>
    <3>1. CASE Open(r)
      BY <3>1 DEF Open
    <3>2. CASE Write(r)
      BY <3>2 DEF Write
    <3>3. CASE Rename(r)
      BY <3>3 DEF Rename
    <3> QED
      BY <1>3, <3>1, <3>2, <3>3
  <2> QED
    BY <2>1
<1>4. ASSUME NEW r \in Savers, SaveFails(r) \/ RenameFails(r) \/ Finish(r) PROVE Turns'
  <2>1. /\ pc[r] # "idle" /\ pc'[r] = "idle" /\ asks'[r] = {} /\ copy'[r] = Blank
        /\ \A s \in Savers \ {r} : pc'[s] = pc[s] /\ asks'[s] = asks[s] /\ copy'[s] = copy[s]
        /\ UNCHANGED boot
    <3>1. CASE SaveFails(r) \/ RenameFails(r)
      <4>1. Failure(r)
        BY <3>1, Fails
      <4> QED
        BY <4>1 DEF Failure
    <3>2. CASE Finish(r)
      BY <3>2, Ends
    <3> QED
      BY <1>4, <3>1, <3>2
  <2>2. boot # "off"
    BY <2>1
  <2> QED
    BY <2>1, <2>2
<1>5. CASE Load
  BY <1>5, Loads
<1>6. CASE Start /\ ~Load
  <2>1. /\ pc[Main] = "idle" /\ boot' \notin {"off", "id"} /\ boot # "up"
        /\ pc'[Main] \in {"idle", "save"}
        /\ pc'[Main] = "idle" => copy'[Main] = copy[Main]
        /\ \A s \in Savers \ {Main} : pc'[s] = pc[s] /\ copy'[s] = copy[s]
        /\ UNCHANGED <<asks, current>>
    BY <1>6, Proceeds
  <2>2. \A s \in Requests : pc[s] = "idle"
    BY <2>1
  <2> QED
    BY <2>1, <2>2
<1>7. CASE Crash
  BY <1>7 DEF Crash
<1>8. CASE UNCHANGED configVars
  BY <1>8 DEF configVars
<1> QED
  BY <1>1, <1>2, <1>3, <1>4, <1>5, <1>6, <1>7, <1>8 DEF ConfigNext, Save, Asked

LEMMA OpenedStep == Shapes /\ Opened /\ [ConfigNext]_configVars => Opened'
<1> SUFFICES ASSUME Shapes, Opened, [ConfigNext]_configVars PROVE Opened'
  OBVIOUS
<1> USE Starter DEF Shapes, Opened, Goto
<1>1. ASSUME NEW r \in Requests,
             Asked(r)
      PROVE  Opened'
  <2>1. PICK fs \in SUBSET Fields : Arrival(r, fs)
    BY <1>1, Arrivals
  <2>2. /\ pc[r] = "idle" /\ pc'[r] \in {"save", "marshal"} /\ fd' = fd
        /\ \A s \in Savers \ {r} : pc'[s] = pc[s]
    BY <2>1 DEF Arrival
  <2> QED
    BY <2>2
<1>2. ASSUME NEW r \in Savers, Marshal(r) \/ Open(r) \/ Write(r) \/ Rename(r) PROVE Opened'
  <2>1. CASE Marshal(r) \/ Open(r)
    BY <2>1 DEF Marshal, Open
  <2>2. CASE Write(r)
    BY <2>2 DEF Write
  <2>3. CASE Rename(r)
    BY <2>3 DEF Rename
  <2> QED
    BY <1>2, <2>1, <2>2, <2>3
<1>3. ASSUME NEW r \in Savers, SaveFails(r) \/ RenameFails(r) \/ Finish(r) PROVE Opened'
  <2>1. CASE SaveFails(r) \/ RenameFails(r)
    <3>1. Failure(r)
      BY <2>1, Fails
    <3> QED
      BY <3>1 DEF Failure
  <2>2. CASE Finish(r)
    BY <2>2, Ends
  <2> QED
    BY <1>3, <2>1, <2>2
<1>4. CASE Start /\ ~Load
  <2>1. /\ pc[Main] = "idle" /\ pc'[Main] \in {"save", "idle"} /\ fd' = fd
        /\ \A s \in Savers \ {Main} : pc'[s] = pc[s]
    BY <1>4, Proceeds
  <2> QED
    BY <2>1
<1>5. CASE Load \/ Crash \/ UNCHANGED configVars
  BY <1>5 DEF Load, Crash, configVars
<1> QED
  BY <1>1, <1>2, <1>3, <1>4, <1>5 DEF ConfigNext, Save, Asked

LEMMA StageStep == Shapes /\ Stages /\ [ConfigNext]_configVars => Stages'
<1> SUFFICES ASSUME Shapes, Stages, [ConfigNext]_configVars PROVE Stages'
  OBVIOUS
<1> USE DEF Fresh
<1>1. /\ {"installID", "token"} \subseteq Minted /\ Minted \subseteq Keys
      /\ \A k \in Minted : k \notin Fields /\ k \notin Mcp /\ k \notin Late
  BY Names
<1>2. ASSUME NEW r \in Requests,
             Asked(r)
      PROVE  Stages'
  <2>1. PICK fs \in SUBSET Fields : Arrival(r, fs)
    BY <1>2, Arrivals
  <2>2. PICK n \in Configs : n = issued'
    BY <2>1 DEF Arrival
  <2>3. \A k \in Minted : mem'[k] = mem[k]
    BY <1>1, <2>1, <2>2, Merges DEF Shapes, Arrival
  <2> QED
    BY <1>1, <2>1, <2>3 DEF Stages, Arrival, Serving
<1>3. ASSUME NEW r \in Savers, Marshal(r) \/ Open(r) \/ Write(r) \/ Rename(r) PROVE Stages'
  BY <1>3 DEF Marshal, Open, Write, Rename, Stages
<1>4. ASSUME NEW r \in Savers, SaveFails(r) \/ RenameFails(r) PROVE Stages'
  BY <1>4, Fails DEF Stages, Failure
<1>5. ASSUME NEW r \in Savers, Finish(r) PROVE Stages'
  <2>1. UNCHANGED boot /\ \A k \in Minted \cup Late : mem'[k] = mem[k]
    BY <1>5, Ends, Names
  <2> QED
    BY <1>1, <2>1 DEF Stages
<1>6. CASE Load \/ Crash \/ UNCHANGED configVars
  <2>1. Load => boot' = "id" /\ \A f \in Late : mem'[f] = 0
    BY Loads, Names
  <2> QED
    BY <1>6, <2>1 DEF Crash, configVars, Stages
<1>7. CASE Start /\ ~Load
  <2>1. CASE UNCHANGED mem /\ ~(boot \in {"id", "token"})
    BY <1>7, <2>1, Proceeds DEF Stages, Shapes, Boots
  <2>2. CASE boot = "late"
    <3>1. mem' = Merge(mem, read, Late) /\ boot' = "saveDir"
      BY <1>7, <2>2, Proceeds
    <3>2. \A k \in Minted : mem'[k] = mem[k]
      BY <1>1, <3>1, Merges DEF Shapes
    <3> QED
      BY <1>1, <2>2, <3>1, <3>2 DEF Stages
  <2>3. CASE boot = "id"
    <3>1. boot' = "token" /\ mem'["installID"] # 0 /\ \A f \in Late : mem'[f] = mem[f]
      BY <1>7, <2>3, Proceeds, Names
    <3> QED
      BY <2>3, <3>1 DEF Stages
  <2>4. CASE boot = "token"
    <3>1. /\ boot' = "late" /\ mem'["token"] # 0 /\ mem'["installID"] = mem["installID"]
          /\ \A f \in Late : mem'[f] = mem[f]
      BY <1>1, <1>7, <2>4, Names, Proceeds
    <3> QED
      BY <2>4, <3>1 DEF Stages
  <2> QED
    BY <1>7, <2>1, <2>2, <2>3, <2>4, Proceeds
<1> QED
  BY <1>2, <1>3, <1>4, <1>5, <1>6, <1>7, Starter DEF ConfigNext, Save, Asked

-----------------------------------------------------------------------------
\* Every step keeps values that were given, and memory ahead.
LEMMA MemoryStep ==
  Shapes /\ Turns /\ Stages /\ Issued /\ Ahead /\ [ConfigNext]_configVars => Issued' /\ Ahead'
<1> SUFFICES ASSUME Shapes, Turns, Stages, Issued, Ahead, [ConfigNext]_configVars
             PROVE  Issued' /\ Ahead'
  OBVIOUS
<1>1. Fields \subseteq Keys /\ \A r \in Requests : r \in Savers
  BY Names, Starter
<1>2. /\ \A k \in Keys :
           /\ mem[k] \in Nat /\ read[k] \in Nat /\ issued[k] \in Nat
           /\ \A r \in Savers : copy[r][k] \in Nat
           /\ Readable(conf) => conf.config[k] \in Nat
           /\ Readable(tmp) => tmp.config[k] \in Nat
      /\ \A f \in Fields : acked[f] \in Nat /\ current[f] \in Nat
      /\ \A k \in Keys : Blank[k] = 0
  BY Values, Blanks, FileKinds DEF Shapes
<1>3. ASSUME NEW r \in Requests, Asked(r) PROVE Issued' /\ Ahead'
  <2>1. PICK fs \in SUBSET Fields : Arrival(r, fs)
    BY <1>3, Arrivals
  <2>2. PICK n \in Configs : n = issued'
    BY <2>1 DEF Arrival
  <2>3. PICK m \in Configs, w \in Configs : m = Merge(mem, n, fs) /\ w = Merge(mem, n, fs \ Mcp)
    BY Merges DEF Shapes
  <2>4. \A k \in Keys : /\ m[k] = IF k \in fs THEN n[k] ELSE mem[k]
                        /\ w[k] = IF k \in fs \ Mcp THEN n[k] ELSE mem[k]
    BY <2>3, Merges DEF Shapes
  <2>5. \A k \in Keys : /\ n[k] = IF k \in fs THEN issued[k] + 1 ELSE issued[k]
                        /\ n[k] \in Nat /\ m[k] \in Nat /\ w[k] \in Nat /\ issued[k] <= n[k]
                        /\ mem[k] <= w[k] /\ m[k] <= n[k] /\ w[k] <= n[k]
    <3>1. \A k \in Keys : n[k] = IF k \in fs THEN issued[k] + 1 ELSE issued[k]
      BY <2>1, <2>2 DEF Arrival
    <3>2. \A k \in Keys : mem[k] <= issued[k]
      BY DEF Issued
    <3> QED
      BY <3>1, <3>2, <1>2, <2>4, Values
  <2>6. /\ mem' = w /\ (copy' = copy \/ copy' = [copy EXCEPT ![r] = m])
        /\ issued' = n /\ UNCHANGED <<read, conf, tmp, acked, current>>
    BY <2>1, <2>2, <2>3 DEF Arrival
  <2>7. \A s \in Savers : copy'[s] = copy[s] \/ copy'[s] = m
    BY <2>6 DEF Shapes
  <2>8. \A f \in Fields \ Mcp : m[f] <= mem'[f] /\ mem[f] <= mem'[f]
    <3>1. \A f \in Fields \ Mcp : m[f] = w[f]
      BY <1>1, <2>4
    <3> QED
      BY <1>1, <2>5, <2>6, <3>1
  <2>9. Issued'
    <3>1. \A k \in Keys :
            /\ w[k] <= n[k] /\ m[k] <= n[k] /\ read[k] <= n[k]
            /\ \A s \in Savers : copy[s][k] <= n[k]
            /\ Readable(conf) => conf.config[k] <= n[k]
            /\ Readable(tmp) => tmp.config[k] <= n[k]
      BY <1>2, <2>5 DEF Issued
    <3>2. \A f \in Fields : acked[f] <= n[f] /\ current[f] <= n[f]
      BY <1>1, <1>2, <2>5 DEF Issued
    <3>3. \A k \in Keys : mem'[k] <= n[k] /\ \A s \in Savers : copy'[s][k] <= n[k]
      BY <2>6, <2>7, <3>1
    <3> QED
      BY <2>6, <3>1, <3>2, <3>3 DEF Issued
  <2>10. Ahead'
    <3>1. ASSUME NEW f \in Fields \ Mcp PROVE current[f] <= mem'[f]
      BY <1>1, <1>2, <2>5, <2>6, <2>8 DEF Ahead
    <3>2. ASSUME NEW f \in Fields \ Mcp, NEW s \in Savers PROVE copy'[s][f] <= mem'[f]
      <4>1. copy[s][f] <= mem[f] /\ mem[f] <= mem'[f] /\ m[f] <= mem'[f]
        BY <2>8 DEF Ahead
      <4>2. copy[s][f] \in Nat /\ mem[f] \in Nat /\ mem'[f] \in Nat
        BY <1>1, <1>2, <2>5, <2>6
      <4> QED
        BY <4>1, <4>2, <2>7
    <3> QED
      BY <2>6, <3>1, <3>2 DEF Ahead
  <2> QED
    BY <2>9, <2>10
<1>4. ASSUME NEW r \in Requests, Marshal(r) PROVE Issued' /\ Ahead'
  <2>1. /\ UNCHANGED <<mem, read, conf, tmp, acked, current, issued>>
        /\ \A s \in Savers : copy'[s] = copy[s] \/ copy'[s] = mem
    BY <1>4 DEF Marshal, Shapes
  <2> QED
    BY <1>1, <1>2, <2>1 DEF Issued, Ahead
<1>5. ASSUME NEW r \in Savers, Open(r) PROVE Issued' /\ Ahead'
  BY <1>5, FileRecords DEF Open, Issued, Ahead
<1>6. ASSUME NEW r \in Savers, Write(r) PROVE Issued' /\ Ahead'
  <2>1. conf' \in {conf, Torn, File(copy[r])} /\ tmp' \in {tmp, Torn, File(copy[r])}
    BY <1>6 DEF Write
  <2>2. UNCHANGED <<mem, read, copy, acked, current, issued>>
    BY <1>6 DEF Write
  <2> QED
    BY <2>1, <2>2, FileRecords DEF Issued, Ahead
<1>7. ASSUME NEW r \in Savers, Rename(r) PROVE Issued' /\ Ahead'
  BY <1>7, FileRecords DEF Rename, Issued, Ahead
<1>8. ASSUME NEW r \in Savers, SaveFails(r) \/ RenameFails(r) PROVE Issued' /\ Ahead'
  <2>1. Failure(r)
    BY <1>8, Fails
  <2>2. /\ UNCHANGED <<mem, read, conf, tmp, acked, current, issued>>
        /\ \A s \in Savers : copy'[s] = copy[s] \/ copy'[s] = Blank
    BY <2>1 DEF Failure, Shapes
  <2> QED
    BY <1>1, <1>2, <2>2 DEF Issued, Ahead
<1>9. ASSUME NEW r \in Savers, Finish(r) PROVE Issued' /\ Ahead'
  <2>1. /\ UNCHANGED <<read, conf, tmp, issued>>
        /\ \A s \in Savers : copy'[s] = copy[s] \/ copy'[s] = Blank
    BY <1>9, Ends DEF Shapes
  <2>2. /\ \A k \in Keys : mem'[k] \in {mem[k], copy[r][k]}
        /\ \A f \in Fields \ Mcp : mem'[f] = mem[f]
    BY <1>1, <1>9, Ends
  <2>3. \A f \in Fields : /\ acked'[f] \in {acked[f], copy[r][f]}
                          /\ current'[f] \in {current[f], copy[r][f]}
    BY <1>9, Ends
  <2> QED
    BY <1>1, <1>2, <2>1, <2>2, <2>3 DEF Issued, Ahead
<1>10. CASE Load
  <2>1. /\ UNCHANGED <<conf, tmp, copy, issued, acked, current>>
        /\ read' = Stored /\ \A k \in Keys : mem'[k] \in {0, Stored[k]}
    BY <1>10, Loads
  <2>2. \A k \in Keys : Stored[k] \in Nat /\ Stored[k] <= issued[k]
    BY <1>2, Blanks DEF Issued, Stored
  <2>3. Issued'
    BY <1>2, <2>1, <2>2 DEF Issued
  <2>4. \A f \in Fields : current[f] = 0 /\ \A s \in Savers : copy[s][f] = 0
    <3>1. boot = "off"
      BY <1>10, Loads
    <3>2. \A s \in Savers : pc[s] = "idle"
      BY <3>1, Starter DEF Turns, Serving
    <3> QED
      BY <1>1, <1>2, <3>1, <3>2 DEF Turns
  <2>5. \A f \in Fields : mem'[f] >= 0
    BY <1>1, <2>1, <2>2
  <2> QED
    BY <2>1, <2>3, <2>4, <2>5 DEF Ahead
<1>11. CASE Start /\ ~Load
  <2>1. /\ \A k \in Keys : issued[k] <= issued'[k] /\ issued'[k] \in Nat /\ mem'[k] \in Nat
        /\ UNCHANGED <<conf, tmp, acked, current>>
        /\ \A s \in Savers : copy'[s] = copy[s] \/ copy'[s] = mem'
    BY <1>11, Proceeds, Values DEF Shapes
  <2>2. (\A k \in Keys : mem'[k] <= issued'[k] /\ read'[k] <= issued'[k])
        /\ \A f \in Fields \ Mcp : mem[f] <= mem'[f]
    <3>1. CASE boot \in {"id", "token"}
      <4>1. /\ read' = read
            /\ \/ mem' = mem /\ issued' = issued
               \/ \E k \in Minted :
                    /\ mem'[k] = issued'[k]
                    /\ \A q \in Keys \ {k} : mem'[q] = mem[q] /\ issued'[q] = issued[q]
        BY <1>11, <3>1, Proceeds
      <4>2. \A f \in Fields : mem'[f] = mem[f]
        BY <4>1, Names
      <4>3. \A k \in Keys : mem[k] <= issued[k] /\ read[k] <= issued[k]
        BY DEF Issued
      <4> QED
        BY <1>1, <1>2, <2>1, <4>1, <4>2, <4>3
    <3>2. CASE boot = "late"
      <4>1. mem' = Merge(mem, read, Late) /\ read' = Blank /\ issued' = issued
        BY <1>11, <3>2, Proceeds
      <4>2. \A k \in Keys : mem'[k] = IF k \in Late THEN read[k] ELSE mem[k]
        BY <4>1, Merges DEF Shapes
      <4>3. \A f \in Late : mem[f] <= read[f]
        BY <1>1, <1>2, <3>2, Names DEF Stages, Fresh
      <4> QED
        BY <1>1, <1>2, <4>1, <4>2, <4>3 DEF Issued
    <3>3. CASE boot \in {"saveDir", "lan"}
      <4>1. UNCHANGED <<read, mem, issued>>
        BY <1>11, <3>3, Proceeds
      <4> QED
        BY <1>1, <1>2, <4>1 DEF Issued
    <3> QED
      BY <1>11, <3>1, <3>2, <3>3, Proceeds
  <2> QED
    BY <1>1, <1>2, <2>1, <2>2 DEF Issued, Ahead
<1>12. CASE Crash
  <2>1. /\ UNCHANGED <<conf, tmp, issued, acked>> /\ mem' = Blank /\ read' = Blank
        /\ \A s \in Savers : copy'[s] = Blank
        /\ \A f \in Fields : current'[f] = 0
    BY <1>12 DEF Crash
  <2> QED
    BY <1>1, <1>2, <2>1 DEF Issued, Ahead
<1>13. CASE UNCHANGED configVars
  BY <1>13 DEF configVars, Issued, Ahead
<1> QED
  BY <1>3, <1>4, <1>5, <1>6, <1>7, <1>8, <1>9, <1>10, <1>11, <1>12, <1>13
  DEF ConfigNext, Save, Asked

-----------------------------------------------------------------------------
LEMMA FirstShapes == ConfigInit => Shapes /\ Turns /\ Opened /\ Stages
<1> SUFFICES ASSUME ConfigInit PROVE Shapes /\ Turns /\ Opened /\ Stages
  OBVIOUS
<1>1. conf \in AnyFile /\ tmp \in AnyFile
  <2>1. [Blank EXCEPT !["autoSave"] = 1] \in Configs
    BY Blanks, Names DEF Configs
  <2> QED
    BY <2>1 DEF ConfigInit, AnyFile
<1>2. issued \in Configs
  BY DEF ConfigInit, Configs
<1> QED
  BY <1>1, <1>2, Blanks, Starter
  DEF ConfigInit, Shapes, Turns, Opened, Stages, Fresh, Serving, Boots, Places

\* The settings keep their types, a file is open exactly while it is written, and a
\* server that runs has an install ID and a session token (main.go: loadConfig mints
\* them, saved or not), on a config of any age.
THEOREM SettingsTypes == ConfigSpec => []ConfigTypeOK
<1>1. Shapes /\ Opened /\ Stages => ConfigTypeOK
  <2> SUFFICES ASSUME Shapes, Opened, Stages PROVE ConfigTypeOK
    OBVIOUS
  <2>1. Serving => \A k \in Minted : mem[k] > 0
    <3>1. \A k \in Minted : mem[k] \in Nat
      BY Names, Values DEF Shapes
    <3>2. Serving => mem["installID"] # 0 /\ mem["token"] # 0
      BY DEF Serving, Stages
    <3> QED
      BY <3>1, <3>2, Names
  <2>2. \A file \in AnyFile : file \in {Missing, Torn} \/ file.config \in Configs
    BY FileRecords DEF AnyFile
  <2> QED
    BY <2>1, <2>2 DEF Shapes, Opened, ConfigTypeOK, Boots, Configs
<1> QED
  BY <1>1, FirstShapes, ShapeStep, TurnStep, OpenedStep, StageStep, PTL DEF ConfigSpec

-----------------------------------------------------------------------------
\* A request that finds nobody on the way stays alone, and the file keeps up.
LEMMA ArriveAlone ==
  ASSUME Shapes, Turns, Issued, Alone, ~raced', NEW r \in Requests, Asked(r)
  PROVE  Alone'
<1>1. Fields \subseteq Keys /\ r \in Savers
  BY Names, Starter
<1>2. PICK fs \in SUBSET Fields : Arrival(r, fs)
  BY Arrivals
<1>3. PICK n \in Configs : n = issued'
  BY <1>2 DEF Arrival
<1>4. PICK m \in Configs, w \in Configs : m = Merge(mem, n, fs) /\ w = Merge(mem, n, fs \ Mcp)
  BY Merges DEF Shapes
<1>5. \A k \in Keys : /\ m[k] = IF k \in fs THEN n[k] ELSE mem[k]
                      /\ w[k] = IF k \in fs \ Mcp THEN n[k] ELSE mem[k]
  BY <1>4, Merges DEF Shapes
<1>6. /\ boot = "up" /\ \A s \in Savers : pc[s] = "idle"
      /\ asks'[r] = fs /\ \A s \in Savers \ {r} : pc'[s] = "idle"
      /\ mem' = w /\ ((copy'[r] = m /\ pc'[r] = "save") \/ pc'[r] = "marshal")
      /\ UNCHANGED <<boot, conf, acked>>
  <2>1. \A s \in Savers : pc[s] = "idle"
    BY <1>2, Starter DEF Arrival, Serving
  <2> QED
    BY <1>1, <1>2, <1>3, <1>4, <2>1 DEF Arrival, Serving, Shapes
<1>7. \A f \in Fields : acked[f] <= n[f] /\ (f \notin fs => n[f] = issued[f])
  <2>1. \A f \in Fields : /\ acked[f] <= issued[f] /\ acked[f] \in Nat /\ issued[f] \in Nat
                          /\ n[f] = IF f \in fs THEN issued[f] + 1 ELSE issued[f]
    BY <1>1, <1>2, <1>3, Values DEF Issued, Shapes, Arrival
  <2> QED
    BY <2>1
<1>8. AloneSaves(r)'
  <2>1. ASSUME NEW k \in Keys, pc'[r] = "save"
        PROVE  copy'[r][k] = mem'[k] \/ (k \in Mcp /\ k \in asks'[r] /\ acked'[k] <= copy'[r][k])
    <3>1. m[k] = w[k] \/ (k \in Mcp /\ k \in fs /\ m[k] = n[k])
      BY <1>5
    <3>2. k \in fs => acked[k] <= n[k]
      BY <1>7
    <3> QED
      BY <2>1, <3>1, <3>2, <1>6
  <2> QED
    BY <2>1, <1>6 DEF AloneSaves
<1>9. \A s \in Savers : AloneSaves(s)'
  BY <1>6, <1>8 DEF AloneSaves
<1>10. Keeps'
  <2>1. Stored' = Stored
    BY <1>6 DEF Stored
  <2>2. \A k \in Minted : mem'[k] = mem[k]
    BY <1>5, <1>6, Names
  <2>3. \A f \in Fields \ {"shortcut"} : acked[f] <= mem'[f]
    <3>1. \A f \in Fields \ {"shortcut"} : acked[f] <= mem[f]
      BY <1>6 DEF Alone, Keeps
    <3> QED
      BY <1>1, <1>5, <1>6, <1>7, <3>1
  <2> QED
    BY <1>1, <1>6, <2>1, <2>2, <2>3 DEF Alone, Keeps, Fresh, Idle
<1> QED
  BY <1>6, <1>9, <1>10 DEF Alone

\* What a saver that is alone has in hand, and the file may become.
LEMMA CopyFits ==
  ASSUME Shapes, Turns, Stages, Alone, NEW r \in Savers,
         pc[r] \in {"save", "write", "rename", "saved"}
  PROVE  /\ \A k \in Minted : copy[r][k] = mem[k]
         /\ \A k \in Minted : copy[r][k] = 0 => \A f \in Fields : copy[r][f] = 0 /\ acked[f] = 0
         /\ \A f \in Fields \ {"shortcut"} : acked[f] <= copy[r][f]
         /\ Fresh => \A f \in Fields : copy[r][f] = 0 /\ mem[f] = 0 /\ read[f] = 0
<1>1. /\ \A k \in Keys : \/ copy[r][k] = mem[k]
                         \/ k \in Mcp /\ k \in asks[r] /\ acked[k] <= copy[r][k]
      /\ Keeps
  BY DEF Alone, AloneSaves
<1>2. \A k \in Minted : copy[r][k] = mem[k]
  BY <1>1, Names
<1>3. CASE r = Main /\ Fresh
  <2>1. \A f \in Fields : Stored[f] = 0 /\ acked[f] = 0
    BY <1>1, <1>3 DEF Keeps
  <2>2. \A f \in Fields : mem[f] = 0 /\ read[f] = 0
    BY <1>1, <1>3, <2>1 DEF Keeps
  <2>3. \A f \in Fields : copy[r][f] = 0
    BY <1>1, <1>3, <2>2, Names DEF Turns
  <2> QED
    BY <1>2, <2>1, <2>2, <2>3
<1>4. CASE boot \in {"saveDir", "lan", "up"}
  <2>1. \A k \in Minted : copy[r][k] # 0
    BY <1>2, <1>4, Names DEF Stages
  <2>2. \A f \in Fields \ {"shortcut"} : acked[f] <= mem[f]
    BY <1>1, <1>4 DEF Keeps
  <2>3. \A f \in Fields \ {"shortcut"} : acked[f] <= copy[r][f]
    BY <1>1, <2>2, Names
  <2> QED
    BY <1>2, <1>4, <2>1, <2>3 DEF Fresh
<1>5. boot # "off" /\ (r # Main => boot = "up")
  BY Starter DEF Turns, Serving
<1> QED
  BY <1>3, <1>4, <1>5 DEF Shapes, Boots, Fresh

\* Who is on its way stays alone until it is over.
LEMMA SaveAlone ==
  ASSUME Shapes, Turns, Stages, Alone, ~raced, NEW r \in Savers, Marshal(r) \/ Save(r)
  PROVE  Alone'
<1>1. Fields \subseteq Keys
  BY Names
<1>2. /\ pc[r] # "idle" /\ UNCHANGED <<boot, read>>
      /\ \A s \in Savers \ {r} : pc[s] = "idle" /\ pc'[s] = "idle"
  <2>1. \A s \in Savers \ {r} : pc[s] = "idle" \/ pc[r] = "idle"
    BY DEF Alone
  <2>2. CASE Marshal(r) \/ Open(r)
    BY <2>1, <2>2 DEF Marshal, Open, Shapes, Goto
  <2>3. CASE Write(r)
    BY <2>1, <2>3 DEF Write, Shapes, Goto
  <2>4. CASE Rename(r)
    BY <2>1, <2>4 DEF Rename, Shapes, Goto
  <2>5. CASE SaveFails(r) \/ RenameFails(r)
    <3>1. Failure(r)
      BY <2>5, Fails
    <3> QED
      BY <2>1, <3>1 DEF Failure, Shapes
  <2>6. CASE Finish(r)
    BY <2>1, <2>6, Ends DEF Shapes
  <2> QED
    BY <2>2, <2>3, <2>4, <2>5, <2>6 DEF Save
<1>3. AloneSaves(r) /\ Keeps
  BY DEF Alone
<1>4. boot # "off"
  BY <1>2, Starter DEF Turns, Serving
<1>5. ASSUME AloneSaves(r)', Keeps' PROVE Alone'
  <2>1. \A s \in Savers : AloneSaves(s)'
    <3>1. ASSUME NEW s \in Savers \ {r} PROVE AloneSaves(s)'
      BY <1>2 DEF AloneSaves
    <3> QED
      BY <1>5, <3>1
  <2>2. \A s, t \in Savers : pc'[s] # "idle" /\ pc'[t] # "idle" => s = t
    BY <1>2
  <2> QED
    BY <1>5, <2>1, <2>2 DEF Alone
<1>6. CASE Marshal(r) \/ Open(r) \/ Write(r)
  <2>1. UNCHANGED <<mem, conf, acked, asks>> /\ pc'[r] # "idle"
    <3>1. CASE Marshal(r) \/ Open(r)
      BY <3>1 DEF Marshal, Open, Shapes, Goto
    <3>2. CASE Write(r)
      BY <3>2, <1>3 DEF Write, AloneSaves, Shapes, Goto
    <3> QED
      BY <1>6, <3>1, <3>2
  <2>2. AloneSaves(r)'
    <3>1. CASE Marshal(r)
      BY <3>1, <2>1 DEF Marshal, AloneSaves, Shapes, Goto
    <3>2. CASE Open(r)
      BY <3>2, <2>1, <1>3 DEF Open, AloneSaves, Shapes, Goto
    <3>3. CASE Write(r)
      <4>1. tmp' = File(copy[r]) /\ pc'[r] = "rename" /\ UNCHANGED copy /\ pc[r] = "write"
        BY <3>3, <1>3, FileRecords DEF Write, AloneSaves, Shapes, Goto
      <4> QED
        BY <4>1, <2>1, <1>3 DEF AloneSaves
    <3> QED
      BY <1>6, <3>1, <3>2, <3>3
  <2>3. Keeps'
    <3>1. Stored' = Stored
      BY <2>1 DEF Stored
    <3>2. ~Idle' /\ pc[Main] = "idle" => pc'[Main] = "idle"
      BY <1>2, <2>1, Starter DEF Idle
    <3> QED
      BY <1>2, <1>3, <2>1, <3>1, <3>2 DEF Keeps, Fresh, Idle
  <2> QED
    BY <1>5, <2>2, <2>3
<1>7. CASE SaveFails(r) \/ RenameFails(r)
  <2>1. Failure(r)
    BY <1>7, Fails
  <2>2. UNCHANGED <<mem, conf, acked>> /\ unsaved' /\ pc'[r] = "idle"
    BY <2>1 DEF Failure, Shapes
  <2>3. Stored' = Stored
    BY <2>2 DEF Stored
  <2>4. pc'[Main] = "idle"
    BY <1>2, <2>2, Starter
  <2>5. Keeps'
    BY <1>2, <1>3, <2>2, <2>3, <2>4 DEF Keeps, Fresh
  <2> QED
    BY <1>5, <2>2, <2>5 DEF AloneSaves
<1>8. CASE Rename(r)
  <2>1. /\ UNCHANGED <<mem, acked, copy, asks>> /\ conf' = File(copy[r]) /\ ~unsaved'
        /\ pc[r] = "rename" /\ pc'[r] = "saved"
    BY <1>3, <1>8 DEF Rename, AloneSaves, Shapes, Goto
  <2>2. Stored' = copy[r]
    BY <2>1, FileRecords DEF Stored
  <2>3. AloneSaves(r)'
    BY <1>3, <2>1 DEF AloneSaves
  <2>4. /\ \A k \in Minted : copy[r][k] = mem[k]
        /\ \A k \in Minted : copy[r][k] = 0 => \A f \in Fields : copy[r][f] = 0 /\ acked[f] = 0
        /\ \A f \in Fields \ {"shortcut"} : acked[f] <= copy[r][f]
        /\ Fresh => \A f \in Fields : copy[r][f] = 0 /\ mem[f] = 0 /\ read[f] = 0
    BY <2>1, CopyFits
  <2>5. ~Idle'
    BY <2>1 DEF Idle
  <2>6. Fresh => pc[Main] # "idle"
    BY <1>2, Starter DEF Turns, Serving, Fresh
  <2>7. Keeps'
    BY <1>2, <1>3, <2>1, <2>2, <2>4, <2>5, <2>6, FileRecords DEF Keeps, Fresh
  <2> QED
    BY <1>5, <2>3, <2>7
<1>9. CASE Finish(r)
  <2>1. /\ conf = File(copy[r]) /\ ~unsaved /\ pc[r] = "saved" /\ pc'[r] = "idle"
        /\ UNCHANGED <<conf, unsaved>>
    BY <1>3, <1>9, Ends DEF AloneSaves, Shapes
  <2>2. Stored = copy[r] /\ Stored' = copy[r]
    BY <2>1, FileRecords DEF Stored
  <2>3. \A k \in Keys : mem'[k] = copy[r][k]
    <3>1. \A k \in Keys : \/ copy[r][k] = mem[k]
                          \/ k \in Mcp /\ k \in asks[r]
      BY <1>3, <2>1 DEF AloneSaves
    <3> QED
      BY <1>9, <3>1, Ends
  <2>4. \A f \in Fields : acked'[f] \in {acked[f], copy[r][f]}
    BY <1>9, Ends
  <2>5. /\ \A k \in Minted : copy[r][k] = 0 => \A f \in Fields : copy[r][f] = 0 /\ acked[f] = 0
        /\ \A f \in Fields \ {"shortcut"} : acked[f] <= copy[r][f]
        /\ Fresh => \A f \in Fields : copy[r][f] = 0 /\ mem[f] = 0 /\ read[f] = 0
    BY <2>1, CopyFits
  <2>6. \A f \in Fields \ {"shortcut"} : acked'[f] <= copy[r][f]
    <3>1. \A f \in Fields : copy[r][f] \in Nat
      BY <1>1, Values DEF Shapes
    <3> QED
      BY <2>4, <2>5, <3>1
  <2>7. \A k \in Minted : copy[r][k] = 0 => \A f \in Fields : copy[r][f] = 0 /\ acked'[f] = 0
    BY <2>4, <2>5
  <2>8. pc'[Main] = "idle"
    BY <1>2, <2>1, Starter
  <2>9. Keeps'
    <3>1. conf' # Torn /\ Fresh' = Fresh
      BY <1>2, <2>1, FileRecords DEF Fresh
    <3>2. Fresh => \A f \in Fields :
            read'[f] = Stored'[f] /\ mem'[f] = IF f \in Early THEN Stored'[f] ELSE 0
      BY <1>1, <1>2, <2>2, <2>3, <2>5
    <3>3. boot' \in {"saveDir", "lan", "up"} =>
            \A f \in Fields \ {"shortcut"} : acked'[f] <= mem'[f]
      BY <1>1, <2>3, <2>6
    <3>4. \A k \in Minted : mem'[k] = Stored'[k]
      BY <2>2, <2>3, Names
    <3>5. \A k \in Keys : mem'[k] = Stored'[k]
      BY <2>2, <2>3
    <3> QED
      BY <2>2, <2>6, <2>7, <2>8, <3>1, <3>2, <3>3, <3>4, <3>5 DEF Keeps
  <2> QED
    BY <1>5, <2>1, <2>9 DEF AloneSaves
<1> QED
  BY <1>6, <1>7, <1>8, <1>9 DEF Save

\* And a start, or the end of the process, takes nothing back.
LEMMA StartAlone ==
  ASSUME Shapes, Turns, Stages, Alone, Start \/ Crash
  PROVE  Alone'
<1>1. /\ Fields \subseteq Keys /\ Minted \subseteq Keys /\ Keeps
      /\ Stored \in Configs /\ (Readable(conf) => Stored = conf.config)
  BY Names, Holds DEF Alone, Shapes
<1>2. ASSUME Keeps', \A s \in Savers : pc'[s] = "idle" PROVE Alone'
  BY <1>2 DEF Alone, AloneSaves
<1>3. CASE Load
  <2>1. /\ boot = "off" /\ boot' = "id" /\ read' = Stored
        /\ \A k \in Early \cup Minted : mem'[k] = Stored[k]
        /\ \A k \in Keys \ (Early \cup Minted) : mem'[k] = 0
        /\ UNCHANGED <<conf, pc, acked, unsaved>>
    BY <1>3, Loads
  <2>2. Stored' = Stored
    BY <2>1 DEF Stored
  <2>3. \A s \in Savers : pc'[s] = "idle"
    BY <2>1, Starter DEF Turns, Serving
  <2>4. \A f \in Fields : mem'[f] = IF f \in Early THEN Stored[f] ELSE 0
    BY <2>1, Names
  <2>5. \A k \in Keys \ {"shortcut"} : mem'[k] = Stored[k] \/ k \in Late
    BY <2>1, Names
  <2>6. Keeps'
    BY <1>1, <2>1, <2>2, <2>3, <2>4, <2>5, Starter DEF Keeps, Fresh
  <2> QED
    BY <1>2, <2>3, <2>6
<1>4. CASE Start /\ ~Load
  <2>1. /\ pc[Main] = "idle" /\ boot # "off" /\ boot # "up" /\ UNCHANGED <<conf, acked, unsaved>>
    BY <1>4, Proceeds
  <2>2. Stored' = Stored
    BY <2>1 DEF Stored
  <2>3. \A s \in Savers : pc[s] = "idle"
    BY <2>1, Starter DEF Turns, Serving
  <2>4. /\ \/ UNCHANGED <<copy, pc>>
           \/ copy'[Main] = mem' /\ pc'[Main] = "save"
        /\ \A s \in Savers \ {Main} : pc'[s] = "idle"
    BY <1>4, <2>3, Proceeds, Starter DEF Shapes
  <2>5. ASSUME Keeps' PROVE Alone'
    BY <2>3, <2>4, <2>5 DEF Alone, AloneSaves
  <2>6. ASSUME NEW k \in Minted,
               (boot = "id" /\ boot' = "token") \/ (boot = "token" /\ boot' = "late"),
               read' = read,
               \/ /\ mem[k] = 0 /\ mem'[k] # 0
                  /\ \A q \in Keys \ {k} : mem'[q] = mem[q]
                  /\ pc'[Main] = "save"
               \/ UNCHANGED <<mem, pc>>
        PROVE  Keeps'
    <3>1. CASE UNCHANGED <<mem, pc>>
      BY <1>1, <2>1, <2>2, <2>6, <3>1 DEF Keeps, Fresh, Idle
    <3>2. CASE /\ mem[k] = 0 /\ mem'[k] # 0 /\ pc'[Main] = "save"
               /\ \A q \in Keys \ {k} : mem'[q] = mem[q]
      <4>1. Stored[k] = 0
        BY <1>1, <2>1, <3>2 DEF Keeps
      <4>2. \A f \in Fields : Stored[f] = 0 /\ acked[f] = 0
        BY <1>1, <4>1 DEF Keeps
      <4>3. \A f \in Fields : mem'[f] = mem[f]
        BY <3>2, Names
      <4>4. \A q \in Minted : Stored[q] # 0 => mem'[q] = Stored[q]
        BY <1>1, <2>1, <3>2, <4>1 DEF Keeps
      <4>5. ~Idle' /\ Fresh /\ Fresh'
        BY <2>6, <3>2, Starter DEF Idle, Fresh
      <4> QED
        BY <1>1, <2>1, <2>2, <2>6, <4>2, <4>3, <4>4, <4>5 DEF Keeps
    <3> QED
      BY <2>6, <3>1, <3>2
  <2>7. ASSUME boot = "late", boot' = "saveDir", mem' = Merge(mem, read, Late), pc' = pc
        PROVE  Keeps'
    <3>1. \A q \in Keys : mem'[q] = IF q \in Late THEN read[q] ELSE mem[q]
      BY <2>7, Merges DEF Shapes
    <3>2. Fresh /\ ~Fresh'
      BY <2>7 DEF Fresh
    <3>3. \A f \in Fields \ {"shortcut"} : mem'[f] = Stored[f]
      BY <1>1, <3>1, <3>2, Names DEF Keeps
    <3>4. \A k \in Minted : mem'[k] = mem[k]
      BY <1>1, <3>1, Names
    <3>5. \A f \in Fields \ {"shortcut"} : acked[f] <= mem'[f]
      BY <1>1, <3>3 DEF Keeps
    <3>6. Idle' /\ ~unsaved' /\ boot' # "off" =>
            \A k \in Keys \ {"shortcut"} : mem'[k] = Stored[k] \/ (Fresh' /\ k \in Late)
      <4>1. ~unsaved => \A k \in Minted : mem[k] = Stored[k]
        BY <1>1, <2>1, <2>3, Names DEF Keeps, Idle
      <4> QED
        BY <2>1, <3>3, <3>4, <4>1, Names
    <3> QED
      BY <1>1, <2>1, <2>2, <3>2, <3>4, <3>5, <3>6 DEF Keeps
  <2>8. ASSUME boot \in {"saveDir", "lan"}, boot' \in {"lan", "up"}, UNCHANGED mem
        PROVE  Keeps'
    <3>1. Idle' => Idle
      BY <2>3 DEF Idle
    <3>2. ~Fresh /\ ~Fresh'
      BY <2>8 DEF Fresh
    <3> QED
      BY <1>1, <2>1, <2>2, <2>8, <3>1, <3>2 DEF Keeps
  <2>9. Keeps'
    <3>1. CASE boot \in {"id", "token"}
      <4>1. PICK k \in Minted :
              /\ (boot = "id" /\ boot' = "token") \/ (boot = "token" /\ boot' = "late")
              /\ read' = read
              /\ \/ /\ mem[k] = 0 /\ mem'[k] # 0
                    /\ \A q \in Keys \ {k} : mem'[q] = mem[q]
                    /\ pc'[Main] = "save"
                 \/ UNCHANGED <<mem, pc>>
        BY <1>4, <3>1, Proceeds, Starter DEF Shapes
      <4> QED
        BY <2>6, <4>1
    <3>2. CASE boot = "late"
      BY <1>4, <2>7, <3>2, Proceeds
    <3>3. CASE boot \in {"saveDir", "lan"}
      BY <1>4, <2>8, <3>3, Proceeds
    <3> QED
      BY <1>4, <3>1, <3>2, <3>3, Proceeds
  <2> QED
    BY <2>5, <2>9
<1>5. CASE Crash
  <2>1. boot' = "off" /\ UNCHANGED <<conf, acked>> /\ \A s \in Savers : pc'[s] = "idle"
    BY <1>5 DEF Crash
  <2>2. Stored' = Stored
    BY <2>1 DEF Stored
  <2>3. Keeps'
    BY <1>1, <2>1, <2>2 DEF Keeps, Fresh
  <2> QED
    BY <1>2, <2>1, <2>3
<1> QED
  BY <1>3, <1>4, <1>5

LEMMA InvStep == Inv /\ [ConfigNext]_configVars => Inv'
<1> SUFFICES ASSUME Inv, [ConfigNext]_configVars PROVE Inv'
  OBVIOUS
<1>1. Shapes' /\ Turns' /\ Stages' /\ Issued' /\ Ahead'
  BY ShapeStep, TurnStep, StageStep, MemoryStep DEF Inv
<1>2. ASSUME ~raced' PROVE Alone'
  <2>1. ~raced /\ Alone
    <3>1. raced => raced'
      BY DEF ConfigNext, configVars, Save, HandleConfig, HandleMcpStatus, HandleMcpRotate,
             Ask, Hide, Arrive, Marshal,
             Open, Write, SaveFails, Rename, RenameFails, Finish, Start, Load, Mint,
             ApplyLate, Flag, Proceed, Crash
    <3> QED
      BY <1>2, <3>1 DEF Inv
  <2>2. CASE \E r \in Requests : Asked(r)
    BY <1>2, <2>1, <2>2, ArriveAlone DEF Inv
  <2>3. CASE (\E r \in Requests : Marshal(r)) \/ \E r \in Savers : Save(r)
    BY <2>1, <2>3, SaveAlone, Starter DEF Inv
  <2>4. CASE Start \/ Crash
    BY <2>1, <2>4, StartAlone DEF Inv
  <2>5. CASE UNCHANGED configVars
    BY <2>1, <2>5 DEF configVars, Alone, AloneSaves, Keeps, Fresh, Idle, Stored
  <2> QED
    BY <2>2, <2>3, <2>4, <2>5 DEF ConfigNext, Asked
<1> QED
  BY <1>1, <1>2 DEF Inv

LEMMA InvInit == ~Legacy /\ ConfigInit => Inv
<1> SUFFICES ASSUME ~Legacy, ConfigInit PROVE Inv
  OBVIOUS
<1>1. /\ conf = Missing /\ tmp = Missing /\ mem = Blank /\ read = Blank /\ boot = "off"
      /\ \A r \in Savers : pc[r] = "idle" /\ copy[r] = Blank
      /\ \A k \in Keys : issued[k] = 1 /\ Blank[k] = 0
      /\ \A f \in Fields : acked[f] = 0 /\ current[f] = 0
  BY Blanks DEF ConfigInit
<1>2. Issued /\ Ahead
  BY <1>1, Names, FileRecords DEF Issued, Ahead
<1>3. Alone
  <2>1. Stored = Blank
    BY <1>1, FileRecords DEF Stored
  <2> QED
    BY <1>1, <2>1, Names DEF Alone, AloneSaves, Keeps, Fresh, Missing, Torn
<1> QED
  BY <1>2, <1>3, FirstShapes DEF Inv

-----------------------------------------------------------------------------
\* While the process runs no later answer takes back what a settings request was answered
\* for (handleConfig, handleDeviceHidden); and as long as no two requests overlapped,
\* config.json keeps it (handleMcpStatus and handleMcpRotate too) over crashes and failing
\* saves, and a restart changes nothing.
THEOREM SettingsStay == ~Legacy /\ ConfigSpec => []SettingsKept
<1>1. Inv => SettingsKept
  <2> SUFFICES ASSUME Inv PROVE SettingsKept
    OBVIOUS
  <2>1. /\ Stored \in Configs /\ (Readable(conf) => Stored = conf.config)
        /\ \A k \in Keys : Stored[k] # 0 => Readable(conf)
    BY Holds DEF Inv, Shapes
  <2>2. \A f \in Fields : /\ mem[f] \in Nat /\ acked[f] \in Nat /\ current[f] \in Nat
                          /\ Stored[f] \in Nat
    BY <2>1, Values, Names DEF Inv, Shapes
  <2>3. \A f \in Fields \ Mcp : mem[f] >= current[f]
    BY <2>2 DEF Inv, Ahead
  <2>4. ASSUME ~raced, NEW f \in Fields \ {"shortcut"}
        PROVE  Stored[f] >= acked[f] /\ (Serving => mem[f] >= acked[f])
    BY <2>2, <2>4 DEF Inv, Alone, Keeps, Serving
  <2>5. ASSUME ~raced PROVE RestartChangesNothing
    <3> SUFFICES ASSUME Quiet, ~unsaved
                 PROVE  Readable(conf) /\ \A k \in Keys \ {"shortcut"} : conf.config[k] = mem[k]
      BY DEF RestartChangesNothing
    <3>1. Idle /\ boot = "up" /\ ~Fresh
      BY Starter DEF Quiet, Serving, Idle, Fresh
    <3>2. \A k \in Keys \ {"shortcut"} : mem[k] = Stored[k]
      BY <2>5, <3>1 DEF Inv, Alone, Keeps
    <3>3. "token" \in Keys \ {"shortcut"} /\ mem["token"] # 0
      BY <3>1, Names DEF Inv, Stages
    <3> QED
      BY <2>1, <3>2, <3>3
  <2> QED
    BY <2>3, <2>4, <2>5 DEF SettingsKept
<1> QED
  BY <1>1, InvInit, InvStep, PTL DEF ConfigSpec

\* main.go:106-110: the session token, once config.json holds it, survives requests and
\* restarts, whatever save fails and wherever the process ends, as long as no two
\* requests overlapped.  So does the install ID.
THEOREM TokenStays == ~Legacy /\ ConfigSpec => TokenStableUnlessRaced
<1> DEFINE Stays == \A k \in Minted :
                      (Stored[k] # 0 /\ ~raced) =>
                        /\ Stored'[k] = Stored[k]
                        /\ boot' # "off" => mem'[k] = Stored[k]
<1>1. Inv /\ [ConfigNext]_configVars => [Stays]_configVars
  <2> SUFFICES ASSUME Inv, [ConfigNext]_configVars, NEW k \in Minted, Stored[k] # 0, ~raced
               PROVE  Stored'[k] = Stored[k] /\ (boot' # "off" => mem'[k] = Stored[k])
    OBVIOUS
  <2>1. /\ k \in Keys /\ k \notin Fields /\ k \notin Mcp /\ k \notin Late /\ Keeps /\ Alone
        /\ Shapes /\ Turns /\ Stages
    BY Names DEF Inv, Alone
  <2>2. boot # "off" => mem[k] = Stored[k]
    BY <2>1 DEF Keeps
  <2>3. ASSUME NEW r \in Requests, Asked(r) PROVE mem'[k] = mem[k] /\ UNCHANGED <<conf, boot>>
    <3>1. PICK fs \in SUBSET Fields : Arrival(r, fs)
      BY <2>1, <2>3, Arrivals
    <3>2. PICK n \in Configs : n = issued'
      BY <3>1 DEF Arrival
    <3>3. mem' = Merge(mem, n, fs \ Mcp)
      BY <3>1, <3>2 DEF Arrival
    <3> QED
      BY <2>1, <3>1, <3>3, Merges DEF Arrival, Shapes
  <2>4. ASSUME NEW r \in Savers, Marshal(r) \/ Open(r) \/ SaveFails(r) \/ RenameFails(r)
        PROVE  UNCHANGED <<mem, conf, boot>>
    BY <2>4 DEF Marshal, Open, SaveFails, RenameFails
  <2>5. ASSUME NEW r \in Savers, Write(r) PROVE UNCHANGED <<mem, conf, boot>>
    BY <2>1, <2>5 DEF Write, Alone, AloneSaves
  <2>6. ASSUME NEW r \in Savers, Rename(r)
        PROVE  UNCHANGED <<mem, boot>> /\ conf' = File(copy[r]) /\ copy[r][k] = mem[k] /\ boot # "off"
    <3>1. pc[r] = "rename" /\ conf' = tmp /\ tmp = File(copy[r]) /\ UNCHANGED <<mem, boot>>
      BY <2>1, <2>6 DEF Rename, Alone, AloneSaves
    <3>2. copy[r][k] = mem[k]
      BY <2>1, <3>1, CopyFits
    <3> QED
      BY <2>1, <3>1, <3>2, Starter DEF Turns, Serving
  <2>7. ASSUME NEW r \in Savers, Finish(r) PROVE mem'[k] = mem[k] /\ UNCHANGED <<conf, boot>>
    BY <2>1, <2>7, Ends
  <2>8. CASE Load
    <3>1. mem'[k] = Stored[k] /\ UNCHANGED conf
      BY <2>1, <2>8, Loads
    <3> QED
      BY <3>1 DEF Stored
  <2>9. CASE Start /\ ~Load
    <3>1. UNCHANGED conf /\ boot # "off"
      BY <2>1, <2>9, Proceeds
    <3>2. mem'[k] = mem[k]
      <4>1. CASE boot = "late"
        BY <2>1, <2>9, <4>1, Proceeds, Merges DEF Shapes
      <4>2. CASE boot # "late"
        BY <2>1, <2>2, <2>9, <3>1, <4>2, Proceeds
      <4> QED
        BY <4>1, <4>2
    <3> QED
      BY <2>2, <3>1, <3>2 DEF Stored
  <2>10. CASE Crash
    BY <2>10 DEF Crash, Stored
  <2>11. CASE mem'[k] = mem[k] /\ UNCHANGED <<conf, boot>>
    BY <2>2, <2>11 DEF Stored
  <2>12. CASE \E r \in Savers : Rename(r)
    BY <2>2, <2>6, <2>12, FileRecords DEF Stored
  <2> QED
    BY <2>3, <2>4, <2>5, <2>7, <2>8, <2>9, <2>10, <2>11, <2>12, Starter
    DEF ConfigNext, configVars, Save, Asked
<1> QED
  BY <1>1, InvInit, InvStep, PTL DEF ConfigSpec, TokenStableUnlessRaced
=============================================================================

-------------------------- MODULE SyncBoardProofs --------------------------
(***************************************************************************)
(* The sync board, for any number of posts, any cap and any mishaps: what  *)
(* is listed can be downloaded, what is not takes no space, and the board  *)
(* is what module Board says.                                              *)
(*                                                                         *)
(* The properties speak of the list while its holder is half way through,  *)
(* so the invariant says how far a holder can be: Pending relates the list *)
(* it has changed to the one its readers still see, and Unlinking says     *)
(* that what it has to unlink is out of the one and still in the other.    *)
(***************************************************************************)
EXTENDS SyncBoard, SequenceTheorems, TLAPS

\* The list of whoever holds st.mu is one change ahead of its readers'.
Pending ==
  /\ mu = Nobody => items = seen
  /\ mu \in Posts => items = Newest(Append(seen, mu))
  /\ mu = Owner => items = <<>> \/ \E i \in DOMAIN seen : items = RemoveAt(seen, i)

Unlinking == Range(todo) \cap Range(items) = {} /\ Range(todo) \subseteq Range(seen)

\* What is in a list has been added to it.
Placed ==
  \A list \in {items, saved, seen} : \A p \in Range(list) : stage[p] \in {"saving", "listed", "cut"}

\* A post that waits for st.mu has stored its file.
StoredFirst == \A p \in Posts : stage[p] = "add" /\ kind[p] # "text" => payload[p] = "whole"

Inv ==
  /\ BoardTypeOK
  /\ Pending /\ Unlinking /\ Placed /\ StoredFirst
  /\ ListedHasPayload /\ NothingLeaks

Listed(s) == s \in Seq(Posts) /\ Len(s) <= Cap /\ IsInjective(s)

-----------------------------------------------------------------------------
\* A post that is new to a list is appended to it.
LEMMA Appends ==
  ASSUME NEW s, Listed(s), NEW p \in Posts, p \notin Range(s)
  PROVE  /\ Append(s, p) \in Seq(Posts) /\ Len(Append(s, p)) = Len(s) + 1
         /\ IsInjective(Append(s, p)) /\ Range(Append(s, p)) = Range(s) \cup {p}
<1>1. /\ Append(s, p) \in Seq(Posts) /\ Len(Append(s, p)) = Len(s) + 1 /\ Len(s) \in Nat
      /\ DOMAIN s = 1..Len(s) /\ DOMAIN Append(s, p) = 1..(Len(s) + 1)
      /\ Append(s, p)[Len(s) + 1] = p
      /\ \A i \in 1..Len(s) : Append(s, p)[i] = s[i]
  BY DEF Listed
<1>2. \A i \in 1..(Len(s) + 1) : i \in 1..Len(s) \/ i = Len(s) + 1
  BY <1>1
<1>3. \A i \in 1..Len(s) : s[i] # p
  BY <1>1 DEF Range
<1>4. IsInjective(Append(s, p))
  <2> SUFFICES ASSUME NEW i \in 1..(Len(s) + 1), NEW j \in 1..(Len(s) + 1),
                      Append(s, p)[i] = Append(s, p)[j]
               PROVE  i = j
    BY <1>1 DEF IsInjective
  <2>1. CASE i \in 1..Len(s) /\ j \in 1..Len(s)
    BY <2>1, <1>1 DEF Listed, IsInjective
  <2> QED
    BY <2>1, <1>1, <1>2, <1>3
<1>5. Range(Append(s, p)) = Range(s) \cup {p}
  <2>1. Range(s) \subseteq Range(Append(s, p)) /\ p \in Range(Append(s, p))
    BY <1>1 DEF Range
  <2>2. Range(Append(s, p)) \subseteq Range(s) \cup {p}
    BY <1>1, <1>2 DEF Range
  <2> QED
    BY <2>1, <2>2
<1> QED
  BY <1>1, <1>4, <1>5

\* The items but the first.
LEMMA Tails ==
  ASSUME NEW s \in Seq(Posts), IsInjective(s), s # <<>>
  PROVE  /\ Tail(s) \in Seq(Posts) /\ Len(Tail(s)) = Len(s) - 1 /\ IsInjective(Tail(s))
         /\ Head(s) \in Posts /\ Head(s) \in Range(s)
         /\ Range(Tail(s)) = Range(s) \ {Head(s)}
<1>1. /\ Len(s) \in Nat /\ Len(s) > 0 /\ DOMAIN s = 1..Len(s)
      /\ Head(s) = s[1] /\ \A k \in 1..Len(s) : s[k] \in Posts
  OBVIOUS
<1>2. /\ Tail(s) \in Seq(Posts) /\ Len(Tail(s)) = Len(s) - 1 /\ DOMAIN Tail(s) = 1..(Len(s) - 1)
      /\ \A k \in 1..(Len(s) - 1) : Tail(s)[k] = s[k + 1]
  BY <1>1
<1>3. \A k \in 1..(Len(s) - 1) : k + 1 \in 1..Len(s) /\ k + 1 # 1
  BY <1>1
<1>4. IsInjective(Tail(s))
  BY <1>1, <1>2, <1>3 DEF IsInjective
<1>5. Range(Tail(s)) \subseteq Range(s) \ {s[1]}
  BY <1>1, <1>2, <1>3 DEF Range, IsInjective
<1>6. ASSUME NEW k \in 1..Len(s), k # 1 PROVE s[k] \in Range(Tail(s))
  <2>1. k - 1 \in 1..(Len(s) - 1) /\ Tail(s)[k - 1] = s[k]
    BY <1>1, <1>2, <1>6
  <2> QED
    BY <2>1, <1>2 DEF Range
<1>7. Range(s) \ {s[1]} \subseteq Range(Tail(s))
  BY <1>1, <1>6 DEF Range
<1>8. s[1] \in Range(s) /\ s[1] \in Posts
  BY <1>1 DEF Range
<1> QED
  BY <1>1, <1>2, <1>4, <1>5, <1>7, <1>8

\* evictLocked: what stays fits the cap, and what goes is the oldest item.
LEMMA Evicts ==
  ASSUME NEW s \in Seq(Posts), IsInjective(s), Len(s) <= Cap + 1
  PROVE  /\ Listed(Newest(s)) /\ Listed(Evicted(s))
         /\ Range(Newest(s)) = Range(s) \ Range(Evicted(s))
         /\ \A x \in Range(Evicted(s)) : x = s[1] /\ 1 \in 1..(Len(s) - 1)
<1>1. Cap \in Nat \ {0} /\ Len(s) \in Nat
  BY BoardAssumption
<1>2. Len(s) = Cap + 1 \/ Len(s) <= Cap
  BY <1>1
<1>3. CASE Len(s) = Cap + 1
  <2>1. /\ s # <<>> /\ Head(s) = s[1] /\ s[1] \in Posts
        /\ Len(s) - Cap = 1 /\ Len(s) > Cap /\ Len(s) - Cap + 1 = 2 /\ 1 \in 1..(Len(s) - 1)
    BY <1>1, <1>3
  <2>2. Newest(s) = Tail(s)
    BY <2>1, TailIsSubSeq DEF Newest
  <2>3. /\ Evicted(s) \in Seq(Posts) /\ Len(Evicted(s)) = 1 /\ Evicted(s)[1] = s[1]
        /\ DOMAIN Evicted(s) = {1}
    BY <1>1, <2>1 DEF Evicted
  <2>4. Listed(Evicted(s)) /\ Range(Evicted(s)) = {s[1]}
    BY <2>3, <1>1 DEF Listed, IsInjective, Range
  <2> QED
    BY <1>1, <1>3, <2>1, <2>2, <2>4, Tails DEF Listed
<1>4. CASE Len(s) <= Cap
  <2>1. Newest(s) = s /\ Evicted(s) = <<>>
    BY <1>1, <1>4, SubSeqEmpty DEF Newest, Evicted
  <2>2. Listed(<<>>) /\ Range(<<>>) = {}
    BY <1>1 DEF Listed, IsInjective, Range
  <2> QED
    BY <1>4, <2>1, <2>2 DEF Listed
<1> QED
  BY <1>2, <1>3, <1>4

\* The items but the one at i.
LEMMA Removes ==
  ASSUME NEW s, Listed(s), NEW i \in DOMAIN s
  PROVE  /\ Listed(RemoveAt(s, i)) /\ s[i] \in Posts /\ s[i] \in Range(s)
         /\ Range(RemoveAt(s, i)) = Range(s) \ {s[i]}
<1> DEFINE n == Len(s)
           r == RemoveAt(s, i)
           from(k) == IF k < i THEN k ELSE k + 1
<1>1. /\ n \in Nat /\ DOMAIN s = 1..n /\ i \in 1..n /\ \A k \in 1..n : s[k] \in Posts
      /\ s \in Seq(Posts) /\ n <= Cap
  BY DEF Listed
<1>2. /\ SubSeq(s, 1, i - 1) \in Seq(Posts) /\ Len(SubSeq(s, 1, i - 1)) = i - 1
      /\ \A k \in 1..(i - 1) : SubSeq(s, 1, i - 1)[k] = s[k]
  BY <1>1
<1>3. /\ SubSeq(s, i + 1, n) \in Seq(Posts) /\ Len(SubSeq(s, i + 1, n)) = n - i
      /\ \A k \in 1..(n - i) : SubSeq(s, i + 1, n)[k] = s[k + i]
  <2>1. /\ i + 1 \in Int /\ n \in Int /\ \A k \in (i + 1)..n : s[k] \in Posts
        /\ n - (i + 1) + 1 = n - i
    BY <1>1
  <2>2. /\ SubSeq(s, i + 1, n) \in Seq(Posts)
        /\ Len(SubSeq(s, i + 1, n)) = IF i + 1 <= n THEN n - (i + 1) + 1 ELSE 0
        /\ \A k \in 1..(n - (i + 1) + 1) : SubSeq(s, i + 1, n)[k] = s[(i + 1) + k - 1]
    BY <2>1, SubSeqProperties
  <2> HIDE DEF n
  <2> QED
    BY <2>1, <2>2, <1>1
<1>4. /\ r \in Seq(Posts) /\ Len(r) = n - 1 /\ DOMAIN r = 1..(n - 1)
      /\ \A k \in 1..(n - 1) : r[k] = s[from(k)]
  <2> DEFINE a == SubSeq(s, 1, i - 1)
             b == SubSeq(s, i + 1, n)
  <2>1. r = a \o b
    BY DEF RemoveAt
  <2>2. /\ a \o b \in Seq(Posts) /\ Len(a \o b) = Len(a) + Len(b)
        /\ \A k \in 1..(Len(a) + Len(b)) :
             (a \o b)[k] = IF k <= Len(a) THEN a[k] ELSE b[k - Len(a)]
    BY <1>2, <1>3, ConcatProperties
  <2>3. Len(a) + Len(b) = n - 1
    BY <1>1, <1>2, <1>3
  <2> HIDE DEF a, b, r, n
  <2>4. r \in Seq(Posts) /\ Len(r) = n - 1 /\ DOMAIN r = 1..(n - 1)
    BY <2>1, <2>2, <2>3, LenProperties
  <2>5. ASSUME NEW k \in 1..(n - 1) PROVE r[k] = s[from(k)]
    <3>1. CASE k < i
      <4>1. k \in 1..(i - 1) /\ k <= Len(a)
        BY <3>1, <1>1, <1>2 DEF a
      <4> QED
        BY <4>1, <3>1, <2>1, <2>2, <2>3, <1>2 DEF a
    <3>2. CASE k >= i
      <4>1. k - (i - 1) \in 1..(n - i) /\ (k - (i - 1)) + i = k + 1
        BY <3>2, <1>1
      <4>2. ~(k <= Len(a)) /\ Len(a) = i - 1
        BY <3>2, <1>1, <1>2 DEF a
      <4>3. r[k] = b[k - (i - 1)]
        BY <4>2, <2>1, <2>2, <2>3
      <4>4. b[k - (i - 1)] = s[k + 1]
        BY <4>1, <1>3 DEF b
      <4> QED
        BY <4>3, <4>4, <3>2, <1>1
    <3> QED
      BY <3>1, <3>2, <1>1
  <2> QED
    BY <2>4, <2>5
<1>5. /\ \A k \in 1..(n - 1) : from(k) \in 1..n /\ from(k) # i
      /\ \A j, k \in 1..(n - 1) : from(j) = from(k) => j = k
      /\ \A k \in 1..n : k # i => \E j \in 1..(n - 1) : from(j) = k
  <2> HIDE DEF n
  <2>1. /\ \A k \in 1..(n - 1) : from(k) \in 1..n /\ from(k) # i
        /\ \A j, k \in 1..(n - 1) : from(j) = from(k) => j = k
    BY <1>1
  <2>2. ASSUME NEW k \in 1..n, k # i PROVE \E j \in 1..(n - 1) : from(j) = k
    <3>1. CASE k < i
      BY <3>1, <1>1
    <3>2. CASE k > i
      <4>1. k - 1 \in 1..(n - 1) /\ from(k - 1) = k
        BY <3>2, <1>1
      <4> QED
        BY <4>1
    <3> QED
      BY <3>1, <3>2, <2>2, <1>1
  <2> QED
    BY <2>1, <2>2
<1> HIDE DEF n, r, from
<1>6. \A j, k \in 1..n : s[j] = s[k] => j = k
  BY <1>1 DEF Listed, IsInjective
<1>7. IsInjective(r)
  BY <1>4, <1>5, <1>6 DEF IsInjective
<1>8. Listed(r)
  BY <1>1, <1>4, <1>7, BoardAssumption DEF Listed
<1>9. Range(r) = Range(s) \ {s[i]}
  <2>1. Range(r) \subseteq Range(s) \ {s[i]}
    BY <1>1, <1>4, <1>5, <1>6 DEF Range
  <2>2. ASSUME NEW k \in 1..n, k # i PROVE s[k] \in Range(r)
    <3>1. PICK j \in 1..(n - 1) : from(j) = k
      BY <2>2, <1>5
    <3>2. r[j] = s[k] /\ j \in DOMAIN r
      BY <3>1, <1>4
    <3> QED
      BY <3>2 DEF Range
  <2>3. Range(s) \ {s[i]} \subseteq Range(r)
    BY <1>1, <2>2 DEF Range
  <2> QED
    BY <2>1, <2>3
<1>10. s[i] \in Range(s) /\ s[i] \in Posts
  BY <1>1 DEF Range
<1> QED
  BY <1>8, <1>9, <1>10 DEF r

\* Only posts are listed.
LEMMA ListsPosts == ASSUME NEW s, Listed(s) PROVE Range(s) \subseteq Posts
BY DEF Listed, Range

\* A bounded event is counted, and nothing else of the count changes.
LEMMA Mishaps ==
  ASSUME BoardTypeOK, NEW k \in {"crash", "unlink", "save", "write"}, Mishap(k)
  PROVE  /\ mishaps' \in [DOMAIN BoardLimits -> Nat]
         /\ mishaps'[k] = mishaps[k] + 1 /\ mishaps'[k] # 0
         /\ \A j \in {"crash", "unlink", "save", "write"} \ {k} : mishaps'[j] = mishaps[j]
<1>1. /\ mishaps \in [DOMAIN BoardLimits -> Nat]
      /\ DOMAIN BoardLimits = {"crash", "unlink", "save", "write"}
      /\ mishaps' = [mishaps EXCEPT ![k] = @ + 1]
  BY BoardAssumption DEF BoardTypeOK, Mishap
<1> QED
  BY <1>1

\* What every step may use of the types.
LEMMA Typed ==
  ASSUME BoardTypeOK
  PROVE  /\ Listed(items) /\ Listed(saved) /\ Listed(seen) /\ Listed(todo)
         /\ stage \in [Posts -> {"idle", "store", "add", "saving", "listed", "failed", "cut"}]
         /\ payload \in [Posts -> {"none", "part", "whole"}]
         /\ kind \in [Posts -> {"text", "file", "data"}]
         /\ mu \in Posts \cup {Owner, Nobody}
BY DEF BoardTypeOK, Listed, InFlight, Ended

-----------------------------------------------------------------------------

\* A post that is being stored is in no list.
LEMMA StoreStep ==
  ASSUME Inv, NEW p \in Posts, Begin(p) \/ FileStored(p) \/ FileNotStored(p)
  PROVE  Inv'
<1>1. /\ UNCHANGED <<items, saved, mu, todo, kind, seen, torn>>
      /\ stage[p] \in {"idle", "store"}
      /\ \E label \in {"add", "store", "failed"} : stage' = [stage EXCEPT ![p] = label]
      /\ \/ payload' = payload
         \/ \E bytes \in {"none", "part", "whole"} : payload' = [payload EXCEPT ![p] = bytes]
  BY DEF Begin, FileStored, FileNotStored, Advance, Put
<1>2. /\ BoardTypeOK /\ Listed(items) /\ Listed(saved) /\ Listed(seen) /\ Listed(todo)
      /\ stage \in [Posts -> {"idle", "store", "add", "saving", "listed", "failed", "cut"}]
      /\ payload \in [Posts -> {"none", "part", "whole"}]
  BY Typed DEF Inv
<1>3. mishaps' \in [DOMAIN BoardLimits -> Nat] /\ (mishaps'["unlink"] = 0 => mishaps["unlink"] = 0)
  BY <1>2, Mishaps DEF Begin, FileStored, FileNotStored, BoardTypeOK
<1>4. /\ stage' \in [Posts -> {"idle", "store", "add", "saving", "listed", "failed", "cut"}]
      /\ payload' \in [Posts -> {"none", "part", "whole"}]
      /\ \A q \in Posts \ {p} : stage'[q] = stage[q] /\ payload'[q] = payload[q]
      /\ stage'[p] \in {"add", "store", "failed"}
  BY <1>1, <1>2
<1>5. BoardTypeOK'
  <2>1. \A q \in Posts : stage'[q] = "saving" <=> mu' = q
    BY <1>1, <1>2, <1>4 DEF BoardTypeOK
  <2> QED
    BY <1>1, <1>3, <1>4, <2>1, <1>2 DEF BoardTypeOK, InFlight, Ended
<1>6. Pending' /\ Unlinking'
  BY <1>1 DEF Inv, Pending, Unlinking
<1>7. p \notin Range(items) \cup Range(saved) \cup Range(seen)
  BY <1>1 DEF Inv, Placed
<1>8. Placed'
  <2>1. ASSUME NEW list \in {items, saved, seen}, NEW q \in Range(list)
        PROVE  stage'[q] \in {"saving", "listed", "cut"}
    <3>1. q \in Posts /\ q # p
      BY <2>1, <1>2, <1>7, ListsPosts
    <3> QED
      BY <3>1, <2>1, <1>4 DEF Inv, Placed
  <2> QED
    BY <2>1, <1>1 DEF Placed
<1>9. StoredFirst'
  <2>1. stage'[p] = "add" /\ kind[p] # "text" => payload'[p] = "whole"
    BY <1>2 DEF Begin, FileStored, FileNotStored, Advance, Put
  <2> QED
    BY <1>1, <1>4, <2>1 DEF Inv, StoredFirst
<1>10. ListedHasPayload'
  <2>1. ASSUME NEW q \in Range(items) \ torn, kind[q] # "text" PROVE payload'[q] = "whole"
    BY <2>1, <1>2, <1>4, <1>7, ListsPosts DEF Inv, ListedHasPayload
  <2> QED
    BY <1>1, <2>1 DEF ListedHasPayload
<1>11. NothingLeaks'
  <2>1. ASSUME mishaps'["unlink"] = 0, payload'[p] # "none", p \notin torn
        PROVE  \/ stage'[p] \in {"store", "add"}
               \/ stage'[p] = "failed" /\ kind[p] = "data"
    <3>1. CASE Begin(p)
      <4>1. p \notin Range(items) \cup Range(todo)
        BY <1>7 DEF Inv, Unlinking
      <4>2. stage[p] = "idle" => payload[p] = "none"
        BY <1>3, <2>1, <4>1 DEF Inv, NothingLeaks
      <4>3. \/ stage'[p] \in {"add", "store"}
            \/ payload' = payload /\ stage[p] = "idle"
        BY <3>1, <1>2 DEF Begin, Advance
      <4> QED
        BY <2>1, <4>2, <4>3
    <3>2. CASE FileStored(p)
      <4>1. stage'[p] = "add"
        BY <3>2, <1>2 DEF FileStored, Advance
      <4> QED
        BY <4>1
    <3>3. CASE FileNotStored(p)
      BY <3>3, <2>1, <1>2, Mishaps DEF FileNotStored, Advance, Put
    <3> QED
      BY <3>1, <3>2, <3>3
  <2> QED
    BY <2>1, <1>1, <1>3, <1>4 DEF Inv, NothingLeaks
<1> QED
  BY <1>5, <1>6, <1>8, <1>9, <1>10, <1>11 DEF Inv

\* Taking st.mu for a change: what the new list and what fell off have to satisfy.
LEMMA ChangeStep ==
  ASSUME Inv, NEW who \in Posts \cup {Owner}, NEW list, NEW dropped,
         Change(who, list, dropped), UNCHANGED <<saved, payload, kind, mishaps, seen, torn>>,
         Listed(list), Listed(dropped),
         Range(dropped) \cap Range(list) = {}, Range(dropped) \subseteq Range(items),
         who = Owner => /\ stage' = stage
                        /\ list = <<>> \/ \E i \in DOMAIN items : list = RemoveAt(items, i)
                        /\ Range(list) \subseteq Range(items)
                        /\ Range(items) \subseteq Range(list) \cup Range(dropped),
         who \in Posts => /\ stage[who] = "add" /\ stage' = [stage EXCEPT ![who] = "saving"]
                          /\ list = Newest(Append(items, who))
                          /\ Range(list) \subseteq Range(items) \cup {who}
                          /\ Range(items) \cup {who} \subseteq Range(list) \cup Range(dropped)
  PROVE  Inv'
<1>1. /\ BoardTypeOK /\ Listed(items) /\ Listed(saved) /\ Listed(seen)
      /\ stage \in [Posts -> {"idle", "store", "add", "saving", "listed", "failed", "cut"}]
  BY Typed DEF Inv
<1>2. /\ mu = Nobody /\ mu' = who /\ items' = list /\ todo' = dropped
      /\ saved' = saved /\ payload' = payload /\ kind' = kind /\ mishaps' = mishaps
      /\ seen' = seen /\ torn' = torn
  BY DEF Change
<1>3. who # Nobody /\ (who = Owner \/ who \in Posts) /\ Owner \notin Posts
  BY BoardAssumption
<1>4. /\ stage' \in [Posts -> {"idle", "store", "add", "saving", "listed", "failed", "cut"}]
      /\ \A q \in Posts : stage'[q] = IF q = who THEN "saving" ELSE stage[q]
  BY <1>1, <1>3
<1>5. \A q \in Posts : stage[q] # "saving"
  BY <1>2, BoardAssumption DEF Inv, BoardTypeOK
<1>6. BoardTypeOK'
  BY <1>1, <1>2, <1>3, <1>4, <1>5 DEF BoardTypeOK, Listed, InFlight, Ended
<1>7. items = seen
  BY <1>2 DEF Inv, Pending
<1>8. Pending'
  BY <1>2, <1>3, <1>7 DEF Pending
<1>9. Unlinking'
  BY <1>2, <1>7 DEF Unlinking
<1>10. Placed'
  <2>1. ASSUME NEW l \in {items, saved, seen}, NEW q \in Range(l)
        PROVE  stage'[q] \in {"saving", "listed", "cut"}
    BY <2>1, <1>1, <1>4, ListsPosts DEF Inv, Placed
  <2>2. ASSUME NEW q \in Range(list) PROVE stage'[q] \in {"saving", "listed", "cut"}
    <3>1. q \in Range(items) \/ q = who
      BY <2>2, <1>3
    <3>2. CASE q = who
      BY <3>2, <2>2, <1>4, ListsPosts
    <3> QED
      BY <3>1, <3>2, <2>1
  <2> QED
    BY <2>1, <2>2, <1>2 DEF Placed
<1>11. StoredFirst'
  BY <1>2, <1>4 DEF Inv, StoredFirst
<1>12. ListedHasPayload'
  <2>1. ASSUME NEW q \in Range(list) \ torn, kind[q] # "text" PROVE payload[q] = "whole"
    <3>1. q \in Range(items) \/ (q = who /\ who \in Posts)
      BY <2>1, <1>3
    <3>2. CASE q \in Range(items)
      BY <3>2, <2>1 DEF Inv, ListedHasPayload
    <3>3. CASE q = who /\ who \in Posts
      BY <3>3, <2>1 DEF Inv, StoredFirst
    <3> QED
      BY <3>1, <3>2, <3>3
  <2> QED
    BY <2>1, <1>2 DEF ListedHasPayload
<1>13. NothingLeaks'
  <2> SUFFICES ASSUME mishaps["unlink"] = 0, NEW q \in Posts \ torn, payload[q] # "none",
                      q \notin Range(list) \cup Range(dropped)
               PROVE  \/ stage'[q] \in {"store", "add", "cut"}
                      \/ stage'[q] = "failed" /\ kind[q] = "data"
    BY <1>2 DEF NothingLeaks
  <2>1. q # who /\ q \notin Range(items)
    BY <1>3
  <2>2. q \notin Range(todo)
    <3>1. Range(todo) \subseteq Range(items)
      BY <1>7 DEF Inv, Unlinking
    <3> QED
      BY <2>1, <3>1
  <2> QED
    BY <2>1, <2>2, <1>4 DEF Inv, NothingLeaks
<1> QED
  BY <1>6, <1>8, <1>9, <1>10, <1>11, <1>12, <1>13 DEF Inv

\* addText, addFile: the new post is on the board, the oldest may fall off.
LEMMA AddStep == ASSUME Inv, NEW p \in Posts, AddItem(p) PROVE Inv'
<1> DEFINE s == Append(items, p)
<1>1. Listed(items) /\ Cap \in Nat \ {0} /\ p # Owner
  BY Typed, BoardAssumption DEF Inv
<1>2. p \notin Range(items) /\ stage[p] = "add"
  BY DEF Inv, Placed, AddItem
<1>3. s \in Seq(Posts) /\ Len(s) = Len(items) + 1 /\ IsInjective(s) /\ Range(s) = Range(items) \cup {p}
  BY <1>1, <1>2, Appends
<1>4. Len(s) <= Cap + 1 /\ Len(items) \in Nat
  BY <1>1, <1>3 DEF Listed
<1>5. /\ Listed(Newest(s)) /\ Listed(Evicted(s))
      /\ Range(Newest(s)) = Range(s) \ Range(Evicted(s))
      /\ \A x \in Range(Evicted(s)) : x = s[1] /\ 1 \in 1..(Len(s) - 1)
  BY <1>3, <1>4, Evicts
<1>6. Range(Evicted(s)) \subseteq Range(items)
  <2>1. 1 \in 1..Len(items) => s[1] \in Range(items)
    BY <1>1 DEF Listed, Range
  <2> QED
    BY <1>3, <1>4, <1>5, <2>1
<1> HIDE DEF s
<1>7. /\ Change(p, Newest(s), Evicted(s)) /\ stage' = [stage EXCEPT ![p] = "saving"]
      /\ UNCHANGED <<saved, payload, kind, mishaps, seen, torn>>
  BY DEF AddItem, Advance, s
<1> QED
  BY <1>1, <1>2, <1>3, <1>5, <1>6, <1>7, ChangeStep DEF s

\* remove: the item and its payload go.
LEMMA RemoveStep == ASSUME Inv, NEW i \in DOMAIN items, RemoveItem(i) PROVE Inv'
<1>1. Listed(items) /\ Owner \notin Posts /\ Cap \in Nat \ {0}
  BY Typed, BoardAssumption DEF Inv
<1>2. /\ Listed(RemoveAt(items, i)) /\ items[i] \in Posts /\ items[i] \in Range(items)
      /\ Range(RemoveAt(items, i)) = Range(items) \ {items[i]}
  BY <1>1, Removes
<1>3. Listed(<<items[i]>>) /\ Range(<<items[i]>>) = {items[i]}
  BY <1>1, <1>2 DEF Listed, IsInjective, Range
<1>4. /\ Change(Owner, RemoveAt(items, i), <<items[i]>>) /\ stage' = stage
      /\ UNCHANGED <<saved, payload, kind, mishaps, seen, torn>>
  BY DEF RemoveItem
<1> QED
  BY <1>1, <1>2, <1>3, <1>4, ChangeStep

\* clear: all of them.
LEMMA ClearStep == ASSUME Inv, ClearBoard PROVE Inv'
<1>1. Listed(items) /\ Owner \notin Posts /\ Cap \in Nat \ {0}
  BY Typed, BoardAssumption DEF Inv
<1>2. Listed(<<>>) /\ Range(<<>>) = {}
  BY <1>1 DEF Listed, IsInjective, Range
<1>3. /\ Change(Owner, <<>>, items) /\ stage' = stage
      /\ UNCHANGED <<saved, payload, kind, mishaps, seen, torn>>
  BY DEF ClearBoard
<1> QED
  BY <1>1, <1>2, <1>3, ChangeStep

\* os.Remove of one payload: of a post that is off the board already.
LEMMA UnlinkStep == ASSUME Inv, Unlink PROVE Inv'
<1> DEFINE h == Head(todo)
<1>1. /\ BoardTypeOK /\ Listed(items) /\ Listed(saved) /\ Listed(seen) /\ Listed(todo)
      /\ stage \in [Posts -> {"idle", "store", "add", "saving", "listed", "failed", "cut"}]
      /\ payload \in [Posts -> {"none", "part", "whole"}]
  BY Typed DEF Inv
<1>2. /\ todo # <<>> /\ todo' = Tail(todo)
      /\ UNCHANGED <<items, saved, mu, kind, stage, seen, torn>>
  BY DEF Unlink
<1>3. /\ Listed(Tail(todo)) /\ h \in Posts /\ h \in Range(todo)
      /\ Range(Tail(todo)) = Range(todo) \ {h}
  BY <1>1, <1>2, Tails, BoardAssumption DEF Listed
<1>4. /\ h \notin Range(items) /\ stage[h] \in {"saving", "listed", "cut"}
  BY <1>3 DEF Inv, Unlinking, Placed
<1> HIDE DEF h
<1>5. \/ payload' = [payload EXCEPT ![h] = "none"] /\ mishaps' = mishaps
      \/ payload' = payload /\ Mishap("unlink")
  BY DEF Unlink, Put, h
<1>6. /\ mishaps' \in [DOMAIN BoardLimits -> Nat]
      /\ mishaps'["unlink"] = 0 => mishaps["unlink"] = 0 /\ payload' = [payload EXCEPT ![h] = "none"]
  BY <1>1, <1>5, Mishaps DEF BoardTypeOK
<1>7. /\ payload' \in [Posts -> {"none", "part", "whole"}]
      /\ \A q \in Posts \ {h} : payload'[q] = payload[q]
  BY <1>1, <1>3, <1>5
<1>8. BoardTypeOK'
  BY <1>1, <1>2, <1>3, <1>6, <1>7 DEF BoardTypeOK, Listed
<1>9. Pending' /\ Unlinking' /\ Placed'
  BY <1>2, <1>3 DEF Inv, Pending, Unlinking, Placed
<1>10. StoredFirst'
  BY <1>2, <1>4, <1>7 DEF Inv, StoredFirst
<1>11. ListedHasPayload'
  BY <1>1, <1>2, <1>4, <1>7, ListsPosts DEF Inv, ListedHasPayload
<1>12. NothingLeaks'
  <2> SUFFICES ASSUME mishaps'["unlink"] = 0, NEW q \in Posts \ torn, payload'[q] # "none"
               PROVE  \/ q \in Range(items) \cup Range(Tail(todo))
                      \/ stage[q] \in {"store", "add", "cut"}
                      \/ stage[q] = "failed" /\ kind[q] = "data"
    BY <1>2 DEF NothingLeaks
  <2>1. q # h
    BY <1>1, <1>3, <1>6
  <2> QED
    BY <2>1, <1>3, <1>6, <1>7 DEF Inv, NothingLeaks
<1> QED
  BY <1>8, <1>9, <1>10, <1>11, <1>12 DEF Inv

\* saveLocked and the unlock: the readers see the new list.
LEMMA SaveStep == ASSUME Inv, SaveList PROVE Inv'
<1>1. /\ BoardTypeOK /\ Listed(items) /\ Listed(saved) /\ Listed(todo)
      /\ stage \in [Posts -> {"idle", "store", "add", "saving", "listed", "failed", "cut"}]
  BY Typed DEF Inv
<1>2. /\ mu # Nobody /\ todo = <<>> /\ mu' = Nobody /\ seen' = items
      /\ saved' \in {items, saved}
      /\ stage' = [p \in Posts |-> IF p = mu THEN "listed" ELSE stage[p]]
      /\ UNCHANGED <<items, payload, todo, kind, torn>>
      /\ mishaps' = mishaps \/ Mishap("save")
  BY DEF SaveList
<1>3. mishaps' \in [DOMAIN BoardLimits -> Nat] /\ mishaps'["unlink"] = mishaps["unlink"]
  BY <1>1, <1>2, Mishaps DEF BoardTypeOK
<1>4. /\ \A q \in Posts : stage[q] = "saving" <=> mu = q
      /\ \A q \in Posts : stage'[q] = IF stage[q] = "saving" THEN "listed" ELSE stage[q]
      /\ \A q \in Posts : stage'[q] # "saving" /\ Nobody # q
  BY <1>1, <1>2, BoardAssumption DEF BoardTypeOK
<1>5. BoardTypeOK'
  <2>1. stage' \in [Posts -> {"idle", "store", "add", "saving", "listed", "failed", "cut"}]
    BY <1>1, <1>2
  <2> QED
    BY <1>1, <1>2, <1>3, <1>4, <2>1 DEF BoardTypeOK, Listed, InFlight, Ended
<1>6. Pending' /\ Unlinking'
  <2>1. Range(<<>>) = {}
    BY DEF Range
  <2> QED
    BY <1>2, <2>1, BoardAssumption DEF Pending, Unlinking
<1>7. Placed'
  <2>1. ASSUME NEW l \in {items, saved}, NEW q \in Range(l)
        PROVE  stage'[q] \in {"saving", "listed", "cut"}
    BY <2>1, <1>1, <1>4, ListsPosts DEF Inv, Placed
  <2> QED
    BY <1>2, <2>1 DEF Placed
<1>8. StoredFirst' /\ ListedHasPayload'
  BY <1>2, <1>4 DEF Inv, StoredFirst, ListedHasPayload
<1>9. NothingLeaks'
  BY <1>2, <1>3, <1>4 DEF Inv, NothingLeaks
<1> QED
  BY <1>5, <1>6, <1>7, <1>8, <1>9 DEF Inv

\* A restart shows what was written, but for the posts it counts as torn.
LEMMA ReloadStep == ASSUME Inv, Reload PROVE Inv'
<1>1. /\ BoardTypeOK /\ Listed(items) /\ Listed(saved) /\ Listed(seen)
      /\ stage \in [Posts -> {"idle", "store", "add", "saving", "listed", "failed", "cut"}]
  BY Typed DEF Inv
<1>2. Newest(saved) = saved
  BY <1>1, BoardAssumption DEF Listed, Newest
<1>3. /\ items' = saved /\ seen' = saved /\ saved' = saved /\ mu' = Nobody /\ todo' = <<>>
      /\ stage' = [p \in Posts |-> IF stage[p] \in {"store", "add", "saving"} THEN "cut" ELSE stage[p]]
      /\ torn' = torn \cup {p \in Posts : Listing(p) \notin {{}, {items, saved, seen}}}
      /\ UNCHANGED <<payload, kind>>
      /\ Mishap("crash")
  BY <1>2 DEF Reload, InFlight
<1>4. mishaps' \in [DOMAIN BoardLimits -> Nat] /\ mishaps'["unlink"] = mishaps["unlink"]
  BY <1>1, <1>3, Mishaps DEF BoardTypeOK
<1>5. \A q \in Posts : stage'[q] = IF stage[q] \in {"store", "add", "saving"} THEN "cut" ELSE stage[q]
  BY <1>1, <1>3
<1>6. /\ Listed(<<>>) /\ Range(<<>>) = {}
  BY BoardAssumption DEF Listed, IsInjective, Range
<1>7. BoardTypeOK'
  <2>1. stage' \in [Posts -> {"idle", "store", "add", "saving", "listed", "failed", "cut"}]
    BY <1>1, <1>3
  <2>2. \A q \in Posts : stage'[q] # "saving" /\ Nobody # q
    BY <1>1, <1>5, BoardAssumption
  <2>3. torn' \subseteq Posts
    BY <1>1, <1>3 DEF BoardTypeOK
  <2> QED
    BY <1>1, <1>3, <1>4, <1>6, <2>1, <2>2, <2>3 DEF BoardTypeOK, Listed, InFlight, Ended
<1>8. Pending' /\ Unlinking'
  BY <1>3, <1>6, BoardAssumption DEF Pending, Unlinking
<1>9. Placed'
  <2>1. ASSUME NEW q \in Range(saved) PROVE stage'[q] \in {"saving", "listed", "cut"}
    BY <2>1, <1>1, <1>5, ListsPosts DEF Inv, Placed
  <2> QED
    BY <1>3, <2>1 DEF Placed
<1>10. StoredFirst'
  BY <1>1, <1>3, <1>5 DEF StoredFirst
\* A post that is not torn is in all three lists or in none.
<1>11. ASSUME NEW q \in Posts \ torn'
       PROVE  /\ q \notin torn
              /\ q \in Range(saved) <=> q \in Range(items)
              /\ q \in Range(seen) <=> q \in Range(items)
  <2>1. q \notin torn /\ Listing(q) \in {{}, {items, saved, seen}}
    BY <1>3
  <2>2. \A l \in {items, saved, seen} : l \in Listing(q) <=> q \in Range(l)
    BY DEF Listing
  <2> QED
    BY <2>1, <2>2
<1>12. ListedHasPayload'
  BY <1>1, <1>3, <1>11, ListsPosts DEF Inv, ListedHasPayload
<1>13. NothingLeaks'
  <2> SUFFICES ASSUME mishaps["unlink"] = 0, NEW q \in Posts \ torn', payload[q] # "none",
                      q \notin Range(saved)
               PROVE  \/ stage'[q] \in {"store", "add", "cut"}
                      \/ stage'[q] = "failed" /\ kind[q] = "data"
    BY <1>3, <1>4 DEF NothingLeaks
  <2>1. q \notin Range(items) /\ q \notin Range(todo)
    BY <1>11 DEF Inv, Unlinking
  <2>2. \/ stage[q] \in {"store", "add", "cut"}
        \/ stage[q] = "failed" /\ kind[q] = "data"
    BY <2>1, <1>11 DEF Inv, NothingLeaks
  <2> QED
    BY <2>2, <1>5
<1> QED
  BY <1>7, <1>8, <1>9, <1>10, <1>12, <1>13 DEF Inv

-----------------------------------------------------------------------------
\* The invariant, over the whole specification.
THEOREM Inductive == BoardSpec => []Inv
<1>1. BoardInit => Inv
  <2> SUFFICES ASSUME BoardInit PROVE Inv
    OBVIOUS
  <2>1. Listed(<<>>) /\ Range(<<>>) = {}
    BY BoardAssumption DEF Listed, IsInjective, Range
  <2>2. BoardTypeOK
    BY <2>1, BoardAssumption DEF BoardInit, BoardTypeOK, Listed, InFlight, Ended
  <2>3. Pending /\ Unlinking /\ Placed /\ StoredFirst /\ ListedHasPayload /\ NothingLeaks
    BY <2>1, BoardAssumption
       DEF BoardInit, Pending, Unlinking, Placed, StoredFirst, ListedHasPayload, NothingLeaks
  <2> QED
    BY <2>2, <2>3 DEF Inv
<1>2. Inv /\ UNCHANGED boardVars => Inv'
  BY DEF boardVars, Inv, BoardTypeOK, Pending, Unlinking, Placed, StoredFirst,
         ListedHasPayload, NothingLeaks
<1>3. Inv /\ [BoardNext]_boardVars => Inv'
  BY <1>2, StoreStep, AddStep, RemoveStep, ClearStep, UnlinkStep, SaveStep, ReloadStep
     DEF BoardNext
<1> QED
  BY <1>1, <1>3, PTL DEF BoardSpec

\* sync.go: every variable keeps its type, and no list exceeds the cap or repeats a post.
THEOREM BoardTypes == BoardSpec => []BoardTypeOK
<1>1. Inv => BoardTypeOK
  BY DEF Inv
<1> QED
  BY Inductive, <1>1, PTL

\* addFile and evictLocked: a file item on the board has its file.
THEOREM Downloadable == BoardSpec => []ListedHasPayload
<1>1. Inv => ListedHasPayload
  BY DEF Inv
<1> QED
  BY Inductive, <1>1, PTL

\* evictLocked, remove, clear: a payload that is not listed does not stay.
THEOREM NoLeaks == BoardSpec => []NothingLeaks
<1>1. Inv => NothingLeaks
  BY DEF Inv
<1> QED
  BY Inductive, <1>1, PTL

-----------------------------------------------------------------------------
\* A step the readers cannot see.
LEMMA Unseen ==
  ASSUME UNCHANGED <<seen, saved>>, mishaps'["save"] = mishaps["save"],
         \A p \in Posts : stage'[p] = "listed" <=> stage[p] = "listed"
  PROVE  UNCHANGED Readers!vars
<1>1. {p \in Posts : stage'[p] = "listed"} = {p \in Posts : stage[p] = "listed"}
  OBVIOUS
<1> QED
  BY <1>1 DEF Readers!vars

\* Every step of the board is one of Board's, or changes nothing its readers see.
LEMMA ReadersStep == Inv /\ [BoardNext]_boardVars => [Readers!Next]_Readers!vars
<1> SUFFICES ASSUME Inv, [BoardNext]_boardVars PROVE Readers!Next \/ UNCHANGED Readers!vars
  OBVIOUS
<1>1. /\ BoardTypeOK /\ Listed(saved)
      /\ stage \in [Posts -> {"idle", "store", "add", "saving", "listed", "failed", "cut"}]
      /\ mu \in Posts \cup {Owner, Nobody}
  BY Typed DEF Inv
<1>2. ASSUME NEW p \in Posts, Begin(p) \/ FileStored(p) \/ FileNotStored(p)
      PROVE  UNCHANGED Readers!vars
  <2>1. mishaps'["save"] = mishaps["save"]
    BY <1>1, <1>2, Mishaps DEF Begin, FileStored, FileNotStored
  <2>2. \A q \in Posts : stage'[q] = "listed" <=> stage[q] = "listed"
    BY <1>1, <1>2 DEF Begin, FileStored, FileNotStored, Advance
  <2>3. UNCHANGED <<seen, saved>>
    BY <1>2 DEF Begin, FileStored, FileNotStored
  <2> QED
    BY <2>1, <2>2, <2>3, Unseen
<1>3. ASSUME NEW p \in Posts, AddItem(p) PROVE UNCHANGED Readers!vars
  <2>1. \A q \in Posts : stage'[q] = "listed" <=> stage[q] = "listed"
    BY <1>1, <1>3 DEF AddItem, Advance
  <2> QED
    BY <1>3, <2>1, Unseen DEF AddItem
<1>4. ASSUME \/ \E i \in DOMAIN items : RemoveItem(i)
             \/ ClearBoard
      PROVE  UNCHANGED Readers!vars
  BY <1>4, Unseen DEF RemoveItem, ClearBoard
<1>5. CASE Unlink
  BY <1>1, <1>5, Unseen, Mishaps DEF Unlink
\* The change its holder made becomes visible as a whole.
<1>6. CASE SaveList
  <2> DEFINE listed == {p \in Posts : stage[p] = "listed"}
  <2>1. Readers!Show(items)
    BY <1>1, <1>6, Mishaps DEF SaveList, Readers!Show
  <2>2. CASE mu \in Posts
    <3> PICK p \in Posts : p = mu
      BY <2>2
    <3>1. listed' = listed \cup {p} /\ p \notin listed
      BY <1>1, <1>6, <2>2 DEF SaveList, BoardTypeOK
    <3>2. items = Readers!Newest(Append(seen, p))
      BY <2>2 DEF Inv, Pending, Newest, Readers!Newest
    <3>3. Readers!Put(p)
      BY <2>1, <3>1, <3>2 DEF Readers!Put
    <3> QED
      BY <3>3 DEF Readers!Next
  <2>3. CASE mu = Owner
    <3>1. UNCHANGED listed
      BY <1>1, <1>6, <2>3, BoardAssumption DEF SaveList
    <3>2. CASE items = <<>>
      BY <2>1, <3>1, <3>2 DEF Readers!Clear, Readers!Next
    <3>3. CASE \E i \in DOMAIN seen : items = RemoveAt(seen, i)
      <4>1. PICK i \in DOMAIN seen : items = RemoveAt(seen, i)
        BY <3>3
      <4>2. Readers!Drop(i)
        BY <2>1, <3>1, <4>1 DEF Readers!Drop, RemoveAt, Readers!RemoveAt
      <4>3. \E j \in DOMAIN seen : Readers!Drop(j)
        BY <4>2, Zenon
      <4> QED
        BY <4>3, Zenon DEF Readers!Next
    <3> QED
      BY <2>3, <3>2, <3>3 DEF Inv, Pending
  <2> QED
    BY <1>1, <1>6, <2>2, <2>3 DEF SaveList
<1>7. CASE Reload
  <2>1. Newest(saved) = saved
    BY <1>1, BoardAssumption DEF Listed, Newest
  <2>2. {p \in Posts : stage'[p] = "listed"} = {p \in Posts : stage[p] = "listed"}
    BY <1>1, <1>7 DEF Reload, InFlight
  <2>3. mishaps'["save"] = mishaps["save"]
    BY <1>1, <1>7, Mishaps DEF Reload
  <2> QED
    BY <1>7, <2>1, <2>2, <2>3 DEF Reload, Readers!Restart, Readers!Next
<1>8. CASE UNCHANGED boardVars
  BY <1>8 DEF boardVars, Readers!vars
<1> QED
  BY <1>2, <1>3, <1>4, <1>5, <1>6, <1>7, <1>8 DEF BoardNext

\* sync.go:1-5: what readers and a restart see changes as module Board says.
THEOREM BoardImplemented == BoardSpec => ShownSpec
<1>1. BoardInit => Readers!Init
  BY BoardAssumption DEF BoardInit, Readers!Init
<1> QED
  BY Inductive, <1>1, ReadersStep, PTL DEF BoardSpec, ShownSpec, Readers!Spec
=============================================================================

-------------------------- MODULE InstrumentProofs --------------------------
(***************************************************************************)
(* Proofs about InstrumentStore and InstrumentClient for any instruments,  *)
(* any failures and a client with any firmware.                            *)
(***************************************************************************)
EXTENDS InstrumentClient, SequenceTheorems, FiniteSetTheorems, TLAPS

-----------------------------------------------------------------------------
(* Lists of instruments                                                    *)

\* No two entries have a name in common.
UniqueNames(l) == \A i, j \in DOMAIN l : l[i].name = l[j].name => i = j

\* One entry leaves a sequence, the others stay in order.
LEMMA Removal ==
  ASSUME NEW S, NEW s \in Seq(S), NEW i \in 1 .. Len(s)
  PROVE  /\ RemoveAt(s, i) \in Seq(S) /\ Len(RemoveAt(s, i)) = Len(s) - 1
         /\ \A j \in 1 .. Len(s) - 1 : RemoveAt(s, i)[j] = IF j < i THEN s[j] ELSE s[j + 1]
<1>1. PICK n \in Nat : n = Len(s)
  OBVIOUS
<1>2. i \in Nat /\ 1 <= i /\ i <= n
  BY <1>1
<1>3. \A j \in 1 .. n : s[j] \in S
  BY <1>1, ElementOfSeq
<1> DEFINE p == SubSeq(s, 1, i - 1)
           q == SubSeq(s, i + 1, n)
<1>4. p \in Seq(S) /\ Len(p) = i - 1 /\ \A j \in 1 .. i - 1 : p[j] = s[j]
  <2>1. \A j \in 1 .. i - 1 : s[j] \in S
    BY <1>2, <1>3
  <2>2. /\ p \in Seq(S) /\ Len(p) = IF 1 <= i - 1 THEN (i - 1) - 1 + 1 ELSE 0
        /\ \A j \in 1 .. (i - 1) - 1 + 1 : p[j] = s[1 + j - 1]
    BY <1>2, <2>1, SubSeqProperties
  <2> QED
    BY <1>2, <2>2
<1>5. q \in Seq(S) /\ Len(q) = n - i /\ \A j \in 1 .. n - i : q[j] = s[i + j]
  <2>1. \A j \in i + 1 .. n : s[j] \in S
    BY <1>2, <1>3
  <2>2. /\ q \in Seq(S) /\ Len(q) = IF i + 1 <= n THEN n - (i + 1) + 1 ELSE 0
        /\ \A j \in 1 .. n - (i + 1) + 1 : q[j] = s[i + 1 + j - 1]
    BY <1>2, <2>1, SubSeqProperties
  <2> QED
    BY <1>2, <2>2
<1>6. RemoveAt(s, i) = p \o q
  BY <1>1 DEF RemoveAt
<1> HIDE DEF p, q
<1>7. /\ p \o q \in Seq(S) /\ Len(p \o q) = Len(p) + Len(q)
      /\ \A j \in 1 .. Len(p) + Len(q) : (p \o q)[j] = IF j <= Len(p) THEN p[j] ELSE q[j - Len(p)]
  BY <1>4, <1>5, ConcatProperties
<1>8. Len(p) + Len(q) = n - 1
  BY <1>2, <1>4, <1>5
<1>9. ASSUME NEW j \in 1 .. n - 1
      PROVE  (p \o q)[j] = IF j < i THEN s[j] ELSE s[j + 1]
  <2>1. (p \o q)[j] = IF j <= i - 1 THEN p[j] ELSE q[j - (i - 1)]
    BY <1>4, <1>7, <1>8
  <2>2. CASE j < i
    <3>1. j <= i - 1 /\ j \in 1 .. i - 1
      BY <1>2, <2>2
    <3> QED
      BY <1>4, <2>1, <2>2, <3>1
  <2>3. CASE ~(j < i)
    <3>1. ~(j <= i - 1) /\ j - (i - 1) \in 1 .. n - i /\ i + (j - (i - 1)) = j + 1
      BY <1>2, <2>3
    <3> QED
      BY <1>5, <2>1, <2>3, <3>1
  <2> QED
    BY <2>2, <2>3
<1> QED
  BY <1>1, <1>6, <1>7, <1>8, <1>9

\* Without the entry of a name, the list holds the others, once each.
LEMMA ListWithout ==
  ASSUME instruments_list \in Seq(Instrument), UniqueNames(instruments_list), NEW n
  PROVE  /\ Without(n) \in Seq(Instrument) /\ UniqueNames(Without(n))
         /\ Range(Without(n)) = {e \in Range(instruments_list) : e.name # n}
<1> DEFINE l == instruments_list
           named == {i \in DOMAIN l : l[i].name = n}
<1>1. PICK m \in Nat : m = Len(l)
  OBVIOUS
<1>2. DOMAIN l = 1 .. m
  BY <1>1
<1>3. CASE named = {}
  <2>1. Without(n) = l
    BY <1>3 DEF Without
  <2>2. \A e \in Range(l) : e.name # n
    BY <1>3 DEF Range
  <2> QED
    BY <2>1, <2>2
<1>4. CASE named # {}
  <2>1. PICK i \in 1 .. m : l[i].name = n
    BY <1>2, <1>4
  <2>2. named = {i}
    BY <1>2, <2>1 DEF UniqueNames
  <2>3. Min(named) = i
    <3>1. i \in {i} /\ \A j \in {i} : i <= j
      OBVIOUS
    <3>2. \A k : k \in {i} /\ (\A j \in {i} : k <= j) <=> k = i
      BY <3>1
    <3> QED
      BY <2>2, <3>2 DEF Min
  <2>4. Without(n) = RemoveAt(l, i)
    BY <1>4, <2>3 DEF Without
  <2>5. PICK r : r = RemoveAt(l, i)
    OBVIOUS
  <2>6. /\ r \in Seq(Instrument) /\ Len(r) = m - 1
        /\ \A j \in 1 .. m - 1 : r[j] = IF j < i THEN l[j] ELSE l[j + 1]
    BY <1>1, <2>1, <2>5, Removal
  <2>7. DOMAIN r = 1 .. m - 1
    BY <2>6
  <2>8. \A j \in 1 .. m - 1 : \E k \in 1 .. m : k # i /\ r[j] = l[k] /\ k = IF j < i THEN j ELSE j + 1
    <3> SUFFICES ASSUME NEW j \in 1 .. m - 1
                 PROVE  \E k \in 1 .. m : k # i /\ r[j] = l[k] /\ k = IF j < i THEN j ELSE j + 1
      OBVIOUS
    <3>1. CASE j < i
      <4>1. j \in 1 .. m /\ j # i /\ r[j] = l[j]
        BY <1>1, <2>6, <3>1
      <4> QED
        BY <3>1, <4>1
    <3>2. CASE ~(j < i)
      <4>1. j + 1 \in 1 .. m /\ j + 1 # i /\ r[j] = l[j + 1]
        BY <1>1, <2>6, <3>2
      <4> QED
        BY <3>2, <4>1
    <3> QED
      BY <3>1, <3>2
  <2>9. \A k \in 1 .. m : k # i => \E j \in 1 .. m - 1 : r[j] = l[k]
    <3> SUFFICES ASSUME NEW k \in 1 .. m, k # i PROVE \E j \in 1 .. m - 1 : r[j] = l[k]
      OBVIOUS
    <3>1. CASE k < i
      <4>1. k \in 1 .. m - 1 /\ r[k] = l[k]
        BY <1>1, <2>6, <3>1
      <4> QED
        BY <4>1
    <3>2. CASE ~(k < i)
      <4>1. k - 1 \in 1 .. m - 1 /\ ~(k - 1 < i) /\ (k - 1) + 1 = k
        BY <1>1, <3>2
      <4>2. r[k - 1] = l[k]
        BY <2>6, <4>1
      <4> QED
        BY <4>1, <4>2
    <3> QED
      BY <3>1, <3>2
  <2>10. UniqueNames(r)
    <3> SUFFICES ASSUME NEW a \in 1 .. m - 1, NEW b \in 1 .. m - 1, r[a].name = r[b].name
                 PROVE  a = b
      BY <2>7 DEF UniqueNames
    <3>1. PICK j \in 1 .. m : r[a] = l[j] /\ j = IF a < i THEN a ELSE a + 1
      BY <2>8
    <3>2. PICK k \in 1 .. m : r[b] = l[k] /\ k = IF b < i THEN b ELSE b + 1
      BY <2>8
    <3>3. j = k
      BY <1>2, <3>1, <3>2 DEF UniqueNames
    <3> QED
      BY <3>1, <3>2, <3>3
  <2>11. Range(r) = {e \in Range(l) : e.name # n}
    <3>1. ASSUME NEW e \in Range(r) PROVE e \in Range(l) /\ e.name # n
      <4>1. PICK j \in 1 .. m - 1 : e = r[j]
        BY <2>7 DEF Range
      <4>2. PICK k \in 1 .. m : k # i /\ e = l[k]
        BY <2>8, <4>1
      <4>3. l[k].name # n
        BY <1>2, <2>1, <4>2 DEF UniqueNames
      <4> QED
        BY <1>2, <4>2, <4>3 DEF Range
    <3>2. ASSUME NEW e \in Range(l), e.name # n PROVE e \in Range(r)
      <4>1. PICK k \in 1 .. m : e = l[k]
        BY <1>2 DEF Range
      <4>2. k # i
        BY <2>1, <3>2, <4>1
      <4>3. PICK j \in 1 .. m - 1 : r[j] = e
        BY <2>9, <4>1, <4>2
      <4> QED
        BY <2>7, <4>3 DEF Range
    <3> QED
      BY <3>1, <3>2
  <2> QED
    BY <2>4, <2>5, <2>6, <2>10, <2>11
<1> QED
  BY <1>3, <1>4

\* A new name is listed last.
LEMMA ListAppend ==
  ASSUME NEW l \in Seq(Instrument), UniqueNames(l), NEW e \in Instrument,
         \A d \in Range(l) : d.name # e.name
  PROVE  /\ Append(l, e) \in Seq(Instrument) /\ UniqueNames(Append(l, e))
         /\ Range(Append(l, e)) = Range(l) \cup {e}
<1> HIDE DEF Instrument
<1>1. PICK m \in Nat : m = Len(l)
  OBVIOUS
<1>2. PICK a : a = Append(l, e)
  OBVIOUS
<1>3. /\ a \in Seq(Instrument) /\ DOMAIN a = 1 .. m + 1 /\ DOMAIN l = 1 .. m
      /\ a[m + 1] = e /\ \A i \in 1 .. m : a[i] = l[i]
  BY <1>1, <1>2
<1>4. \A i \in 1 .. m + 1 : i = m + 1 \/ i \in 1 .. m
  BY <1>1
<1>5. m + 1 \in 1 .. m + 1 /\ \A i \in 1 .. m : i \in 1 .. m + 1
  BY <1>1
<1>6. UniqueNames(a)
  <2> SUFFICES ASSUME NEW i \in 1 .. m + 1, NEW j \in 1 .. m + 1, a[i].name = a[j].name
               PROVE  i = j
    BY <1>3 DEF UniqueNames
  <2>1. \A k \in 1 .. m : l[k].name # e.name
    BY <1>3 DEF Range
  <2> QED
    BY <1>3, <1>4, <2>1 DEF UniqueNames
<1>7. Range(a) = Range(l) \cup {e}
  BY <1>3, <1>4, <1>5 DEF Range
<1> QED
  BY <1>2, <1>3, <1>6, <1>7

\* A finite set can be listed.
LEMMA SetListed ==
  ASSUME NEW S, IsFiniteSet(S)
  PROVE  /\ SetToSeq(S) \in Seq(S) /\ IsInjective(SetToSeq(S)) /\ Range(SetToSeq(S)) = S
<1>1. PICK n \in Nat : ExistsBijection(1 .. n, S)
  BY FS_NatBijection
<1>2. Cardinality(S) = n
  BY <1>1, FS_CountingElements
<1>3. PICK f \in Bijection(1 .. n, S) : TRUE
  BY <1>1 DEF ExistsBijection
<1>4. f \in [1 .. n -> S] /\ IsInjective(f)
  BY <1>3 DEF Bijection, Injection, IsInjective
<1>5. PICK g : g = SetToSeq(S)
  OBVIOUS
<1>6. g \in [1 .. n -> S] /\ IsInjective(g)
  BY <1>2, <1>4, <1>5 DEF SetToSeq
<1>7. g \in Seq(S)
  BY <1>6
<1>8. Range(g) = S
  <2>1. g \in Injection(1 .. n, S)
    BY <1>6 DEF Injection, IsInjective
  <2>2. g \in Surjection(1 .. n, S)
    <3>1. IsFiniteSet(1 .. n) /\ Cardinality(1 .. n) = n
      BY FS_Interval
    <3> QED
      BY <1>2, <2>1, <3>1, FS_Injection
  <2> QED
    BY <1>6, <2>2 DEF Surjection, Range
<1> QED
  BY <1>5, <1>6, <1>7, <1>8

-----------------------------------------------------------------------------
(* The inductive invariant of the store                                    *)

\* The entries of name n.
Listed(n) == {e \in Range(instruments_list) : e.name = n}

\* The list tells of instrument n what its file does.
Matches(n) ==
  /\ zips[n] # None /\ n \notin unsaved => Listed(n) = {Entry(n, n = Default)}
  /\ zips[n] = None => Listed(n) = {} \/ n = Default

\* An install, an upload or a deletion is under way.
Working == {"clear", "stop", "unzip", "unzipping", "start", "installed"}
Changing == {"save", "uploaded", "deleted"}

\* Only the instrument that is uploaded or deleted may be listed as it is not.
FilesInv ==
  /\ UniqueNames(instruments_list)
  /\ \A n \in unsaved : zips[n] = Broken
  /\ \A e \in Range(instruments_list) : e.is_default = (e.name = Default)
  /\ at = "down" => instruments_list = <<>> /\ live_instrument = None
  /\ at \in Working \cup {"idle"} => \A n \in Names : Matches(n)
  /\ at \in Changing => /\ \A n \in Names \ {target.name} : Matches(n)
                        /\ target.is_default = (target.name = Default)
  /\ at \in Changing => target.name \notin unsaved
  /\ at = "save" => zips[target.name] = Broken
  /\ at \in {"save", "uploaded"} => zips[target.name] # None
  /\ at = "deleted" => zips[target.name] = None
  /\ at \in Working => /\ zips[target.name] # None
                       /\ target = Entry(target.name, target.is_default)

\* What there is of e in the live directory, and what was started from there.
Served(e) == live_dir \in Copies(e) /\ server \in {None, live_dir, Unfinished(e.name)}

\* What an install has done so far, and what the network may have started meanwhile.
LiveInv ==
  /\ at \in {"stop", "unzip"} => live_dir = None
  /\ at = "unzip" => server = None
  /\ at = "unzipping" => live_dir = Unfinished(target.name)
  /\ at \in {"unzipping", "start", "installed"} => Served(target)
  /\ at \in Changing \cup {"idle"} /\ live_instrument # None => Served(live_instrument)

StoreInv == TypeOK /\ FilesInv /\ LiveInv

-----------------------------------------------------------------------------
(* Every step of the store keeps it                                        *)

\* The records that the application and the boot make.
LEMMA Records ==
  ASSUME StoreAssumption, zips \in [Names -> Versions \cup {Broken, None}], NEW n \in Names
  PROVE  /\ \A b \in BOOLEAN : /\ Entry(n, b) \in Instrument /\ Entry(n, b).name = n
                               /\ Entry(n, b).is_default = b
         /\ zips[n] # None => Unzipped(n) \in Directory /\ Unzipped(n).content = zips[n]
         /\ Unzipped(n).name = n
         /\ Unfinished(n) \in Directory /\ Unfinished(n).name = n
         /\ Unfinished(n).content = Broken
         /\ None \notin Instrument \cup Directory
BY DEF StoreAssumption, Entry, Unzipped, Unfinished, Instrument, Directory

\* The initial states satisfy the invariant.
LEMMA StoreInit ==
  ASSUME StoreAssumption, Init
  PROVE  StoreInv
<1>1. Default \in Names /\ zips \in [Names -> Versions \cup {Broken, None}]
  BY DEF StoreAssumption, Init
<1>2. live_dir \in Directory \cup {None} /\ server \in Directory \cup {None}
  BY <1>1, Records DEF Init, Booted
<1>3. TypeOK
  BY <1>1, <1>2 DEF Init, TypeOK
<1>4. UniqueNames(<<>>) /\ Range(<<>>) = {}
  BY DEF UniqueNames, Range
<1>5. FilesInv
  BY <1>4 DEF Init, FilesInv, Working, Changing
<1>6. LiveInv
  BY DEF Init, LiveInv, Changing, Working
<1> QED
  BY <1>3, <1>5, <1>6 DEF StoreInv

\* The application is down: what it kept in memory is gone.
LEMMA StepForget ==
  ASSUME StoreAssumption, StoreInv, Forget,
         live_dir' \in Directory \cup {None}, server' \in Directory \cup {None}
  PROVE  StoreInv'
<1>1. TypeOK'
  BY DEF StoreInv, TypeOK, Forget
<1>2. UniqueNames(<<>>) /\ Range(<<>>) = {}
  BY DEF UniqueNames, Range
<1>3. FilesInv'
  BY <1>2 DEF FilesInv, Forget, Working, Changing
<1>4. LiveInv'
  BY DEF LiveInv, Forget, Changing
<1> QED
  BY <1>1, <1>3, <1>4 DEF StoreInv

LEMMA StepKill ==
  ASSUME StoreAssumption, StoreInv, Kill
  PROVE  StoreInv'
BY StepForget DEF Kill, StoreInv, TypeOK

LEMMA StepPowerLoss ==
  ASSUME StoreAssumption, StoreInv, PowerLoss
  PROVE  StoreInv'
<1>1. Default \in Names /\ zips \in [Names -> Versions \cup {Broken, None}]
  BY DEF StoreAssumption, StoreInv, TypeOK
<1>2. /\ zips[Default] # None => Unzipped(Default) \in Directory
      /\ Unfinished(Default) \in Directory
  BY <1>1, Records
<1>3. live_dir' \in Directory \cup {None} /\ server' \in Directory \cup {None}
  BY <1>2 DEF PowerLoss, Booted
<1> QED
  BY <1>3, StepForget DEF PowerLoss

\* Nothing changes.
LEMMA StoreStays ==
  ASSUME StoreInv, UNCHANGED vars
  PROVE  StoreInv'
<1>1. TypeOK'
  BY DEF StoreInv, vars, TypeOK
<1>2. FilesInv'
  BY DEF StoreInv, vars, FilesInv, Matches, Listed, Entry
<1>3. LiveInv'
  BY DEF StoreInv, vars, LiveInv, Served, Copies, Unfinished
<1> QED
  BY <1>1, <1>2, <1>3 DEF StoreInv

\* Nothing that concerns the files changes.
LEMMA FilesKept ==
  ASSUME FilesInv, UNCHANGED <<zips, instruments_list, unsaved>>,
         /\ at \in Working \cup {"idle"} /\ at' \in Working \cup {"idle"}
         /\ at' \in Working => /\ zips[target'.name] # None
                               /\ target' = Entry(target'.name, target'.is_default)
  PROVE  FilesInv'
<1>1. \A n \in Names : Matches(n)
  BY DEF FilesInv
<1>2. \A n \in Names : Matches(n)'
  BY <1>1 DEF Matches, Listed, Entry
<1>3. target' = Entry(target'.name, target'.is_default) => 
        (target = Entry(target.name, target.is_default))'
  BY DEF Entry
<1>4. at' \notin Changing /\ at' # "down" /\ at' \notin {"save", "uploaded"} /\ at' # "deleted"
  BY DEF Working, Changing
<1> QED
  BY <1>2, <1>3, <1>4 DEF FilesInv

\* The list of init_instruments is that of the files.
LEMMA StepStart ==
  ASSUME StoreAssumption, StoreInv, Start
  PROVE  StoreInv'
<1> DEFINE files == {m \in Names : zips[m] # None}
           entries == {Entry(n, n = Default) : n \in files}
<1>1. zips \in [Names -> Versions \cup {Broken, None}] /\ Default \in Names /\ at = "down"
  BY DEF StoreAssumption, StoreInv, TypeOK, Start
<1>0. \A n \in Names : /\ Entry(n, n = Default) \in Instrument
                        /\ Entry(n, n = Default).name = n
                        /\ Entry(n, n = Default).is_default = (n = Default)
  <2> SUFFICES ASSUME NEW n \in Names
               PROVE  /\ Entry(n, n = Default) \in Instrument
                      /\ Entry(n, n = Default).name = n
                      /\ Entry(n, n = Default).is_default = (n = Default)
    OBVIOUS
  <2>1. (n = Default) \in BOOLEAN
    OBVIOUS
  <2> QED
    BY <1>1, <2>1, Records
<1>2. IsFiniteSet(entries)
  <2>1. IsFiniteSet(files)
    BY FS_Subset DEF StoreAssumption
  <2> DEFINE f == [n \in files |-> Entry(n, n = Default)]
  <2>2. f \in Surjection(files, entries)
    BY DEF Surjection
  <2> QED
    BY <2>1, <2>2, FS_Surjection
<1>3. entries \subseteq Instrument
  BY <1>0
<1>4. PICK l : l = SetToSeq(entries)
  OBVIOUS
<1>5. l \in Seq(entries) /\ IsInjective(l) /\ Range(l) = entries
  BY <1>2, <1>4, SetListed
<1>6. l \in Seq(Instrument)
  BY <1>3, <1>5
<1>7. instruments_list' = l /\ UNCHANGED <<zips, live_dir, server, live_instrument, unsaved>>
  BY <1>4 DEF Start
<1>8. \/ zips[Default] # None /\ at' = "clear" /\ target' = Entry(Default, TRUE)
      \/ at' = "idle" /\ target' = None
  <2>1. target = None
    BY <1>1 DEF StoreInv, TypeOK
  <2> QED
    BY <2>1 DEF Start
<1>9. Entry(Default, TRUE) \in Instrument /\ Entry(Default, TRUE).name = Default
      /\ Entry(Default, TRUE).is_default = TRUE /\ Entry(Default, TRUE) # None
  BY <1>1, Records
<1>10. TypeOK'
  BY <1>6, <1>7, <1>8, <1>9 DEF StoreInv, TypeOK
<1>11. UniqueNames(l)
  <2> SUFFICES ASSUME NEW i \in DOMAIN l, NEW j \in DOMAIN l, l[i].name = l[j].name
               PROVE  i = j
    BY DEF UniqueNames
  <2>1. l[i] \in entries /\ l[j] \in entries
    BY <1>5 DEF Range
  <2>2. l[i] = l[j]
    BY <1>0, <2>1
  <2> QED
    BY <1>5, <2>2 DEF IsInjective
<1>12. \A e \in Range(l) : e.is_default = (e.name = Default)
  BY <1>0, <1>5
<1>13. \A n \in Names : Matches(n)'
  <2> SUFFICES ASSUME NEW n \in Names PROVE Matches(n)'
    OBVIOUS
  <2>1. Listed(n)' = {e \in entries : e.name = n}
    BY <1>5, <1>7 DEF Listed
  <2>2. \A e \in entries : \E m \in files : e = Entry(m, m = Default) /\ e.name = m
    BY <1>0
  <2>3. CASE zips[n] # None
    <3>1. Entry(n, n = Default) \in entries /\ Entry(n, n = Default).name = n
      BY <1>0, <2>3
    <3>2. Listed(n)' = {Entry(n, n = Default)}
      BY <2>1, <2>2, <3>1
    <3> QED
      BY <1>7, <2>3, <3>2 DEF Matches, Entry
  <2>4. CASE zips[n] = None
    <3>1. Listed(n)' = {}
      BY <2>1, <2>2, <2>4
    <3> QED
      BY <1>7, <2>4, <3>1 DEF Matches
  <2> QED
    BY <2>3, <2>4
<1>14. FilesInv'
  <2>1. at' \in Working =>
          (zips[target.name] # None /\ target = Entry(target.name, target.is_default))'
    BY <1>7, <1>8, <1>9 DEF Entry, Working
  <2>2. \A n \in unsaved' : zips'[n] = Broken
    BY <1>7 DEF StoreInv, FilesInv
  <2> QED
    BY <1>7, <1>8, <1>11, <1>12, <1>13, <2>1, <2>2 DEF FilesInv, Working, Changing
<1>15. LiveInv'
  <2>1. live_instrument' = None
    BY <1>1, <1>7 DEF StoreInv, FilesInv
  <2> QED
    BY <1>8, <2>1 DEF LiveInv, Changing
<1> QED
  BY <1>10, <1>14, <1>15 DEF StoreInv

LEMMA StepRun ==
  ASSUME StoreAssumption, StoreInv, NEW n \in Names, Run(n)
  PROVE  StoreInv'
<1>1. zips \in [Names -> Versions \cup {Broken, None}] /\ at = "idle" /\ target = None
  BY DEF StoreInv, TypeOK, Run
<1>2. CASE zips[n] = None
  <2>1. UNCHANGED vars
    BY <1>2 DEF Run, vars
  <2> QED
    BY <2>1, StoreStays
<1>3. CASE zips[n] # None
  <2>1. /\ at' = "clear" /\ target' = Entry(n, FALSE)
        /\ UNCHANGED <<zips, live_dir, server, instruments_list, live_instrument, unsaved>>
    BY <1>3 DEF Run
  <2>2. /\ Entry(n, FALSE) \in Instrument /\ Entry(n, FALSE).name = n /\ None \notin Instrument
        /\ Entry(n, FALSE).is_default = FALSE
    BY <1>1, Records
  <2>3. TypeOK'
    BY <2>1, <2>2 DEF StoreInv, TypeOK
  <2>4. FilesInv'
    BY <1>1, <1>3, <2>1, <2>2, FilesKept DEF StoreInv, Working
  <2>5. LiveInv'
    BY <2>1 DEF LiveInv, Changing
  <2> QED
    BY <2>3, <2>4, <2>5 DEF StoreInv
<1> QED
  BY <1>2, <1>3

-----------------------------------------------------------------------------
(* The script                                                              *)

\* A step of the script changes neither the files nor the list, nor what it installs.
LEMMA Scripted ==
  ASSUME StoreAssumption, StoreInv, at \in Working, at' \in Working,
         UNCHANGED <<zips, target, instruments_list, live_instrument, unsaved>>,
         live_dir' \in Directory \cup {None}, server' \in Directory \cup {None}
  PROVE  TypeOK' /\ FilesInv'
<1>1. at \notin {"down", "idle"} /\ at' \notin {"down", "idle"}
  BY DEF Working
<1>2. TypeOK'
  BY <1>1 DEF StoreInv, TypeOK, Working
<1>3. zips[target.name] # None /\ target = Entry(target.name, target.is_default)
  BY DEF StoreInv, FilesInv
<1>4. FilesInv'
  BY <1>3, FilesKept DEF StoreInv
<1> QED
  BY <1>2, <1>4

LEMMA StepClear ==
  ASSUME StoreAssumption, StoreInv, Clear
  PROVE  StoreInv'
<1>1. TypeOK' /\ FilesInv'
  BY Scripted DEF Clear, Working, StoreInv, TypeOK
<1>2. LiveInv'
  BY DEF Clear, LiveInv, Changing
<1> QED
  BY <1>1, <1>2 DEF StoreInv

LEMMA StepStopServer ==
  ASSUME StoreAssumption, StoreInv, StopServer
  PROVE  StoreInv'
<1>1. TypeOK' /\ FilesInv'
  BY Scripted DEF StopServer, Working, StoreInv, TypeOK
<1>2. LiveInv'
  BY DEF StopServer, StoreInv, LiveInv, Changing
<1> QED
  BY <1>1, <1>2 DEF StoreInv

\* What is installed has a name and a file.
LEMMA Installs ==
  ASSUME StoreAssumption, StoreInv, at \in Working
  PROVE  /\ target \in Instrument /\ target.name \in Names /\ zips[target.name] # None
         /\ zips \in [Names -> Versions \cup {Broken, None}]
         /\ Unzipped(target.name) \in Directory /\ Unfinished(target.name) \in Directory
<1>1. target \in Instrument /\ zips \in [Names -> Versions \cup {Broken, None}]
  BY DEF StoreInv, TypeOK, Working
<1>2. target.name \in Names
  BY <1>1 DEF Instrument
<1>3. zips[target.name] # None
  BY DEF StoreInv, FilesInv
<1> QED
  BY <1>1, <1>2, <1>3, Records

\* What unzip leaves in the end is a copy of what is installed.
LEMMA UnzipsCopies ==
  ASSUME StoreAssumption, StoreInv, at \in Working
  PROVE  Unzipped(target.name) \in Copies(target)
<1>1. /\ target.name \in Names /\ zips[target.name] # None
      /\ zips \in [Names -> Versions \cup {Broken, None}]
  BY Installs
<1>2. target.version = IF zips[target.name] \in Versions THEN zips[target.name] ELSE NoVersion
  <2>1. target = Entry(target.name, target.is_default)
    BY DEF StoreInv, FilesInv
  <2>2. Entry(target.name, target.is_default).version =
           IF zips[target.name] \in Versions THEN zips[target.name] ELSE NoVersion
    BY DEF Entry
  <2> QED
    BY <2>1, <2>2
<1>3. CASE zips[target.name] \in Versions
  BY <1>2, <1>3 DEF Unzipped, Copies
<1>4. CASE zips[target.name] = Broken
  BY <1>4 DEF Unzipped, Unfinished, Copies
<1> QED
  BY <1>1, <1>3, <1>4

LEMMA StepUnzip ==
  ASSUME StoreAssumption, StoreInv, Unzip
  PROVE  StoreInv'
<1>1. at \in {"unzip", "unzipping"} /\ at \in Working /\ at' \in {"unzipping", "start"}
      /\ at' \in Working
  BY DEF Unzip, Working
<1>2. Unzipped(target.name) \in Directory /\ Unfinished(target.name) \in Directory
  BY <1>1, Installs
<1>3. live_dir' \in Directory \cup {None} /\ server' = server
      /\ UNCHANGED <<zips, target, instruments_list, live_instrument, unsaved>>
  BY <1>2 DEF Unzip, StoreInv, TypeOK
<1>4. TypeOK' /\ FilesInv'
  <2>1. server \in Directory \cup {None}
    BY DEF StoreInv, TypeOK
  <2> QED
    BY <1>1, <1>3, <2>1, Scripted
<1>5. LiveInv'
  <2>1. CASE at = "unzip" /\ at' = "unzipping" /\ live_dir' = Unfinished(target.name)
    <3>1. target' = target /\ server' = None
      BY <1>3, <2>1 DEF StoreInv, LiveInv
    <3>2. Unfinished(target.name)' = Unfinished(target.name)
      BY <3>1 DEF Unfinished
    <3> QED
      BY <2>1, <3>1, <3>2 DEF LiveInv, Served, Copies, Changing
  <2>2. CASE at = "unzipping" /\ at' = "start" /\ live_dir' = Unzipped(target.name)
    <3>1. target' = target /\ server' \in {None, Unfinished(target.name)}
      BY <1>3, <2>2 DEF StoreInv, LiveInv, Served
    <3>2. Unfinished(target.name)' = Unfinished(target.name)
      BY <3>1 DEF Unfinished
    <3>3. live_dir' \in Copies(target)'
      BY <1>1, <2>2, <3>1, <3>2, UnzipsCopies DEF Copies
    <3> QED
      BY <2>2, <3>1, <3>2, <3>3 DEF LiveInv, Served, Changing
  <2>3. CASE at' = "start" /\ UNCHANGED live_dir
    <3>1. Served(target)
      BY <1>1 DEF StoreInv, LiveInv, Served, Copies
    <3>2. Served(target)'
      BY <1>3, <2>3, <3>1 DEF Served, Copies, Unfinished
    <3> QED
      BY <2>3, <3>2 DEF LiveInv, Changing
  <2> QED
    BY <2>1, <2>2, <2>3 DEF Unzip
<1> QED
  BY <1>4, <1>5 DEF StoreInv

\* systemctl start leaves the server as it is, or starts it from the live directory.
LEMMA Starts ==
  ASSUME live_dir \in Directory \cup {None}, server \in Directory \cup {None}, SystemctlStart
  PROVE  /\ server' \in Directory \cup {None}
         /\ server' \in {server, None, live_dir}
BY DEF SystemctlStart

\* A server that is started from the live directory, or ends, does not change what is served.
LEMMA ServedStill ==
  ASSUME NEW e, Served(e), UNCHANGED live_dir, server' \in {server, None, live_dir}
  PROVE  live_dir' \in Copies(e) /\ server' \in {None, live_dir', Unfinished(e.name)}
BY DEF Served

\* The server is started or ends, and the application may go on.
LEMMA LiveStill ==
  ASSUME StoreInv, UNCHANGED <<live_dir, target, live_instrument>>,
         server' \in {server, None, live_dir},
         at' = at \/ (at = "start" /\ at' = "installed")
  PROVE  LiveInv'
<1>1. at \in {"unzipping", "start", "installed"} => Served(target)'
  <2> SUFFICES ASSUME at \in {"unzipping", "start", "installed"} PROVE Served(target)'
    OBVIOUS
  <2>1. Served(target)
    BY DEF StoreInv, LiveInv
  <2>2. live_dir' \in Copies(target) /\ server' \in {None, live_dir', Unfinished(target.name)}
    BY <2>1, ServedStill
  <2> QED
    BY <2>2 DEF Served, Copies, Unfinished
<1>2. at \in Changing \cup {"idle"} /\ live_instrument # None => Served(live_instrument)'
  <2> SUFFICES ASSUME at \in Changing \cup {"idle"}, live_instrument # None
               PROVE  Served(live_instrument)'
    OBVIOUS
  <2>1. Served(live_instrument)
    BY DEF StoreInv, LiveInv
  <2>2. /\ live_dir' \in Copies(live_instrument)
        /\ server' \in {None, live_dir', Unfinished(live_instrument.name)}
    BY <2>1, ServedStill
  <2> QED
    BY <2>2 DEF Served, Copies, Unfinished
<1>3. /\ at \in {"stop", "unzip"} => live_dir' = None
      /\ at = "unzip" => server' = None
      /\ at = "unzipping" => live_dir' = Unfinished(target.name)'
  BY DEF StoreInv, LiveInv, Unfinished
<1> QED
  BY <1>1, <1>2, <1>3 DEF LiveInv, Changing

LEMMA StepStartServer ==
  ASSUME StoreAssumption, StoreInv, StartServer
  PROVE  StoreInv'
<1>1. at = "start" /\ at' = "installed" /\ at \in Working /\ at' \in Working
  BY DEF StartServer, Working
<1>2. UNCHANGED <<zips, live_dir, target, instruments_list, live_instrument, unsaved>>
  BY DEF StartServer
<1>3. live_dir \in Directory \cup {None} /\ server \in Directory \cup {None}
  BY DEF StoreInv, TypeOK
<1>4. server' \in Directory \cup {None} /\ server' \in {server, None, live_dir}
  BY <1>3, Starts DEF StartServer
<1>5. TypeOK' /\ FilesInv'
  BY <1>1, <1>2, <1>3, <1>4, Scripted
<1>6. LiveInv'
  BY <1>1, <1>2, <1>4, LiveStill
<1> QED
  BY <1>5, <1>6 DEF StoreInv

LEMMA StepInstalled ==
  ASSUME StoreAssumption, StoreInv, Installed
  PROVE  StoreInv'
<1>1. /\ at = "installed" /\ at' = "idle" /\ at \in Working /\ at' \notin Working
      /\ live_instrument' = target /\ target' = None
      /\ UNCHANGED <<zips, live_dir, server, instruments_list, unsaved>>
  BY DEF Installed, Working
<1>2. /\ target \in Instrument /\ target.name \in Names /\ zips[target.name] # None
      /\ zips \in [Names -> Versions \cup {Broken, None}]
      /\ Unzipped(target.name) \in Directory
  BY <1>1, Installs
<1>3. TypeOK'
  BY <1>1, <1>2 DEF StoreInv, TypeOK
<1>4. FilesInv'
  BY <1>1, FilesKept DEF StoreInv
<1>5. LiveInv'
  <2>1. Served(target)
    BY <1>1 DEF StoreInv, LiveInv
  <2>2. Served(live_instrument)'
    BY <1>1, <2>1 DEF Served, Copies, Unfinished
  <2> QED
    BY <1>1, <2>2 DEF LiveInv
<1> QED
  BY <1>3, <1>4, <1>5 DEF StoreInv

-----------------------------------------------------------------------------
(* Uploads and deletions                                                   *)

\* The live instrument is served as before.
LEMMA LiveKept ==
  ASSUME StoreInv, at \in Changing \cup {"idle"}, at' \in Changing \cup {"idle"},
         UNCHANGED <<live_dir, server, live_instrument>>
  PROVE  LiveInv'
<1>1. live_instrument # None => Served(live_instrument)
  BY DEF StoreInv, LiveInv
<1>2. live_instrument' # None => Served(live_instrument)'
  BY <1>1 DEF Served, Copies, Unfinished
<1>3. at' \notin {"stop", "unzip", "unzipping", "start", "installed"}
  BY DEF Changing
<1> QED
  BY <1>2, <1>3 DEF LiveInv

\* The file of another instrument is written or removed.
LEMMA OthersMatch ==
  ASSUME StoreInv, NEW n \in Names, NEW v, zips' = [zips EXCEPT ![n] = v],
         instruments_list' = instruments_list, NEW m \in Names \ {n}, Matches(m),
         m \in unsaved' <=> m \in unsaved
  PROVE  Matches(m)'
<1>1. zips'[m] = zips[m]
  BY DEF StoreInv, TypeOK
<1> QED
  BY <1>1 DEF Matches, Listed, Entry

LEMMA StepUpload ==
  ASSUME StoreAssumption, StoreInv, NEW n \in Names, Upload(n)
  PROVE  StoreInv'
<1>1. /\ at = "idle" /\ at' = "save" /\ zips' = [zips EXCEPT ![n] = Broken]
      /\ target' = Entry(n, n = Default)
      /\ unsaved' = unsaved \ {n}
      /\ UNCHANGED <<live_dir, server, instruments_list, live_instrument>>
  BY DEF Upload
<1>2. zips \in [Names -> Versions \cup {Broken, None}]
  BY DEF StoreInv, TypeOK
<1>3. PICK b \in BOOLEAN : b = (n = Default)
  OBVIOUS
<1>4. /\ target' \in Instrument /\ target'.name = n /\ target'.is_default = b
      /\ target' # None
  <2>1. target' = Entry(n, b)
    BY <1>1, <1>3
  <2> QED
    BY <1>2, <2>1, Records
<1>5. zips' \in [Names -> Versions \cup {Broken, None}] /\ zips'[n] = Broken /\ Broken # None
  BY <1>1, <1>2 DEF StoreAssumption
<1>6. TypeOK'
  BY <1>1, <1>4, <1>5 DEF StoreInv, TypeOK
<1>7. ASSUME NEW m \in Names \ {n} PROVE Matches(m)'
  BY <1>1, OthersMatch DEF StoreInv, FilesInv
<1>8. FilesInv'
  <2>1. at' \notin Working \cup {"idle", "down", "uploaded", "deleted"}
    BY <1>1 DEF Working
  <2>2. zips'[target'.name] = Broken /\ zips'[target'.name] # None
    BY <1>4, <1>5
  <2>3. target'.is_default = (target'.name = Default)
    BY <1>3, <1>4
  <2>4. \A m \in Names \ {target'.name} : Matches(m)'
    BY <1>4, <1>7
  <2>5. /\ UniqueNames(instruments_list)'
        /\ (\A e \in Range(instruments_list) : e.is_default = (e.name = Default))'
    BY <1>1 DEF StoreInv, FilesInv
  <2>6. target'.name \notin unsaved' /\ \A m \in unsaved' : zips'[m] = Broken
    BY <1>1, <1>2, <1>4 DEF StoreInv, TypeOK, FilesInv
  <2> QED
    BY <1>1, <2>1, <2>2, <2>3, <2>4, <2>5, <2>6 DEF FilesInv
<1>9. LiveInv'
  BY <1>1, LiveKept DEF Changing
<1> QED
  BY <1>6, <1>8, <1>9 DEF StoreInv

\* What is uploaded or deleted has a name.
LEMMA Changes ==
  ASSUME StoreInv, at \in Changing
  PROVE  /\ target \in Instrument /\ target # None /\ target.name \in Names
         /\ target.is_default \in BOOLEAN /\ target.is_default = (target.name = Default)
         /\ zips \in [Names -> Versions \cup {Broken, None}]
         /\ \A m \in Names \ {target.name} : Matches(m)
         /\ target.name \notin unsaved /\ \A m \in unsaved : zips[m] = Broken
BY DEF StoreInv, TypeOK, FilesInv, Changing, Instrument

LEMMA StepSaved ==
  ASSUME StoreAssumption, StoreInv, NEW v \in Versions \cup {Broken}, Saved(v)
  PROVE  StoreInv'
<1>1. /\ at = "save" /\ at' = "uploaded" /\ zips' = [zips EXCEPT ![target.name] = v]
      /\ UNCHANGED <<live_dir, server, target, instruments_list, live_instrument, unsaved>>
      /\ at \in Changing /\ at' \in Changing
  BY DEF Saved, Changing
<1>2. /\ target \in Instrument /\ target # None /\ target.name \in Names
      /\ target.is_default = (target.name = Default)
      /\ zips \in [Names -> Versions \cup {Broken, None}]
      /\ \A m \in Names \ {target.name} : Matches(m)
      /\ target.name \notin unsaved /\ \A m \in unsaved : zips[m] = Broken
  BY <1>1, Changes
<1>3. zips' \in [Names -> Versions \cup {Broken, None}] /\ zips'[target.name] # None
  BY <1>1, <1>2 DEF StoreAssumption
<1>4. TypeOK'
  BY <1>1, <1>2, <1>3 DEF StoreInv, TypeOK
<1>5. ASSUME NEW m \in Names \ {target.name} PROVE Matches(m)'
  BY <1>1, <1>2, OthersMatch
<1>6. FilesInv'
  <2>1. at' \notin Working \cup {"idle", "down", "deleted"}
    BY <1>1 DEF Working
  <2>2. /\ UniqueNames(instruments_list)'
        /\ (\A e \in Range(instruments_list) : e.is_default = (e.name = Default))'
    BY <1>1 DEF StoreInv, FilesInv
  <2>3. target'.name \notin unsaved' /\ \A m \in unsaved' : zips'[m] = Broken
    BY <1>1, <1>2 DEF StoreInv, TypeOK
  <2> QED
    BY <1>1, <1>2, <1>3, <1>5, <2>1, <2>2, <2>3 DEF FilesInv
<1>7. LiveInv'
  BY <1>1, LiveKept
<1> QED
  BY <1>4, <1>6, <1>7 DEF StoreInv

\* The list is as the files are when a request has been served.
LEMMA Idles ==
  ASSUME StoreAssumption, StoreInv, at \in Changing, at' = "idle", target' = None,
         UNCHANGED <<zips, live_dir, server, live_instrument>>,
         unsaved' \subseteq Names, \A n \in unsaved' : zips[n] = Broken,
         NEW l \in Seq(Instrument), instruments_list' = l, UniqueNames(l),
         \A e \in Range(l) : e.is_default = (e.name = Default),
         \A n \in Names : Matches(n)'
  PROVE  StoreInv'
<1>1. TypeOK'
  BY DEF StoreInv, TypeOK
<1>2. FilesInv'
  BY DEF FilesInv, Working, Changing
<1>3. LiveInv'
  BY LiveKept
<1> QED
  BY <1>1, <1>2, <1>3 DEF StoreInv

LEMMA StepSaveFails ==
  ASSUME StoreAssumption, StoreInv, SaveFails
  PROVE  StoreInv'
<1>1. /\ at = "save" /\ at' = "idle" /\ target' = None /\ at \in Changing
      /\ unsaved' = unsaved \cup {target.name}
      /\ UNCHANGED <<zips, live_dir, server, instruments_list, live_instrument>>
  BY DEF SaveFails, Changing
<1>2. /\ target.name \in Names /\ \A m \in Names \ {target.name} : Matches(m)
      /\ \A m \in unsaved : zips[m] = Broken
  BY <1>1, Changes
<1>3. /\ instruments_list \in Seq(Instrument) /\ UniqueNames(instruments_list)
      /\ \A d \in Range(instruments_list) : d.is_default = (d.name = Default)
      /\ unsaved \subseteq Names /\ zips[target.name] = Broken /\ Broken # None
  BY <1>1 DEF StoreAssumption, StoreInv, TypeOK, FilesInv
<1>4. unsaved' \subseteq Names /\ \A m \in unsaved' : zips[m] = Broken
  BY <1>1, <1>2, <1>3
<1>5. ASSUME NEW m \in Names PROVE Matches(m)'
  <2>1. CASE m = target.name
    BY <1>1, <1>3, <2>1 DEF Matches
  <2>2. CASE m # target.name
    BY <1>1, <1>2, <2>2 DEF Matches, Listed, Entry
  <2> QED
    BY <2>1, <2>2
<1> QED
  BY <1>1, <1>3, <1>4, <1>5, Idles

LEMMA StepUploaded ==
  ASSUME StoreAssumption, StoreInv, Uploaded
  PROVE  StoreInv'
<1>0. unsaved' \subseteq Names /\ \A m \in unsaved' : zips[m] = Broken
  BY DEF Uploaded, StoreInv, TypeOK, FilesInv
<1>1. /\ at = "uploaded" /\ at' = "idle" /\ target' = None /\ at \in Changing
      /\ UNCHANGED <<zips, live_dir, server, live_instrument, unsaved>>
  BY DEF Uploaded, Changing
<1>2. /\ target.name \in Names /\ target.is_default \in BOOLEAN
      /\ target.is_default = (target.name = Default)
      /\ zips \in [Names -> Versions \cup {Broken, None}]
      /\ \A m \in Names \ {target.name} : Matches(m)
  BY <1>1, Changes
<1>3. PICK n \in Names : n = target.name
  BY <1>2
<1>4. PICK e : e = Entry(n, n = Default)
  OBVIOUS
<1>5. e = Entry(target.name, target.is_default)
  BY <1>2, <1>3, <1>4
<1>6. e \in Instrument /\ e.name = n /\ e.is_default = (n = Default)
  BY <1>2, <1>3, <1>5, Records
<1>7. PICK w : w = Without(n)
  OBVIOUS
<1>8. /\ w \in Seq(Instrument) /\ UniqueNames(w)
      /\ Range(w) = {d \in Range(instruments_list) : d.name # n}
  BY <1>7, ListWithout DEF StoreInv, TypeOK, FilesInv
<1>9. PICK l : l = Append(w, e)
  OBVIOUS
<1>10. l \in Seq(Instrument) /\ UniqueNames(l) /\ Range(l) = Range(w) \cup {e}
  BY <1>6, <1>8, <1>9, ListAppend
<1>11. instruments_list' = l
  BY <1>3, <1>5, <1>7, <1>9 DEF Uploaded
<1>12. \A d \in Range(l) : d.is_default = (d.name = Default)
  <2>1. \A d \in Range(instruments_list) : d.is_default = (d.name = Default)
    BY DEF StoreInv, FilesInv
  <2> QED
    BY <1>6, <1>8, <1>10, <2>1
<1>13. ASSUME NEW m \in Names PROVE Matches(m)'
  <2>1. CASE m = n
    <3>1. Listed(n)' = {e}
      BY <1>6, <1>8, <1>10, <1>11 DEF Listed
    <3>2. zips[n] # None
      BY <1>1, <1>3 DEF StoreInv, FilesInv
    <3> QED
      BY <1>1, <1>4, <2>1, <3>1, <3>2 DEF Matches, Entry
  <2>2. CASE m # n
    <3>1. Listed(m)' = Listed(m)
      BY <1>6, <1>8, <1>10, <1>11, <2>2 DEF Listed
    <3> QED
      BY <1>1, <1>2, <1>3, <2>2, <3>1 DEF Matches, Entry
  <2> QED
    BY <2>1, <2>2
<1> QED
  BY <1>0, <1>1, <1>10, <1>11, <1>12, <1>13, Idles

LEMMA StepDelete ==
  ASSUME StoreAssumption, StoreInv, NEW n \in Names, Delete(n)
  PROVE  StoreInv'
<1>1. /\ at = "idle" /\ at' = "deleted" /\ zips' = [zips EXCEPT ![n] = None]
      /\ target' = Entry(n, n = Default)
      /\ unsaved' = unsaved \ {n}
      /\ UNCHANGED <<live_dir, server, instruments_list, live_instrument>>
  BY DEF Delete
<1>2. zips \in [Names -> Versions \cup {Broken, None}]
  BY DEF StoreInv, TypeOK
<1>3. PICK b \in BOOLEAN : b = (n = Default)
  OBVIOUS
<1>4. /\ target' \in Instrument /\ target'.name = n /\ target'.is_default = b
      /\ target' # None
  <2>1. target' = Entry(n, b)
    BY <1>1, <1>3
  <2> QED
    BY <1>2, <2>1, Records
<1>5. zips' \in [Names -> Versions \cup {Broken, None}] /\ zips'[n] = None
  BY <1>1, <1>2
<1>6. TypeOK'
  BY <1>1, <1>4, <1>5 DEF StoreInv, TypeOK
<1>7. ASSUME NEW m \in Names \ {n} PROVE Matches(m)'
  BY <1>1, OthersMatch DEF StoreInv, FilesInv
<1>8. FilesInv'
  <2>1. at' \notin Working \cup {"idle", "down", "save", "uploaded"}
    BY <1>1 DEF Working
  <2>2. zips'[target'.name] = None
    BY <1>4, <1>5
  <2>3. target'.is_default = (target'.name = Default)
    BY <1>3, <1>4
  <2>4. \A m \in Names \ {target'.name} : Matches(m)'
    BY <1>4, <1>7
  <2>5. /\ UniqueNames(instruments_list)'
        /\ (\A e \in Range(instruments_list) : e.is_default = (e.name = Default))'
    BY <1>1 DEF StoreInv, FilesInv
  <2>6. target'.name \notin unsaved' /\ \A m \in unsaved' : zips'[m] = Broken
    BY <1>1, <1>2, <1>4 DEF StoreInv, TypeOK, FilesInv
  <2> QED
    BY <1>1, <2>1, <2>2, <2>3, <2>4, <2>5, <2>6 DEF FilesInv
<1>9. LiveInv'
  BY <1>1, LiveKept DEF Changing
<1> QED
  BY <1>6, <1>8, <1>9 DEF StoreInv

LEMMA StepDeleted ==
  ASSUME StoreAssumption, StoreInv, Deleted
  PROVE  StoreInv'
<1>0. unsaved' \subseteq Names /\ \A m \in unsaved' : zips[m] = Broken
  BY DEF Deleted, StoreInv, TypeOK, FilesInv
<1>1. /\ at = "deleted" /\ at' = "idle" /\ target' = None /\ at \in Changing
      /\ UNCHANGED <<zips, live_dir, server, live_instrument, unsaved>>
  BY DEF Deleted, Changing
<1>2. target.name \in Names /\ \A m \in Names \ {target.name} : Matches(m)
  BY <1>1, Changes
<1>3. PICK n \in Names : n = target.name
  BY <1>2
<1>4. zips[n] = None
  BY <1>1, <1>3 DEF StoreInv, FilesInv
<1>5. /\ instruments_list \in Seq(Instrument) /\ UniqueNames(instruments_list)
      /\ \A d \in Range(instruments_list) : d.is_default = (d.name = Default)
  BY DEF StoreInv, TypeOK, FilesInv
<1>6. CASE \E e \in Range(instruments_list) : e.name = n /\ ~e.is_default
  <2>1. PICK w : w = Without(n)
    OBVIOUS
  <2>2. /\ w \in Seq(Instrument) /\ UniqueNames(w)
        /\ Range(w) = {d \in Range(instruments_list) : d.name # n}
    BY <1>5, <2>1, ListWithout
  <2>3. instruments_list' = w
    BY <1>3, <1>6, <2>1 DEF Deleted
  <2>4. \A d \in Range(w) : d.is_default = (d.name = Default)
    BY <1>5, <2>2
  <2>5. ASSUME NEW m \in Names PROVE Matches(m)'
    <3>1. CASE m = n
      <4>1. Listed(n)' = {}
        BY <2>2, <2>3 DEF Listed
      <4> QED
        BY <1>1, <1>4, <3>1, <4>1 DEF Matches
    <3>2. CASE m # n
      <4>1. Listed(m)' = Listed(m)
        BY <2>2, <2>3, <3>2 DEF Listed
      <4> QED
        BY <1>1, <1>2, <1>3, <3>2, <4>1 DEF Matches, Entry
    <3> QED
      BY <3>1, <3>2
  <2> QED
    BY <1>0, <1>1, <2>2, <2>3, <2>4, <2>5, Idles
<1>7. CASE ~\E e \in Range(instruments_list) : e.name = n /\ ~e.is_default
  <2>1. instruments_list' = instruments_list
    BY <1>3, <1>7 DEF Deleted
  <2>2. Listed(n) = {} \/ n = Default
    BY <1>5, <1>7 DEF Listed
  <2>3. ASSUME NEW m \in Names PROVE Matches(m)'
    <3>1. Listed(m)' = Listed(m) /\ zips'[m] = zips[m]
      BY <1>1, <2>1 DEF Listed
    <3>2. CASE m = n
      BY <1>4, <2>2, <3>1, <3>2 DEF Matches
    <3>3. CASE m # n
      BY <1>2, <1>3, <1>1, <3>1, <3>3 DEF Matches, Entry
    <3> QED
      BY <3>2, <3>3
  <2> QED
    BY <1>0, <1>1, <1>5, <2>1, <2>3, Idles
<1> QED
  BY <1>6, <1>7

\* Only the server is started, or ends.
LEMMA StepServer ==
  ASSUME StoreInv, server' \in Directory \cup {None}, server' \in {server, None, live_dir},
         UNCHANGED <<zips, live_dir, at, target, instruments_list, live_instrument, unsaved>>
  PROVE  StoreInv'
<1>1. TypeOK'
  BY DEF StoreInv, TypeOK
<1>2. FilesInv'
  BY DEF StoreInv, FilesInv, Matches, Listed, Entry
<1>3. LiveInv'
  BY LiveStill
<1> QED
  BY <1>1, <1>2, <1>3 DEF StoreInv

LEMMA StepNetworkUp ==
  ASSUME StoreAssumption, StoreInv, NetworkUp
  PROVE  StoreInv'
<1>1. UNCHANGED <<zips, live_dir, at, target, instruments_list, live_instrument, unsaved>>
  BY DEF NetworkUp
<1>2. live_dir \in Directory \cup {None} /\ server \in Directory \cup {None}
  BY DEF StoreInv, TypeOK
<1>3. server' \in Directory \cup {None} /\ server' \in {server, None, live_dir}
  BY <1>2, Starts DEF NetworkUp
<1> QED
  BY <1>1, <1>3, StepServer

LEMMA StepServerEnds ==
  ASSUME StoreAssumption, StoreInv, ServerEnds
  PROVE  StoreInv'
<1>1. UNCHANGED <<zips, live_dir, at, target, instruments_list, live_instrument, unsaved>>
  BY DEF ServerEnds
<1>2. server' \in Directory \cup {None} /\ server' \in {server, None, live_dir}
  BY DEF ServerEnds
<1> QED
  BY <1>1, <1>2, StepServer

LEMMA StoreStep ==
  ASSUME StoreAssumption, StoreInv, [Next]_vars
  PROVE  StoreInv'
<1>1. CASE UNCHANGED vars
  BY <1>1, StoreStays
<1>2. CASE Start
  BY <1>2, StepStart
<1>3. CASE Clear
  BY <1>3, StepClear
<1>4. CASE StopServer
  BY <1>4, StepStopServer
<1>5. CASE Unzip
  BY <1>5, StepUnzip
<1>6. CASE StartServer
  BY <1>6, StepStartServer
<1>7. CASE Installed
  BY <1>7, StepInstalled
<1>8. CASE Uploaded
  BY <1>8, StepUploaded
<1>9. CASE Deleted
  BY <1>9, StepDeleted
<1>10. CASE \E v \in Versions \cup {Broken} : Saved(v)
  BY <1>10, StepSaved
<1>11. CASE Requests
  BY <1>11, StepRun, StepUpload, StepDelete DEF Requests
<1>12. CASE Kill
  BY <1>12, StepKill
<1>13. CASE PowerLoss
  BY <1>13, StepPowerLoss
<1>14. CASE NetworkUp
  BY <1>14, StepNetworkUp
<1>15. CASE ServerEnds
  BY <1>15, StepServerEnds
<1>16. CASE SaveFails
  BY <1>16, StepSaveFails
<1> QED
  BY <1>15, <1>16, <1>1, <1>2, <1>3, <1>4, <1>5, <1>6, <1>7, <1>8, <1>9, <1>10, <1>11, <1>12, <1>13, <1>14
     DEF Next, Application

\* Nothing but the steps of the store is needed for its invariant.
LEMMA StoreInvariance == Init /\ [][Next]_vars => []StoreInv
<1>1. Init => StoreInv
  BY StoreAssumption, StoreInit
<1>2. StoreInv /\ [Next]_vars => StoreInv'
  BY StoreAssumption, StoreStep
<1> QED
  BY <1>1, <1>2, PTL

LEMMA StoreImplies ==
  ASSUME StoreInv
  PROVE  ListMatchesFiles /\ ServedIsLive
<1>1. ListMatchesFiles
  <2> SUFFICES ASSUME at = "idle"
               PROVE  /\ IsInjective([i \in DOMAIN instruments_list |-> instruments_list[i].name])
                      /\ \A n \in Names :
                           /\ n \in unsaved => zips[n] = Broken
                           /\ zips[n] # None /\ n \notin unsaved =>
                                Listed(n) = {Entry(n, n = Default)}
                           /\ zips[n] = None => Listed(n) = {} \/ n = Default
    BY DEF ListMatchesFiles, Listed
  <2>1. IsInjective([i \in DOMAIN instruments_list |-> instruments_list[i].name])
    BY DEF StoreInv, FilesInv, UniqueNames, IsInjective
  <2> QED
    BY <2>1 DEF StoreInv, FilesInv, Matches
<1>2. ServedIsLive
  BY DEF StoreInv, LiveInv, Served, ServedIsLive
<1> QED
  BY <1>1, <1>2

\* Whatever requests and failures come, the list tells between requests what files there
\* are, each once and with its version.
THEOREM ListIsOfFiles == Spec => []ListMatchesFiles
<1>1. StoreInv => ListMatchesFiles
  BY StoreImplies
<1> QED
  BY <1>1, StoreInvariance, PTL DEF Spec

\* Between requests the live directory holds nothing but files of the live instrument, and
\* a koheron-server that runs was started from there.
THEOREM OnlyTheLiveIsServed == Spec => []ServedIsLive
<1>1. StoreInv => ServedIsLive
  BY StoreImplies
<1> QED
  BY <1>1, StoreInvariance, PTL DEF Spec

-----------------------------------------------------------------------------
(* The client                                                              *)

\* What the client saw is still so, if nobody began an install since.
AsSeen ==
  /\ live_dir # None => live_dir.name = firmware
  /\ server # None => server.name = firmware
  /\ at \in {"down", "idle", "clear"} \cup Changing

ClientInv ==
  /\ ClientTypeOK
  /\ asked => at \in Working
  /\ step \in {"look", "status", "run", "wait"} => firmware # None
  /\ sock => server # None
  /\ step = "in" /\ sock => op_table = TRUE
  /\ Seen /\ ~disturbed => AsSeen

\* A client that begins knows nothing.
LEMMA ClientStart ==
  ASSUME ClientAssumption, ClientInit
  PROVE  ClientInv
<1>1. firmware_restart \in BOOLEAN
  <2>1. firmware_restart \in IF firmware = None THEN {FALSE} ELSE BOOLEAN
    BY DEF ClientInit
  <2>2. {FALSE} \subseteq BOOLEAN
    OBVIOUS
  <2> QED
    BY <2>1, <2>2, Zenon
<1>2. ClientTypeOK
  BY <1>1 DEF ClientInit, ClientTypeOK
<1> QED
  BY <1>2 DEF ClientInit, ClientInv, Seen

\* What a step of the client alone leaves as it is.
LEMMA SeenStill ==
  ASSUME UNCHANGED vars, firmware' = firmware
  PROVE  AsSeen' <=> AsSeen
BY DEF AsSeen, vars

\* The application answers with the firmware of the client: it is served.
LEMMA LiveSeen ==
  ASSUME StoreAssumption, StoreInv, ~StatusFails, Live = firmware
  PROVE  AsSeen
<1>1. at = "idle" /\ live_instrument # None /\ Served(live_instrument)
  BY DEF StatusFails, StoreInv, LiveInv
<1>2. live_dir # None => live_dir.name = firmware
  BY <1>1 DEF Served, Copies, Unfinished, Live
<1>3. server # None => server.name = firmware
  <2>2. server \in {None, live_dir, Unfinished(live_instrument.name)}
    BY <1>1 DEF Served
  <2>3. Unfinished(live_instrument.name).name = firmware
    BY DEF Unfinished, Live
  <2> QED
    BY <1>2, <2>2, <2>3
<1> QED
  BY <1>1, <1>2, <1>3 DEF AsSeen

LEMMA ClientConnect ==
  ASSUME StoreInv, ClientInv, Connect
  PROVE  ClientInv'
<1>1. step' = IF firmware = None THEN "open" ELSE "look"
  BY DEF Connect
<1>2. asked = FALSE /\ asked' = FALSE /\ sock' = FALSE /\ disturbed' = FALSE
      /\ op_table' = FALSE
  BY DEF Connect, Forgotten, Lost, ClientInv, ClientTypeOK
<1>3. ClientTypeOK'
  BY <1>1, <1>2 DEF Connect, ClientInv, ClientTypeOK
<1> QED
  BY <1>1, <1>2, <1>3 DEF Connect, ClientInv, Seen

LEMMA ClientLook ==
  ASSUME StoreInv, ClientInv, Look
  PROVE  ClientInv'
<1>1. /\ step = "look" /\ step' = "status" /\ will_run' \in BOOLEAN
      /\ UNCHANGED <<firmware, firmware_restart, asked, sock, op_table, disturbed>>
      /\ UNCHANGED vars
  BY DEF Look, ClientInv, ClientTypeOK
<1>2. asked = FALSE
  BY <1>1 DEF ClientInv, ClientTypeOK
<1>3. ClientTypeOK'
  BY <1>1, <1>2 DEF ClientInv, ClientTypeOK
<1>4. sock' => server' # None
  BY <1>1 DEF ClientInv, vars
<1> QED
  BY <1>1, <1>2, <1>3, <1>4 DEF ClientInv, Seen

\* connect() fails.
LEMMA Throws ==
  ASSUME ClientAssumption, StoreInv, ClientInv, Throw, asked' = FALSE,
         UNCHANGED <<firmware, firmware_restart>>
  PROVE  ClientInv'
<1>1. step' = "out" /\ will_run' = FALSE /\ sock' = FALSE /\ disturbed' = FALSE
      /\ op_table' = FALSE
  BY DEF Throw, Forgotten, Lost
<1>3. ClientTypeOK'
  BY <1>1 DEF ClientInv, ClientTypeOK
<1> QED
  BY <1>1, <1>3 DEF ClientInv, Seen

LEMMA ClientStatus ==
  ASSUME StoreAssumption, ClientAssumption, StoreInv, ClientInv, Status
  PROVE  ClientInv'
<1>1. /\ step = "status" /\ UNCHANGED <<firmware, firmware_restart, asked>>
      /\ UNCHANGED vars
  BY DEF Status
<1>2. asked = FALSE /\ asked' = FALSE /\ firmware # None
  BY <1>1 DEF ClientInv, ClientTypeOK
<1>3. \/ Throw
      \/ /\ ~StatusFails /\ Live = firmware /\ step' \in {"wait", "open"}
         /\ UNCHANGED <<will_run, sock, op_table, disturbed>>
      \/ step' = "run" /\ UNCHANGED <<will_run, sock, op_table, disturbed>>
  BY DEF Status, AfterRun
<1>4. CASE Throw
  BY <1>1, <1>2, <1>4, Throws
<1>5. CASE step' \in {"wait", "open", "run"} /\ UNCHANGED <<will_run, sock, op_table, disturbed>>
           /\ (step' = "open" => ~StatusFails /\ Live = firmware)
  <2>1. ClientTypeOK'
    BY <1>1, <1>2, <1>5 DEF ClientInv, ClientTypeOK
  <2>2. sock' => server' # None
    BY <1>1, <1>5 DEF ClientInv, vars
  <2>3. step' = "open" => AsSeen'
    BY <1>1, <1>5, LiveSeen, SeenStill
  <2> QED
    BY <1>1, <1>2, <1>5, <2>1, <2>2, <2>3 DEF ClientInv, Seen
<1> QED
  BY <1>3, <1>4, <1>5

\* A name that is not None is that of an instrument.
LEMMA FirmwareNamed ==
  ASSUME ClientAssumption, ClientInv, firmware # None
  PROVE  firmware \in Names
BY DEF ClientAssumption, ClientInv, ClientTypeOK

LEMMA ClientAskRun ==
  ASSUME StoreAssumption, ClientAssumption, StoreInv, ClientInv, AskRun
  PROVE  ClientInv' /\ Requests
<1>1. /\ step = "run" /\ asked = FALSE /\ Run(firmware) /\ firmware # None
      /\ UNCHANGED <<firmware, firmware_restart>>
  BY DEF AskRun, ClientInv, ClientTypeOK
<1>2. firmware \in Names
  BY <1>1, FirmwareNamed DEF ClientInv, ClientTypeOK
<1>3. ASSUME Throw, UNCHANGED asked PROVE ClientInv'
  BY <1>1, <1>2, <1>3, Throws
<1>4. ASSUME zips[firmware] # None, asked' = TRUE,
             UNCHANGED <<step, will_run, sock, op_table, disturbed>>
      PROVE  ClientInv'
  <2>1. at' = "clear" /\ target' = Entry(firmware, FALSE) /\ server' = server
    BY <1>1, <1>4 DEF Run
  <2>2. target'.name = firmware
    BY <2>1 DEF Entry
  <2>3. ClientTypeOK'
    BY <1>1, <1>2, <1>4, <2>2 DEF ClientInv, ClientTypeOK
  <2>4. sock' => server' # None
    BY <1>4, <2>1 DEF ClientInv
  <2> QED
    BY <1>1, <1>4, <2>1, <2>3, <2>4 DEF ClientInv, Seen, Working
<1>5. Requests
  BY <1>1, <1>2 DEF Requests
<1>6. \/ zips[firmware] = None /\ Throw /\ UNCHANGED asked
      \/ /\ zips[firmware] # None /\ asked' = TRUE
         /\ UNCHANGED <<step, will_run, sock, op_table, disturbed>>
  BY DEF AskRun
<1> QED
  BY <1>3, <1>4, <1>5, <1>6

LEMMA ClientRunTimesOut ==
  ASSUME ClientAssumption, StoreInv, ClientInv, RunTimesOut
  PROVE  ClientInv'
BY Throws DEF RunTimesOut

\* A try that is not the last one.
LEMMA Tries ==
  ASSUME ClientAssumption, StoreInv, ClientInv, NEW from \in {"wait", "open"}, step = from,
         TryAgain(from), UNCHANGED <<firmware, firmware_restart, asked>>,
         UNCHANGED vars
  PROVE  ClientInv'
<1>1. asked = FALSE /\ asked' = FALSE
  BY DEF ClientInv, ClientTypeOK
<1>2. CASE Throw
  BY <1>1, <1>2, Throws
<1>3. CASE step' = from /\ Lost /\ UNCHANGED <<will_run, disturbed>>
  <2>1. sock' = FALSE /\ op_table' = FALSE
    BY <1>3 DEF Lost
  <2>2. ClientTypeOK'
    BY <1>1, <1>3, <2>1 DEF ClientInv, ClientTypeOK
  <2>3. AsSeen => AsSeen'
    BY SeenStill
  <2> QED
    BY <1>1, <1>3, <2>1, <2>2, <2>3 DEF ClientInv, Seen
<1> QED
  BY <1>2, <1>3 DEF TryAgain

LEMMA ClientWait ==
  ASSUME StoreAssumption, ClientAssumption, StoreInv, ClientInv, Wait
  PROVE  ClientInv'
<1>1. /\ step = "wait" /\ UNCHANGED <<firmware, firmware_restart, asked>>
      /\ UNCHANGED vars
  BY DEF Wait
<1>2. asked = FALSE /\ asked' = FALSE
  BY <1>1 DEF ClientInv, ClientTypeOK
<1>3. \/ /\ ~StatusFails /\ Live = firmware /\ step' = "open"
         /\ UNCHANGED <<will_run, sock, op_table, disturbed>>
      \/ TryAgain("wait")
  BY DEF Wait
<1>4. CASE TryAgain("wait")
  BY <1>1, <1>4, Tries
<1>5. CASE /\ ~StatusFails /\ Live = firmware /\ step' = "open"
           /\ UNCHANGED <<will_run, sock, op_table, disturbed>>
  <2>2. ClientTypeOK'
    BY <1>1, <1>2, <1>5 DEF ClientInv, ClientTypeOK
  <2>3. sock' => server' # None
    BY <1>1, <1>5 DEF ClientInv, vars
  <2>4. AsSeen'
    BY <1>1, <1>5, LiveSeen, SeenStill
  <2> QED
    BY <1>2, <1>5, <2>2, <2>3, <2>4 DEF ClientInv
<1> QED
  BY <1>3, <1>4, <1>5

\* A failure of the socket ends connect() or leads to another try.
LEMMA SocketFails ==
  ASSUME ClientAssumption, StoreInv, ClientInv, step \in {"open", "context"}, SocketError,
         UNCHANGED <<firmware, firmware_restart, asked>>, UNCHANGED vars
  PROVE  ClientInv'
<1>1. asked = FALSE /\ asked' = FALSE
  BY DEF ClientInv, ClientTypeOK
<1>2. CASE Throw
  BY <1>1, <1>2, Throws
<1>3. CASE step' = "open" /\ Lost /\ UNCHANGED <<will_run, disturbed>>
  <2>1. sock' = FALSE /\ op_table' = FALSE
    BY <1>3 DEF Lost
  <2>2. ClientTypeOK'
    BY <1>1, <1>3, <2>1 DEF ClientInv, ClientTypeOK
  <2>3. AsSeen => AsSeen'
    BY SeenStill
  <2> QED
    BY <1>1, <1>3, <2>1, <2>2, <2>3 DEF ClientInv, Seen
<1> QED
  BY <1>2, <1>3 DEF SocketError, TryAgain

\* Nothing but the socket and the table of a client that has seen its firmware live changes.
LEMMA StaysSeen ==
  ASSUME StoreInv, ClientInv, UNCHANGED vars,
         step \in {"open", "context", "in"}, step' \in {"open", "context", "in"},
         UNCHANGED <<firmware, firmware_restart, asked, disturbed>>,
         will_run' \in BOOLEAN, sock' \in BOOLEAN,
         op_table' \in BOOLEAN, sock' => server # None,
         step' = "in" => op_table' = TRUE
  PROVE  ClientInv'
<1>1. asked = FALSE /\ asked' = FALSE
  BY DEF ClientInv, ClientTypeOK, Seen
<1>2. ClientTypeOK'
  BY <1>1 DEF ClientInv, ClientTypeOK, Seen
<1>3. AsSeen => AsSeen'
  BY SeenStill
<1>4. server' = server
  BY DEF vars
<1> QED
  BY <1>1, <1>2, <1>3, <1>4 DEF ClientInv, Seen

LEMMA ClientOpen ==
  ASSUME ClientAssumption, StoreInv, ClientInv, Open
  PROVE  ClientInv'
<1>1. /\ step = "open" /\ UNCHANGED <<firmware, firmware_restart, asked>>
      /\ UNCHANGED vars
  BY DEF Open
<1>2. CASE SocketError
  BY <1>1, <1>2, SocketFails
<1>3. CASE /\ server # None /\ sock' = TRUE /\ step' = "context"
           /\ UNCHANGED <<will_run, op_table, disturbed>>
  BY <1>1, <1>3, StaysSeen DEF ClientInv, ClientTypeOK
<1> QED
  BY <1>2, <1>3 DEF Open

LEMMA ClientContext ==
  ASSUME ClientAssumption, StoreInv, ClientInv, Context
  PROVE  ClientInv'
<1>1. /\ step = "context" /\ UNCHANGED <<firmware, firmware_restart, asked>>
      /\ UNCHANGED vars
  BY DEF Context
<1>2. /\ asked' = FALSE /\ op_table \in BOOLEAN /\ sock \in BOOLEAN
      /\ (sock => server # None)
  BY <1>1 DEF ClientAssumption, ClientInv, ClientTypeOK
<1>3. CASE SocketError
  BY <1>1, <1>3, SocketFails
<1>4. CASE Throw
  BY <1>1, <1>2, <1>4, Throws
<1>5. CASE op_table' = TRUE /\ Connected
  <2>1. step' = "in" /\ will_run' = FALSE /\ UNCHANGED <<sock, disturbed>>
    BY <1>5 DEF Connected
  <2>2. sock' => server # None
    BY <1>2, <2>1
  <2> QED
    BY <1>1, <1>2, <1>5, <2>1, <2>2, StaysSeen
<1> QED
  BY <1>3, <1>4, <1>5 DEF Context

LEMMA ClientRefresh ==
  ASSUME StoreInv, ClientInv, Refresh
  PROVE  ClientInv'
<1>1. /\ step = "in" /\ step' = "in" /\ server # None /\ op_table' = TRUE /\ UNCHANGED vars
      /\ UNCHANGED <<firmware, firmware_restart, asked, disturbed, will_run, sock>>
  BY DEF Refresh
<1>2. will_run \in BOOLEAN /\ sock \in BOOLEAN
  BY DEF ClientInv, ClientTypeOK
<1> QED
  BY <1>1, <1>2, StaysSeen

\* A socket and a table are of the server that runs, or known to be old.
LEMMA ConnectionsEnd ==
  ASSUME ClientInv, step' = step \/ step' \in {"wait", "open"},
         Connections \/ Lost \/ (UNCHANGED <<sock, op_table>> /\ server' = server)
  PROVE  /\ sock' \in BOOLEAN /\ op_table' \in BOOLEAN
         /\ sock' => sock /\ op_table' = op_table /\ server' = server /\ server # None
         /\ step' = "in" /\ sock' => op_table' = TRUE
<1>1. sock \in BOOLEAN /\ op_table \in BOOLEAN /\ (sock => server # None)
      /\ (step = "in" /\ sock => op_table = TRUE)
  BY DEF ClientInv, ClientTypeOK
<1>2. CASE sock' = FALSE /\ op_table' = FALSE
  BY <1>2
<1>3. CASE server' = server /\ UNCHANGED <<sock, op_table>>
  BY <1>1, <1>3
<1> QED
  BY <1>2, <1>3 DEF Connections, Lost

\* An install goes on to its end; nothing else but an install changes what is live.
LEMMA Proceeds ==
  ASSUME StoreInv, Application
  PROVE  /\ at \in Working /\ at # "installed" => at' \in Working /\ target' = target
         /\ at = "installed" => at' = "idle" /\ UNCHANGED <<live_dir, server>>
         /\ at \notin Working =>
              /\ UNCHANGED <<live_dir, server>>
              /\ at' \in {"down", "idle", "clear"} \cup Changing
<1>1. CASE Start
  BY <1>1 DEF Start, Working
<1>2. CASE Clear
  BY <1>2 DEF Clear, Working
<1>3. CASE StopServer
  BY <1>3 DEF StopServer, Working
<1>4. CASE Unzip
  BY <1>4 DEF Unzip, Working
<1>5. CASE StartServer
  BY <1>5 DEF StartServer, Working
<1>6. CASE Installed
  BY <1>6 DEF Installed, Working
<1>7. CASE Uploaded
  BY <1>7 DEF Uploaded, Working
<1>8. CASE Deleted
  BY <1>8 DEF Deleted, Working
<1>9. CASE \E v \in Versions \cup {Broken} : Saved(v)
  BY <1>9 DEF Saved, Working, Changing
<1>10. CASE SaveFails
  BY <1>10 DEF SaveFails, Working
<1> QED
  BY <1>10, <1>1, <1>2, <1>3, <1>4, <1>5, <1>6, <1>7, <1>8, <1>9 DEF Application

LEMMA ClientServe ==
  ASSUME StoreAssumption, StoreInv, ClientInv, Serve
  PROVE  ClientInv'
<1>1. /\ Application /\ Connections
      /\ UNCHANGED <<firmware, firmware_restart, will_run>>
      /\ disturbed' = (disturbed \/ (Seen /\ at = "clear"))
  BY DEF Serve, Disturb
<1>2. /\ will_run \in BOOLEAN /\ asked \in BOOLEAN
      /\ firmware \in Firmwares /\ firmware_restart \in BOOLEAN
      /\ step \in {"out", "look", "status", "run", "wait", "open", "context", "in"}
      /\ asked => step = "run" /\ target.name = firmware /\ at \in Working
      /\ step \in {"look", "status", "run", "wait"} => firmware # None
  BY DEF ClientInv, ClientTypeOK
<1>3. disturbed' \in BOOLEAN
  BY <1>1
<1>4. step' = step \/ (asked /\ step' \in {"wait", "open"})
  BY DEF Serve, AfterRun
<1>5. /\ sock' \in BOOLEAN /\ op_table' \in BOOLEAN
      /\ sock' => sock /\ op_table' = op_table /\ server' = server /\ server # None
      /\ step' = "in" /\ sock' => op_table' = TRUE
  BY <1>1, <1>4, ConnectionsEnd
<1>6. sock' => server' # None
  BY <1>5
<1>7. CASE asked /\ at = "installed"
  <2>1. asked' = FALSE /\ step' \in {"wait", "open"}
    BY <1>7 DEF Serve, AfterRun
  <2>2. ClientTypeOK'
    BY <1>1, <1>2, <1>3, <1>5, <2>1 DEF ClientTypeOK
  <2>3. at' = "idle" /\ UNCHANGED <<live_dir, server>>
    BY <1>1, <1>7, Proceeds
  <2>4. Served(target) /\ target.name = firmware
    BY <1>2, <1>7 DEF StoreInv, LiveInv
  <2>5. AsSeen'
    <3>1. live_dir # None => live_dir.name = firmware
      BY <2>4 DEF Served, Copies, Unfinished
    <3>2. server # None => server.name = firmware
      BY <2>4, <3>1 DEF Served, Unfinished
    <3> QED
      BY <1>1, <2>3, <3>1, <3>2 DEF AsSeen
  <2> QED
    BY <1>1, <1>2, <1>5, <1>6, <1>7, <2>1, <2>2, <2>5 DEF ClientInv
<1>8. CASE ~(asked /\ at = "installed")
  <2>1. asked' = asked /\ step' = step
    BY <1>8 DEF Serve
  <2>2. asked => at' \in Working /\ target' = target
    BY <1>1, <1>2, <1>8, Proceeds
  <2>3. ClientTypeOK'
    BY <1>1, <1>2, <1>3, <1>5, <2>1, <2>2 DEF ClientTypeOK
  <2>4. Seen' /\ ~disturbed' => AsSeen'
    <3> SUFFICES ASSUME Seen', ~disturbed' PROVE AsSeen'
      OBVIOUS
    <3>1. Seen /\ ~disturbed /\ at # "clear"
      BY <1>1, <2>1 DEF Seen
    <3>2. AsSeen
      BY <3>1 DEF ClientInv
    <3>3. at \notin Working
      BY <3>1, <3>2 DEF AsSeen, Working, Changing
    <3>4. UNCHANGED <<live_dir, server>> /\ at' \in {"down", "idle", "clear"} \cup Changing
      BY <1>1, <3>3, Proceeds
    <3> QED
      BY <1>1, <3>2, <3>4 DEF AsSeen
  <2> QED
    BY <1>1, <1>2, <1>5, <1>6, <2>1, <2>2, <2>3, <2>4 DEF ClientInv
<1> QED
  BY <1>7, <1>8

LEMMA ClientOthers ==
  ASSUME StoreAssumption, StoreInv, ClientInv, Others
  PROVE  ClientInv'
<1>1. /\ Requests \/ NetworkUp \/ ServerEnds
      /\ Connections
      /\ UNCHANGED <<firmware, firmware_restart, step, will_run, asked, disturbed>>
  BY DEF Others
<1>2. /\ sock' \in BOOLEAN /\ op_table' \in BOOLEAN
      /\ sock' => sock /\ op_table' = op_table /\ server' = server /\ server # None
      /\ step' = "in" /\ sock' => op_table' = TRUE
  BY <1>1, ConnectionsEnd
<1>3. asked => at \in Working /\ at # "idle"
  BY DEF ClientInv, Working
<1>4. live_dir \in Directory \cup {None} /\ server \in Directory \cup {None}
  BY DEF StoreInv, TypeOK
<1>5. /\ asked => at' = at /\ target' = target
      /\ live_dir' = live_dir
      /\ at' = at \/ at' \in {"clear"} \cup Changing
      /\ server' = server \/ server' \in {None, live_dir}
  <2>1. CASE NetworkUp
    BY <1>4, <2>1, Starts DEF NetworkUp
  <2>3. CASE ServerEnds
    BY <2>3 DEF ServerEnds
  <2>2. CASE Requests
    BY <1>3, <2>2 DEF Requests, Run, Upload, Delete, Changing
  <2> QED
    BY <1>1, <2>1, <2>2, <2>3
<1>6. ClientTypeOK'
  BY <1>1, <1>2, <1>5 DEF ClientInv, ClientTypeOK
<1>7. Seen' /\ ~disturbed' => AsSeen'
  <2> SUFFICES ASSUME Seen', ~disturbed' PROVE AsSeen'
    OBVIOUS
  <2>1. AsSeen
    BY <1>1 DEF ClientInv, Seen
  <2> QED
    BY <1>1, <1>5, <2>1 DEF AsSeen
<1>8. asked' => at' \in Working
  BY <1>1, <1>3, <1>5
<1>9. sock' => server' # None
  BY <1>2
<1> QED
  BY <1>1, <1>2, <1>6, <1>7, <1>8, <1>9 DEF ClientInv

LEMMA ClientFailure ==
  ASSUME StoreAssumption, ClientAssumption, StoreInv, ClientInv, Failure
  PROVE  ClientInv'
<1>1. /\ asked' = FALSE /\ at' = "down" /\ UNCHANGED <<firmware, firmware_restart>>
      /\ \/ step' = "out" /\ will_run' = FALSE
         \/ UNCHANGED <<step, will_run>>
  BY DEF Failure, Kill, PowerLoss, Forget
<1>2. /\ will_run \in BOOLEAN
      /\ firmware \in Firmwares /\ firmware_restart \in BOOLEAN /\ disturbed \in BOOLEAN
      /\ step \in {"out", "look", "status", "run", "wait", "open", "context", "in"}
      /\ op_table \in BOOLEAN /\ sock \in BOOLEAN
  BY DEF ClientAssumption, ClientInv, ClientTypeOK
<1>3. step' \in {step, "out"} /\ will_run' \in BOOLEAN
  BY <1>1, <1>2
<1>4. CASE Kill /\ UNCHANGED <<sock, op_table, disturbed>>
  <2>1. UNCHANGED <<live_dir, server>>
    BY <1>4 DEF Kill
  <2>2. ClientTypeOK'
    BY <1>1, <1>2, <1>3, <1>4 DEF ClientTypeOK
  <2>3. Seen' /\ ~disturbed' => AsSeen'
    BY <1>1, <1>3, <1>4, <2>1 DEF ClientInv, Seen, AsSeen
  <2>4. sock' => server' # None
    BY <1>4, <2>1 DEF ClientInv
  <2>5. step' = "in" /\ sock' => op_table' = TRUE
    BY <1>3, <1>4 DEF ClientInv
  <2>6. step' \in {"look", "status", "run", "wait"} => firmware' # None
    BY <1>1, <1>3 DEF ClientInv
  <2> QED
    BY <1>1, <2>2, <2>3, <2>4, <2>5, <2>6 DEF ClientInv
<1>5. CASE PowerLoss /\ Lost /\ disturbed' = Seen
  <2>1. sock' = FALSE /\ op_table' \in BOOLEAN /\ disturbed' \in BOOLEAN
    BY <1>5 DEF Lost, Seen
  <2>2. ClientTypeOK'
    BY <1>1, <1>2, <1>3, <2>1 DEF ClientTypeOK
  <2>3. Seen' => disturbed'
    BY <1>1, <1>3, <1>5 DEF Seen
  <2>4. step' \in {"look", "status", "run", "wait"} => firmware' # None
    BY <1>1, <1>3 DEF ClientInv
  <2> QED
    BY <1>1, <2>1, <2>2, <2>3, <2>4 DEF ClientInv
<1> QED
  BY <1>4, <1>5 DEF Failure

-----------------------------------------------------------------------------
(* The client and the store                                                *)

\* Whatever the client and the board do, the store makes one of its steps, or none.
LEMMA StoreSteps ==
  ASSUME StoreAssumption, ClientAssumption, StoreInv, ClientInv, [ClientNext]_allvars
  PROVE  [Next]_vars
<1>1. CASE UNCHANGED allvars
  BY <1>1 DEF allvars
<1>2. CASE Client
  BY <1>2, ClientAskRun DEF Client, Connect, Look, Status, RunTimesOut, Wait, Open, Context,
                            Refresh, Next
<1>3. CASE Serve \/ Others \/ Failure
  BY <1>3 DEF Serve, Others, Failure, Next
<1> QED
  BY <1>1, <1>2, <1>3 DEF ClientNext

LEMMA ClientStep ==
  ASSUME StoreAssumption, ClientAssumption, StoreInv, ClientInv, [ClientNext]_allvars
  PROVE  ClientInv'
<1>1. CASE UNCHANGED allvars
  BY <1>1 DEF allvars, vars, client, ClientInv, ClientTypeOK, Seen, AsSeen
<1>2. CASE Client
  BY <1>2, ClientConnect, ClientLook, ClientStatus, ClientAskRun, ClientRunTimesOut, ClientWait,
     ClientOpen, ClientContext, ClientRefresh DEF Client
<1>3. CASE Serve \/ Others \/ Failure
  BY <1>3, ClientServe, ClientOthers, ClientFailure
<1> QED
  BY <1>1, <1>2, <1>3 DEF ClientNext

LEMMA ClientInvariance == ClientSpec => [](StoreInv /\ ClientInv)
<1>1. ClientInit => StoreInv /\ ClientInv
  BY StoreAssumption, ClientAssumption, StoreInit, ClientStart DEF ClientInit
<1>2. StoreInv /\ ClientInv /\ [ClientNext]_allvars => StoreInv' /\ ClientInv'
  BY StoreAssumption, ClientAssumption, StoreSteps, StoreStep, ClientStep
<1> QED
  BY <1>1, <1>2, PTL DEF ClientSpec

\* The store does with clients what it does without: their steps are requests to it or
\* leave it alone.  What holds of InstrumentStore in every state holds beside a client.
THEOREM ClientKeepsStore == ClientSpec => Init /\ [][Next]_vars
<1>1. ClientInit => Init
  BY DEF ClientInit
<1>2. StoreInv /\ ClientInv /\ [ClientNext]_allvars => [Next]_vars
  BY StoreAssumption, ClientAssumption, StoreSteps
<1> QED
  BY <1>1, <1>2, ClientInvariance, PTL DEF ClientSpec

\* With a client, too, the list tells between requests what files there are.
THEOREM ListIsOfFilesWithClients == ClientSpec => []ListMatchesFiles
<1>1. StoreInv => ListMatchesFiles
  BY StoreImplies
<1> QED
  BY <1>1, ClientInvariance, PTL

\* With a client, too, nothing but the live instrument is served.
THEOREM OnlyTheLiveIsServedWithClients == ClientSpec => []ServedIsLive
<1>1. StoreInv => ServedIsLive
  BY StoreImplies
<1> QED
  BY <1>1, ClientInvariance, PTL

\* A client that connect() has returned to has the table of the server that runs, and the
\* server is of its firmware unless an install began since the firmware was seen live.
THEOREM ConnectsAsAsked == ClientSpec => []ConnectedAsAsked
<1>1. ClientInv => ConnectedAsAsked
  BY DEF ClientInv, ConnectedAsAsked, Seen, AsSeen
<1> QED
  BY <1>1, ClientInvariance, PTL
=============================================================================

--------------------------- MODULE ServicesProofs ---------------------------
(***************************************************************************)
(* Proofs about the services around the scan, for any processes, events,   *)
(* articles, providers, histories and limits: the signals log keeps every  *)
(* row once and its header first, a summary of the liquidation cache       *)
(* counts what it says it counts, the news engine publishes verified news  *)
(* only and forgets no alert, the provider ladder gives up on a call only  *)
(* when it has asked every provider, the replay of the backtest looks at   *)
(* nothing that lies ahead, and side by side they keep their types.  They  *)
(* share no variable; that a set of natural numbers has a least one is     *)
(* what most of them need.                                                 *)
(***************************************************************************)
EXTENDS Services, TelegramDeliveryProofs, FiniteSetTheorems, SequenceTheorems,
        WellFoundedInduction, TLAPS

(* A set of natural numbers that is not empty has a least one. *)
LEMMA LeastOf ==
    ASSUME NEW S \in SUBSET Nat, S # {}
    PROVE  Min(S) \in S /\ \A x \in S : Min(S) <= x
<1>1. PICK x \in S : \A y \in S : ~ (<<y, x>> \in OpToRel(<, Nat))
  BY NatLessThanWellFounded, WFMin
<1>2. \A y \in S : x <= y
  <2> TAKE y \in S
  <2>1. ~ (y < x)
    BY <1>1 DEF OpToRel
  <2> QED
    BY <2>1
<1> QED
  BY <1>2 DEF Min

(* What bounds a set has its greatest element below it. *)
LEMMA GreatestOf ==
    ASSUME NEW S \in SUBSET Nat, S # {}, NEW n \in Nat, \A x \in S : x <= n
    PROVE  Max(S) \in S /\ \A x \in S : x <= Max(S)
<1> DEFINE gaps == {k \in 0..n : n - k \in S}
<1>1. gaps \in SUBSET Nat
  OBVIOUS
<1>2. gaps # {}
  <2>1. PICK x \in S : TRUE
    OBVIOUS
  <2>2. n - x \in gaps
    BY <2>1
  <2> QED
    BY <2>2
<1> DEFINE g == Min(gaps)
<1>3. g \in gaps /\ \A k \in gaps : g <= k
  BY <1>1, <1>2, LeastOf
<1>4. \A x \in S : x <= n - g
  <2> TAKE x \in S
  <2>1. n - x \in gaps
    OBVIOUS
  <2> HIDE DEF gaps
  <2>2. g <= n - x
    BY <1>3, <2>1
  <2>3. g \in Nat
    BY <1>1, <1>3
  <2> HIDE DEF g
  <2> QED
    BY <2>2, <2>3
<1>5. n - g \in S
  BY <1>3
<1> HIDE DEF g, gaps
<1> QED
  BY <1>4, <1>5 DEF Max

-----------------------------------------------------------------------------
(* The signals log.                                                        *)

Migrating == {w \in Writers : step[w] \in {"migrating", "archive"}}
Busy == {w \in Writers : step[w] \in {"archive", "opening", "writing"}}
Logging(w) == step[w] \in {"opening", "writing"}

(* Every file is a sequence of lines, every start archives the log at most *)
(* once, so a free name is left for it, and who writes has a file open.    *)
FilesInv ==
    /\ disk = [n \in DOMAIN disk |-> disk[n]]
    /\ DOMAIN disk \subseteq Names
    /\ \A n \in DOMAIN disk : disk[n] \in Seq(OldHeader..LogMaxRows)
    /\ IsFiniteSet(Migrating)
    /\ Cardinality(DOMAIN disk \ {0}) + Cardinality(Migrating) <= starts
    /\ \A w \in Writers :
          /\ step[w] = "archive" => bak[w] # 0
          /\ step[w] = "writing" => handle[w] \in DOMAIN disk

(* Until two processes archive at the same time, the name one of them has  *)
(* chosen stays free.                                                      *)
BakInv ==
    ~overlapped => \A w \in Writers : step[w] = "archive" =>
        /\ bak[w] \notin DOMAIN disk
        /\ \A v \in Writers : step[v] = "archive" => v = w

(* The rows on disk are those that are logged, each has one place, and     *)
(* those about to be written are new and of one process each.              *)
PlacesInv ==
    /\ logged \subseteq 0..rows
    /\ \A w \in Writers : Logging(w) =>
          /\ row[w] \in 1..rows /\ row[w] \notin logged
          /\ \A v \in Writers : Logging(v) /\ row[v] = row[w] => v = w
    /\ \A n \in DOMAIN disk : \A i \in DOMAIN disk[n] :
          disk[n][i] >= 0 =>
             /\ disk[n][i] \in logged
             /\ \A m \in DOMAIN disk : \A j \in DOMAIN disk[m] :
                   disk[m][j] = disk[n][i] => m = n /\ j = i
    /\ ~overlapped => \A r \in logged :
          \E n \in DOMAIN disk : \E i \in DOMAIN disk[n] : disk[n][i] = r

(* Nobody has checked the log since the first of the processes started.    *)
Fresh ==
    /\ \A w \in Writers : step[w] \in {"off", "migrating", "archive"}
    /\ starts = 0 \/ \E w \in Writers : step[w] # "off"

(* While no process has crossed another, one at most is at work, and the   *)
(* header is right unless it is still to be checked or to be written.      *)
HeaderInv ==
    /\ starts = 0 => \A w \in Writers : step[w] = "off"
    /\ ~crossed =>
          /\ \A v, w \in Busy : v = w
          /\ HeaderFits \/ Fresh \/ \E w \in Writers : step[w] = "writing"
          /\ \A w \in Writers : step[w] = "opening" =>
                HeaderFits /\ newFile[w] = ~There
          /\ \A w \in Writers : step[w] = "writing" =>
                /\ There /\ handle[w] = 0
                /\ IF newFile[w] THEN disk[0] = <<>> ELSE HeaderFits

-----------------------------------------------------------------------------
LEMMA LogFacts ==
    /\ LogMaxRows \in Nat /\ LogMaxStarts \in Nat
    /\ Header \in Int /\ Header < 0 /\ Header \in OldHeader..LogMaxRows
    /\ OldHeader = -2 /\ OldRow = 0
    /\ Names \in SUBSET Nat /\ IsFiniteSet(Names)
<1>1. LogMaxRows \in Nat /\ LogMaxStarts \in Nat
  BY LogAssumption
<1>2. Names \in SUBSET Nat /\ IsFiniteSet(Names)
  BY <1>1, FS_Interval DEF Names
<1> QED
  BY <1>1, <1>2 DEF Header, OldHeader, OldRow

(* A name is left for the log: each of the files took the start of its own. *)
LEMMA FreeName ==
    ASSUME LogTypeOK, FilesInv, NEW w \in Writers, step[w] = "migrating"
    PROVE  FreeBak \in Names /\ FreeBak # 0 /\ FreeBak \notin DOMAIN disk
<1> DEFINE Baks == DOMAIN disk \ {0}
           Free == Names \ (DOMAIN disk \cup {0})
<1>1. IsFiniteSet(Baks) /\ Cardinality(Baks) \in Nat
  <2>1. Baks \in SUBSET Names
    BY DEF FilesInv
  <2> QED
    BY <2>1, LogFacts, FS_Subset, FS_CardinalityType
<1>2. Cardinality(Migrating) \in Nat \ {0}
  <2>1. w \in Migrating
    BY DEF Migrating
  <2> QED
    BY <2>1, FS_EmptySet, FS_CardinalityType DEF FilesInv
<1>3. Free # {}
  <2> SUFFICES ASSUME Free = {} PROVE FALSE
    OBVIOUS
  <2>1. 1..LogMaxStarts + 1 \in SUBSET Baks
    BY LogFacts DEF Names
  <2>2. Cardinality(1..LogMaxStarts + 1) = LogMaxStarts + 1
    <3> DEFINE last == LogMaxStarts + 1
    <3>1. last \in Int /\ last >= 1 /\ 1 \in Int
      BY LogFacts
    <3> HIDE DEF last
    <3>2. Cardinality(1..last) = IF 1 > last THEN 0 ELSE last - 1 + 1
      BY <3>1, FS_Interval
    <3>3. Cardinality(1..last) = last
      BY <3>1, <3>2
    <3> QED
      BY <3>3 DEF last
  <2>3. LogMaxStarts + 1 <= Cardinality(Baks)
    <3> DEFINE few == 1..LogMaxStarts + 1
    <3>1. few \in SUBSET Baks /\ Cardinality(few) = LogMaxStarts + 1
      BY <2>1, <2>2
    <3> HIDE DEF few, Baks
    <3>2. Cardinality(few) <= Cardinality(Baks)
      BY <3>1, <1>1, FS_Subset
    <3> QED
      BY <3>1, <3>2
  <2>4. Cardinality(Baks) + Cardinality(Migrating) <= starts /\ starts \in 0..LogMaxStarts
    BY DEF FilesInv, LogTypeOK
  <2> HIDE DEF Baks
  <2> QED
    BY <2>3, <2>4, <1>1, <1>2, LogFacts
<1>4. Min(Free) \in Free
  BY <1>3, LogFacts, LeastOf
<1> QED
  BY <1>4 DEF FreeBak

LEMMA LineFacts ==
    ASSUME LogTypeOK, NEW w \in Writers
    PROVE  /\ Lines(w) \in Seq(OldHeader..LogMaxRows)
           /\ newFile[w] => Lines(w) = <<Header, row[w]>>
           /\ ~ newFile[w] => Lines(w) = <<row[w]>>
<1> DEFINE L == OldHeader..LogMaxRows
<1>1. row[w] \in L /\ Header \in L
  BY LogFacts DEF LogTypeOK
<1> HIDE DEF L
<1>2. <<Header>> \o <<row[w]>> = <<Header, row[w]>>
  <2> DEFINE s == <<Header>>
             t == <<row[w]>>
             u == <<Header, row[w]>>
  <2>1. /\ s \in Seq(L) /\ Len(s) = 1 /\ s[1] = Header
        /\ t \in Seq(L) /\ Len(t) = 1 /\ t[1] = row[w]
        /\ u \in Seq(L) /\ Len(u) = 2 /\ u[1] = Header /\ u[2] = row[w]
    BY <1>1
  <2> HIDE DEF s, t, u
  <2>2. s \o t = u
    <3>1. /\ s \o t \in Seq(L) /\ Len(s \o t) = 2
          /\ (s \o t)[1] = Header /\ (s \o t)[2] = row[w]
      BY <2>1, ConcatProperties
    <3> QED
      BY <3>1, <2>1, SeqEqual
  <2> QED
    BY <2>2 DEF s, t, u
<1>3. << >> \o <<row[w]>> = <<row[w]>>
  OBVIOUS
<1>4. <<row[w]>> \in Seq(L) /\ <<Header, row[w]>> \in Seq(L)
  BY <1>1
<1>5. CASE newFile[w]
  BY <1>2, <1>4, <1>5 DEF Lines, L
<1>6. CASE ~ newFile[w]
  BY <1>3, <1>4, <1>6 DEF Lines, L
<1> QED
  BY <1>5, <1>6

(* The files, when a process appends its lines to the one it has open. *)
LEMMA FlushedFiles ==
    ASSUME LogTypeOK, FilesInv, NEW w \in Writers, Flush(w)
    PROVE  /\ handle[w] \in DOMAIN disk
           /\ disk' = [n \in DOMAIN disk |-> disk'[n]]
           /\ disk'[handle[w]] = disk[handle[w]] \o Lines(w)
           /\ \A n \in DOMAIN disk : n # handle[w] => disk'[n] = disk[n]
           /\ \A n \in DOMAIN disk : disk'[n] \in Seq(OldHeader..LogMaxRows)
<1> DEFINE h == handle[w]
           L == OldHeader..LogMaxRows
<1>1. h \in DOMAIN disk
  BY DEF Flush, FilesInv
<1>2. disk' = [disk EXCEPT ![h] = disk[h] \o Lines(w)]
  BY DEF Flush
<1>3. /\ disk' = [n \in DOMAIN disk |-> disk'[n]]
      /\ disk'[h] = disk[h] \o Lines(w)
      /\ \A n \in DOMAIN disk : n # h => disk'[n] = disk[n]
  <2>1. disk' = [n \in DOMAIN disk |-> IF n = h THEN disk[h] \o Lines(w) ELSE disk[n]]
    BY <1>2, Zenon
  <2> HIDE DEF h
  <2> QED
    BY <2>1, <1>1
<1>4. disk[h] \o Lines(w) \in Seq(L)
  <2>1. disk[h] \in Seq(L) /\ Lines(w) \in Seq(L)
    BY <1>1, LineFacts DEF FilesInv
  <2> HIDE DEF L, h
  <2> QED
    BY <2>1
<1>5. \A n \in DOMAIN disk : disk'[n] \in Seq(L)
  BY <1>3, <1>4 DEF FilesInv
<1> QED
  BY <1>1, <1>3, <1>5

LEMMA FilesStep ==
    ASSUME LogTypeOK, FilesInv, [LogNext]_logVars
    PROVE  FilesInv'
<1> DEFINE L == OldHeader..LogMaxRows
           Moved == Cardinality(DOMAIN disk' \ {0}) + Cardinality(Migrating')
<1>0. /\ IsFiniteSet(DOMAIN disk \ {0}) /\ Cardinality(DOMAIN disk \ {0}) \in Nat
      /\ IsFiniteSet(Migrating) /\ Cardinality(Migrating) \in Nat
      /\ starts \in Nat
  <2>1. DOMAIN disk \ {0} \in SUBSET Names
    BY DEF FilesInv
  <2> QED
    BY <2>1, LogFacts, FS_Subset, FS_CardinalityType DEF FilesInv, LogTypeOK
<1>1. ASSUME NEW w \in Writers, LogStart(w) PROVE FilesInv'
  <2>1. Migrating' = Migrating \cup {w} /\ w \notin Migrating
    BY <1>1 DEF LogStart, Goes, Migrating, LogTypeOK
  <2>2. IsFiniteSet(Migrating') /\ Cardinality(Migrating') = Cardinality(Migrating) + 1
    BY <2>1, <1>0, FS_AddElement
  <2>3. Moved <= starts'
    BY <2>2, <1>0, <1>1 DEF LogStart, FilesInv
  <2> QED
    BY <2>2, <2>3, <1>1 DEF LogStart, Goes, FilesInv, LogTypeOK
<1>2. ASSUME NEW w \in Writers, CheckHeader(w) PROVE FilesInv'
  <2>1. CASE HeaderFits
    <3>1. Migrating' = Migrating \ {w} /\ w \in Migrating
      BY <1>2, <2>1 DEF CheckHeader, Goes, Migrating, LogTypeOK
    <3>2. IsFiniteSet(Migrating') /\ Cardinality(Migrating') = Cardinality(Migrating) - 1
      BY <3>1, <1>0, FS_RemoveElement
    <3>3. Moved <= starts'
      BY <3>2, <1>0, <1>2 DEF CheckHeader, FilesInv
    <3> QED
      BY <3>2, <3>3, <1>2, <2>1 DEF CheckHeader, Goes, FilesInv, LogTypeOK
  <2>2. CASE ~ HeaderFits
    <3>1. Migrating' = Migrating
      BY <1>2, <2>2 DEF CheckHeader, Goes, Migrating, LogTypeOK
    <3>2. \A v \in Writers : step'[v] = "archive" => bak'[v] # 0
      BY <1>2, <2>2, FreeName DEF CheckHeader, Goes, FilesInv, LogTypeOK
    <3> QED
      BY <3>1, <3>2, <1>2, <2>2 DEF CheckHeader, Goes, FilesInv, LogTypeOK
  <2> QED
    BY <2>1, <2>2
<1>3. ASSUME NEW w \in Writers, Archive(w) PROVE FilesInv'
  <2>0. bak[w] # 0 /\ bak[w] \in Names /\ There
    BY <1>3 DEF Archive, FilesInv, LogTypeOK
  <2>1. Migrating' = Migrating \ {w} /\ w \in Migrating
    BY <1>3 DEF Archive, Goes, Migrating, LogTypeOK
  <2>2. IsFiniteSet(Migrating') /\ Cardinality(Migrating') = Cardinality(Migrating) - 1
    BY <2>1, <1>0, FS_RemoveElement
  <2>3. DOMAIN disk' = (DOMAIN disk \cup {bak[w]}) \ {0}
    BY <1>3 DEF Archive
  <2>4. DOMAIN disk' \ {0} = (DOMAIN disk \ {0}) \cup {bak[w]}
    BY <2>0, <2>3
  <2>5. Cardinality(DOMAIN disk' \ {0}) <= Cardinality(DOMAIN disk \ {0}) + 1
    <3> DEFINE old == DOMAIN disk \ {0}
               new == DOMAIN disk' \ {0}
    <3>1. IsFiniteSet(old) /\ Cardinality(old) \in Nat /\ new = old \cup {bak[w]}
      BY <2>4, <1>0
    <3> HIDE DEF old, new
    <3>2. Cardinality(old \cup {bak[w]}) =
             IF bak[w] \in old THEN Cardinality(old) ELSE Cardinality(old) + 1
      BY <3>1, FS_AddElement
    <3>3. Cardinality(new) <= Cardinality(old) + 1
      BY <3>1, <3>2
    <3> QED
      BY <3>3 DEF old, new
  <2>6. Moved <= starts'
    <3>1. Cardinality(DOMAIN disk' \ {0}) \in Nat
      BY <2>4, <1>0, FS_AddElement, FS_CardinalityType
    <3>2. starts' = starts /\ Cardinality(DOMAIN disk \ {0}) + Cardinality(Migrating) <= starts
      BY <1>3 DEF Archive, FilesInv
    <3> QED
      BY <3>1, <3>2, <2>2, <2>5, <1>0
  <2>7. /\ disk' = [n \in DOMAIN disk' |-> disk'[n]]
        /\ \A n \in DOMAIN disk' : disk'[n] = IF n = bak[w] THEN disk[0] ELSE disk[n]
    BY <1>3, <2>3 DEF Archive
  <2>8. DOMAIN disk' \subseteq Names /\ \A n \in DOMAIN disk' : disk'[n] \in Seq(L)
    BY <2>0, <2>3, <2>7 DEF FilesInv, There
  <2>9. \A v \in Writers : /\ step'[v] = "archive" => bak'[v] # 0
                           /\ step'[v] = "writing" => handle'[v] \in DOMAIN disk'
    <3>1. ASSUME NEW v \in Writers, step'[v] = "writing" PROVE handle'[v] \in DOMAIN disk'
      <4>1. step[v] = "writing" /\ handle[v] \in DOMAIN disk
        BY <1>3, <3>1 DEF Archive, Goes, FilesInv, LogTypeOK
      <4>2. handle'[v] = IF handle[v] = 0 THEN bak[w] ELSE handle[v]
        BY <1>3, <4>1 DEF Archive
      <4> QED
        BY <4>1, <4>2, <2>0, <2>3
    <3> QED
      BY <3>1, <1>3 DEF Archive, Goes, FilesInv, LogTypeOK
  <2> QED
    BY <2>2, <2>6, <2>7, <2>8, <2>9 DEF FilesInv
<1>4. ASSUME NEW w \in Writers, MigrationFails(w) PROVE FilesInv'
  <2>1. Migrating' = Migrating \ {w} /\ w \in Migrating
    BY <1>4 DEF MigrationFails, Goes, Migrating, LogTypeOK
  <2>2. IsFiniteSet(Migrating') /\ Cardinality(Migrating') = Cardinality(Migrating) - 1
    BY <2>1, <1>0, FS_RemoveElement
  <2>3. Moved <= starts'
    BY <2>2, <1>0, <1>4 DEF MigrationFails, FilesInv
  <2> QED
    BY <2>2, <2>3, <1>4 DEF MigrationFails, Goes, FilesInv, LogTypeOK
<1>5. ASSUME NEW w \in Writers, LogBegins(w) PROVE FilesInv'
  <2>1. Migrating' = Migrating
    BY <1>5 DEF LogBegins, Goes, Migrating, LogTypeOK
  <2> QED
    BY <2>1, <1>5 DEF LogBegins, Goes, FilesInv, LogTypeOK
<1>6. ASSUME NEW w \in Writers, Open(w) PROVE FilesInv'
  <2>1. Migrating' = Migrating
    BY <1>6 DEF Open, Goes, Migrating, LogTypeOK
  <2>2. DOMAIN disk' = DOMAIN disk \cup {0} /\ disk' = [n \in DOMAIN disk' |-> disk'[n]]
    BY <1>6 DEF Open
  <2>3. \A n \in DOMAIN disk' : disk'[n] \in Seq(L)
    <3>1. \A n \in DOMAIN disk' : disk'[n] = IF n \in DOMAIN disk THEN disk[n] ELSE << >>
      BY <1>6, <2>2 DEF Open
    <3>2. << >> \in Seq(L)
      OBVIOUS
    <3> QED
      BY <3>1, <3>2 DEF FilesInv
  <2>4. DOMAIN disk' \ {0} = DOMAIN disk \ {0} /\ DOMAIN disk' \subseteq Names
    BY <2>2, LogFacts DEF FilesInv, Names
  <2>5. \A v \in Writers : /\ step'[v] = "archive" => bak'[v] # 0
                           /\ step'[v] = "writing" => handle'[v] \in DOMAIN disk'
    BY <2>2, <1>6 DEF Open, Goes, FilesInv, LogTypeOK
  <2> QED
    BY <2>1, <2>2, <2>3, <2>4, <2>5, <1>6 DEF Open, FilesInv
<1>7. ASSUME NEW w \in Writers, Flush(w) PROVE FilesInv'
  <2>1. Migrating' = Migrating
    BY <1>7 DEF Flush, Goes, Migrating, LogTypeOK
  <2>2. DOMAIN disk' = DOMAIN disk /\ disk' = [n \in DOMAIN disk' |-> disk'[n]]
    BY <1>7, FlushedFiles
  <2>3. \A n \in DOMAIN disk' : disk'[n] \in Seq(L)
    BY <1>7, <2>2, FlushedFiles
  <2>4. \A v \in Writers : /\ step'[v] = "archive" => bak'[v] # 0
                           /\ step'[v] = "writing" => handle'[v] \in DOMAIN disk'
    BY <2>2, <1>7 DEF Flush, Goes, FilesInv, LogTypeOK
  <2> QED
    BY <2>1, <2>2, <2>3, <2>4, <1>7 DEF Flush, FilesInv
<1>8. ASSUME NEW w \in Writers, LogFails(w) PROVE FilesInv'
  <2>1. Migrating' = Migrating
    BY <1>8 DEF LogFails, Goes, Migrating, LogTypeOK
  <2> QED
    BY <2>1, <1>8 DEF LogFails, Goes, FilesInv, LogTypeOK
<1>9. ASSUME NEW w \in Writers, LogCrash(w) PROVE FilesInv'
  <2>1. Migrating' = Migrating \ {w}
    BY <1>9 DEF LogCrash, Goes, Migrating, LogTypeOK
  <2>2. IsFiniteSet(Migrating') /\ Cardinality(Migrating') \in Nat
        /\ Cardinality(Migrating') <= Cardinality(Migrating)
    BY <2>1, <1>0, FS_RemoveElement, FS_CardinalityType
  <2>3. Moved <= starts'
    BY <2>2, <1>0, <1>9 DEF LogCrash, FilesInv
  <2> QED
    BY <2>2, <2>3, <1>9 DEF LogCrash, Goes, FilesInv, LogTypeOK
<1>10. CASE UNCHANGED logVars
  <2>1. Migrating' = Migrating
    BY <1>10 DEF logVars, jobVars, Migrating
  <2> QED
    BY <2>1, <1>10 DEF logVars, jobVars, FilesInv
<1> QED
  BY <1>1, <1>2, <1>3, <1>4, <1>5, <1>6, <1>7, <1>8, <1>9, <1>10 DEF LogNext

LEMMA LogTypesStep ==
    ASSUME LogTypeOK, FilesInv, [LogNext]_logVars
    PROVE  LogTypeOK'
<1> DEFINE L == OldHeader..LogMaxRows
<1>0. FilesInv'
  BY FilesStep
<1>1. DOMAIN disk' \subseteq Names
  BY <1>0 DEF FilesInv
<1>2. \A n \in DOMAIN disk' : \A i \in DOMAIN disk'[n] : disk'[n][i] \in L
  <2> SUFFICES ASSUME NEW n \in DOMAIN disk', NEW i \in DOMAIN disk'[n]
               PROVE  disk'[n][i] \in L
    OBVIOUS
  <2>1. disk'[n] \in Seq(L)
    BY <1>0 DEF FilesInv
  <2> HIDE DEF L
  <2> QED
    BY <2>1
<1>3. ASSUME NEW w \in Writers,
             LogStart(w) \/ CheckHeader(w) \/ Archive(w) \/ MigrationFails(w)
             \/ LogBegins(w) \/ Open(w) \/ Flush(w) \/ LogFails(w) \/ LogCrash(w)
      PROVE  LogTypeOK'
  <2>1. step' \in [Writers -> Steps]
    BY <1>3 DEF LogStart, CheckHeader, Archive, MigrationFails, LogBegins, Open, Flush,
                LogFails, LogCrash, Goes, LogTypeOK, Steps
  <2>2. bak' \in [Writers -> Names]
    BY <1>3, FreeName DEF LogStart, CheckHeader, Archive, MigrationFails, LogBegins,
                Open, Flush, LogFails, LogCrash, LogTypeOK
  <2>3. handle' \in [Writers -> Names]
    <3>1. CASE Archive(w)
      BY <3>1 DEF Archive, LogTypeOK
    <3>2. CASE Open(w)
      BY <3>2, LogFacts DEF Open, LogTypeOK, Names
    <3>3. CASE UNCHANGED handle
      BY <3>3 DEF LogTypeOK
    <3> QED
      BY <1>3, <3>1, <3>2, <3>3 DEF LogStart, CheckHeader, MigrationFails, LogBegins,
                Flush, LogFails, LogCrash
  <2>4. rows' \in 0..LogMaxRows /\ row' \in [Writers -> 0..LogMaxRows]
    BY <1>3, LogFacts DEF LogStart, CheckHeader, Archive, MigrationFails, LogBegins,
                Open, Flush, LogFails, LogCrash, LogTypeOK
  <2>5. starts' \in 0..LogMaxStarts
    BY <1>3, LogFacts DEF LogStart, CheckHeader, Archive, MigrationFails, LogBegins,
                Open, Flush, LogFails, LogCrash, LogTypeOK
  <2>6. logged' \subseteq 0..LogMaxRows
    <3>1. CASE Flush(w)
      BY <3>1 DEF Flush, LogTypeOK
    <3>2. CASE UNCHANGED logged
      BY <3>2 DEF LogTypeOK
    <3> QED
      BY <1>3, <3>1, <3>2 DEF LogStart, CheckHeader, Archive, MigrationFails, LogBegins,
                Open, LogFails, LogCrash
  <2>7. newFile' \in [Writers -> BOOLEAN]
    <3>1. CASE LogBegins(w)
      <4>1. newFile' = [newFile EXCEPT ![w] = ~There] /\ newFile \in [Writers -> BOOLEAN]
        BY <3>1 DEF LogBegins, LogTypeOK
      <4>2. (~There) \in BOOLEAN
        BY Zenon
      <4> QED
        BY <4>1, <4>2, Zenon
    <3>2. CASE UNCHANGED newFile
      BY <3>2 DEF LogTypeOK
    <3> QED
      BY <1>3, <3>1, <3>2 DEF LogStart, CheckHeader, Archive, MigrationFails, Open,
                Flush, LogFails, LogCrash
  <2>8. {overlapped', crossed'} \subseteq BOOLEAN
    <3>1. overlapped \in BOOLEAN /\ crossed \in BOOLEAN
      BY DEF LogTypeOK
    <3>2. overlapped' \in BOOLEAN
      BY <1>3, <3>1, Zenon DEF LogStart, CheckHeader, Archive, MigrationFails, LogBegins,
                Open, Flush, LogFails, LogCrash
    <3>3. crossed' \in BOOLEAN
      BY <1>3, <3>1, Zenon DEF LogStart, CheckHeader, Archive, MigrationFails, LogBegins,
                Open, Flush, LogFails, LogCrash
    <3> QED
      BY <3>2, <3>3
  <2> QED
    BY <1>1, <1>2, <2>1, <2>2, <2>3, <2>4, <2>5, <2>6, <2>7, <2>8 DEF LogTypeOK
<1>4. CASE UNCHANGED logVars
  BY <1>4 DEF logVars, jobVars, LogTypeOK
<1> QED
  BY <1>3, <1>4 DEF LogNext

LEMMA BakStep ==
    ASSUME LogTypeOK, FilesInv, BakInv, [LogNext]_logVars
    PROVE  BakInv'
<1> SUFFICES ASSUME ~ overlapped', NEW w \in Writers, step'[w] = "archive"
             PROVE  /\ bak'[w] \notin DOMAIN disk'
                    /\ \A v \in Writers : step'[v] = "archive" => v = w
  BY DEF BakInv
<1>1. ASSUME NEW v \in Writers, CheckHeader(v)
      PROVE  /\ bak'[w] \notin DOMAIN disk'
             /\ \A u \in Writers : step'[u] = "archive" => u = w
  <2>0. ~ overlapped /\ disk' = disk
    BY <1>1, Zenon DEF CheckHeader
  <2>1. CASE HeaderFits
    BY <1>1, <2>0, <2>1 DEF CheckHeader, Goes, BakInv, LogTypeOK
  <2>2. CASE ~ HeaderFits
    <3>1. \A u \in Writers : step[u] # "archive"
      BY <1>1, <2>2, Zenon DEF CheckHeader
    <3>2. w = v /\ \A u \in Writers : step'[u] = "archive" => u = w
      BY <1>1, <2>2, <3>1 DEF CheckHeader, Goes, LogTypeOK
    <3>3. bak'[w] = FreeBak
      BY <1>1, <2>2, <3>2 DEF CheckHeader, LogTypeOK
    <3>4. FreeBak \notin DOMAIN disk
      BY <1>1, FreeName DEF CheckHeader
    <3> QED
      BY <2>0, <3>2, <3>3, <3>4
  <2> QED
    BY <2>1, <2>2
<1>2. ASSUME NEW v \in Writers, Archive(v) PROVE FALSE
  <2>1. ~ overlapped /\ step[v] = "archive" /\ step[w] = "archive" /\ w # v
    BY <1>2 DEF Archive, Goes, LogTypeOK
  <2> QED
    BY <2>1 DEF BakInv
<1>3. ASSUME NEW v \in Writers, Open(v)
      PROVE  /\ bak'[w] \notin DOMAIN disk'
             /\ \A u \in Writers : step'[u] = "archive" => u = w
  <2>1. /\ ~ overlapped /\ bak' = bak /\ DOMAIN disk' = DOMAIN disk \cup {0}
        /\ \A u \in Writers : step'[u] = "archive" => step[u] = "archive"
    BY <1>3 DEF Open, Goes, LogTypeOK
  <2> QED
    BY <2>1 DEF BakInv, FilesInv
<1>4. ASSUME NEW v \in Writers, LogStart(v) \/ MigrationFails(v) \/ LogBegins(v)
                               \/ Flush(v) \/ LogFails(v) \/ LogCrash(v)
      PROVE  /\ bak'[w] \notin DOMAIN disk'
             /\ \A u \in Writers : step'[u] = "archive" => u = w
  <2>1. /\ ~ overlapped /\ bak' = bak
        /\ \A u \in Writers : step'[u] = "archive" => step[u] = "archive"
    BY <1>4 DEF LogStart, MigrationFails, LogBegins, Flush, LogFails, LogCrash, Goes,
                LogTypeOK
  <2>2. DOMAIN disk' = DOMAIN disk
    BY <1>4 DEF LogStart, MigrationFails, LogBegins, Flush, LogFails, LogCrash
  <2> QED
    BY <2>1, <2>2 DEF BakInv
<1>5. CASE UNCHANGED logVars
  BY <1>5 DEF logVars, jobVars, BakInv
<1> QED
  BY <1>1, <1>2, <1>3, <1>4, <1>5 DEF LogNext

(* What is written takes the last line of its file; the other lines stay.  *)
LEMMA FlushedLines ==
    ASSUME LogTypeOK, FilesInv, NEW w \in Writers, Flush(w)
    PROVE  LET h == handle[w]
               k == Len(disk[h]) + Len(Lines(w))
           IN  /\ h \in DOMAIN disk /\ DOMAIN disk' = DOMAIN disk
               /\ k \in DOMAIN disk'[h] /\ k \notin DOMAIN disk[h] /\ disk'[h][k] = row[w]
               /\ \A n \in DOMAIN disk : \A i \in DOMAIN disk[n] :
                     i \in DOMAIN disk'[n] /\ disk'[n][i] = disk[n][i]
               /\ \A n \in DOMAIN disk : \A i \in DOMAIN disk'[n] :
                     disk'[n][i] >= 0 => \/ n = h /\ i = k
                                         \/ i \in DOMAIN disk[n]
<1> DEFINE h == handle[w]
           L == OldHeader..LogMaxRows
           s == disk[h]
           t == Lines(w)
           k == Len(s) + Len(t)
<1>1. /\ h \in DOMAIN disk
      /\ disk' = [n \in DOMAIN disk |-> disk'[n]]
      /\ disk'[h] = s \o t
      /\ \A n \in DOMAIN disk : n # h => disk'[n] = disk[n]
  BY FlushedFiles
<1>2. s \in Seq(L) /\ t \in Seq(L)
  BY <1>1, LineFacts DEF FilesInv
<1>3. /\ Len(t) \in {1, 2} /\ t[Len(t)] = row[w]
      /\ \A i \in 1..Len(t) : t[i] >= 0 => i = Len(t)
  <2>1. CASE newFile[w]
    <3>1. Len(t) = 2 /\ t[1] = Header /\ t[2] = row[w]
      BY <2>1, LineFacts
    <3> HIDE DEF t
    <3> QED
      BY <3>1, LogFacts
  <2>2. CASE ~ newFile[w]
    <3>1. Len(t) = 1 /\ t[1] = row[w]
      BY <2>2, LineFacts
    <3> HIDE DEF t
    <3> QED
      BY <3>1
  <2> QED
    BY <2>1, <2>2
<1> HIDE DEF L, t
<1>4. /\ Len(s) \in Nat /\ DOMAIN s = 1..Len(s) /\ s \o t \in Seq(L)
      /\ Len(s \o t) = k /\ DOMAIN (s \o t) = 1..k
      /\ \A i \in 1..Len(s) : (s \o t)[i] = s[i]
      /\ \A i \in Len(s) + 1..k : (s \o t)[i] = t[i - Len(s)]
  <2> HIDE DEF s
  <2> QED
    BY <1>2, <1>3, ConcatProperties, LenProperties DEF k
<1> HIDE DEF s
<1>5. k \in 1..k /\ k \notin 1..Len(s) /\ (s \o t)[k] = row[w]
  BY <1>3, <1>4 DEF k
<1>6. \A i \in 1..k : (s \o t)[i] >= 0 => i = k \/ i \in 1..Len(s)
  BY <1>3, <1>4 DEF k
<1>7. DOMAIN disk' = DOMAIN disk
  BY <1>1
<1>8. \A n \in DOMAIN disk : \A i \in DOMAIN disk[n] :
         i \in DOMAIN disk'[n] /\ disk'[n][i] = disk[n][i]
  <2> SUFFICES ASSUME NEW n \in DOMAIN disk, NEW i \in DOMAIN disk[n]
               PROVE  i \in DOMAIN disk'[n] /\ disk'[n][i] = disk[n][i]
    OBVIOUS
  <2>1. CASE n = h
    <3>1. disk[n] = s /\ disk'[n] = s \o t
      BY <2>1, <1>1 DEF s
    <3>2. i \in 1..Len(s) /\ i \in 1..k
      BY <3>1, <1>3, <1>4 DEF k
    <3> QED
      BY <3>1, <3>2, <1>4
  <2>2. CASE n # h
    BY <2>2, <1>1
  <2> QED
    BY <2>1, <2>2
<1>9. \A n \in DOMAIN disk : \A i \in DOMAIN disk'[n] :
         disk'[n][i] >= 0 => (n = h /\ i = k) \/ i \in DOMAIN disk[n]
  <2> SUFFICES ASSUME NEW n \in DOMAIN disk, NEW i \in DOMAIN disk'[n],
                      disk'[n][i] >= 0
               PROVE  (n = h /\ i = k) \/ i \in DOMAIN disk[n]
    OBVIOUS
  <2>1. CASE n = h
    <3>1. disk[n] = s /\ disk'[n] = s \o t
      BY <2>1, <1>1 DEF s
    <3> QED
      BY <3>1, <2>1, <1>4, <1>6
  <2>2. CASE n # h
    BY <2>2, <1>1
  <2> QED
    BY <2>1, <2>2
<1> QED
  BY <1>1, <1>4, <1>5, <1>7, <1>8, <1>9 DEF s, t, k

LEMMA PlacesStep ==
    ASSUME LogTypeOK, FilesInv, BakInv, PlacesInv, [LogNext]_logVars
    PROVE  PlacesInv'
<1>1. ASSUME NEW w \in Writers, Archive(w) PROVE PlacesInv'
  <2> DEFINE Old(n) == IF n = bak[w] THEN 0 ELSE n
  <2>1. /\ There /\ bak[w] # 0 /\ UNCHANGED <<row, rows, logged, overlapped>>
        /\ \A v \in Writers : (step'[v] \in {"opening", "writing"}) <=> Logging(v)
    BY <1>1 DEF Archive, Goes, FilesInv, LogTypeOK, Logging
  <2>2. /\ DOMAIN disk' = (DOMAIN disk \cup {bak[w]}) \ {0}
        /\ \A n \in DOMAIN disk' : disk'[n] = disk[Old(n)] /\ Old(n) \in DOMAIN disk
        /\ \A n, m \in DOMAIN disk' : Old(n) = Old(m) => n = m
    <3>1. DOMAIN disk' = (DOMAIN disk \cup {bak[w]}) \ {0}
      BY <1>1 DEF Archive
    <3>2. \A n \in DOMAIN disk' : disk'[n] = disk[Old(n)]
      BY <1>1, <3>1 DEF Archive
    <3> QED
      BY <3>1, <3>2, <2>1 DEF There
  <2>3. ~ overlapped' => \A r \in logged' :
           \E n \in DOMAIN disk' : \E i \in DOMAIN disk'[n] : disk'[n][i] = r
    <3> SUFFICES ASSUME ~ overlapped', NEW r \in logged'
                 PROVE  \E n \in DOMAIN disk' : \E i \in DOMAIN disk'[n] : disk'[n][i] = r
      OBVIOUS
    <3>1. ~ overlapped /\ r \in logged
      BY <2>1
    <3>2. bak[w] \notin DOMAIN disk
      BY <3>1, <1>1 DEF BakInv, Archive
    <3>3. PICK m \in DOMAIN disk : \E i \in DOMAIN disk[m] : disk[m][i] = r
      BY <3>1 DEF PlacesInv
    <3>4. \E n \in DOMAIN disk' : Old(n) = m
      <4>1. CASE m = 0
        BY <4>1, <2>1, <2>2
      <4>2. CASE m # 0
        BY <4>2, <2>2, <3>2
      <4> QED
        BY <4>1, <4>2
    <3>5. PICK n \in DOMAIN disk' : Old(n) = m
      BY <3>4
    <3>6. disk'[n] = disk[m]
      BY <3>5, <2>2
    <3> QED
      BY <3>3, <3>6
  <2> HIDE DEF Old
  <2>4. \A n \in DOMAIN disk' : \A i \in DOMAIN disk'[n] : disk'[n][i] >= 0 =>
           /\ disk'[n][i] \in logged'
           /\ \A m \in DOMAIN disk' : \A j \in DOMAIN disk'[m] :
                 disk'[m][j] = disk'[n][i] => m = n /\ j = i
    BY <2>1, <2>2 DEF PlacesInv
  <2> QED
    BY <2>1, <2>3, <2>4 DEF PlacesInv, Logging
<1>2. ASSUME NEW w \in Writers, Open(w) PROVE PlacesInv'
  <2>1. /\ UNCHANGED <<row, rows, logged, overlapped>>
        /\ \A v \in Writers : (step'[v] \in {"opening", "writing"}) <=> Logging(v)
    BY <1>2 DEF Open, Goes, LogTypeOK, Logging
  <2>2. /\ DOMAIN disk' = DOMAIN disk \cup {0}
        /\ \A n \in DOMAIN disk : disk'[n] = disk[n]
        /\ 0 \notin DOMAIN disk => disk'[0] = << >>
    BY <1>2 DEF Open
  <2>3. \A n \in DOMAIN disk' : \A i \in DOMAIN disk'[n] :
           n \in DOMAIN disk /\ disk'[n] = disk[n]
    <3>1. DOMAIN << >> = {}
      OBVIOUS
    <3> QED
      BY <2>2, <3>1
  <2> QED
    BY <2>1, <2>2, <2>3 DEF PlacesInv, Logging
<1>3. ASSUME NEW w \in Writers, Flush(w) PROVE PlacesInv'
  <2> DEFINE h == handle[w]
             k == Len(disk[h]) + Len(Lines(w))
  <2>1. /\ h \in DOMAIN disk /\ DOMAIN disk' = DOMAIN disk
        /\ k \in DOMAIN disk'[h] /\ k \notin DOMAIN disk[h] /\ disk'[h][k] = row[w]
        /\ \A n \in DOMAIN disk : \A i \in DOMAIN disk[n] :
              i \in DOMAIN disk'[n] /\ disk'[n][i] = disk[n][i]
        /\ \A n \in DOMAIN disk : \A i \in DOMAIN disk'[n] :
              disk'[n][i] >= 0 => (n = h /\ i = k) \/ i \in DOMAIN disk[n]
    BY <1>3, FlushedLines
  <2>2. /\ Logging(w) /\ row' = row /\ rows' = rows /\ overlapped' = overlapped
        /\ logged' = logged \cup {row[w]}
        /\ row[w] \in 1..rows /\ row[w] \notin logged
        /\ \A v \in Writers : (step'[v] \in {"opening", "writing"}) <=> v # w /\ Logging(v)
    BY <1>3 DEF Flush, Goes, LogTypeOK, Logging, PlacesInv
  <2> HIDE DEF h, k
  <2>3. \A n \in DOMAIN disk' : \A i \in DOMAIN disk'[n] : disk'[n][i] >= 0 =>
           /\ disk'[n][i] \in logged'
           /\ \A m \in DOMAIN disk' : \A j \in DOMAIN disk'[m] :
                 disk'[m][j] = disk'[n][i] => m = n /\ j = i
    <3> SUFFICES ASSUME NEW n \in DOMAIN disk, NEW i \in DOMAIN disk'[n], disk'[n][i] >= 0
                 PROVE  /\ disk'[n][i] \in logged'
                        /\ \A m \in DOMAIN disk : \A j \in DOMAIN disk'[m] :
                              disk'[m][j] = disk'[n][i] => m = n /\ j = i
      BY <2>1
    <3>1. CASE i \in DOMAIN disk[n]
      BY <3>1, <2>1, <2>2 DEF PlacesInv
    <3>2. CASE n = h /\ i = k
      <4>1. disk'[n][i] = row[w]
        BY <3>2, <2>1
      <4>2. \A m \in DOMAIN disk : \A j \in DOMAIN disk[m] : disk'[m][j] # row[w]
        BY <2>1, <2>2 DEF PlacesInv
      <4> QED
        BY <3>2, <4>1, <4>2, <2>1, <2>2
    <3> QED
      BY <3>1, <3>2, <2>1
  <2>4. ~ overlapped' => \A r \in logged' :
           \E n \in DOMAIN disk' : \E i \in DOMAIN disk'[n] : disk'[n][i] = r
    BY <2>1, <2>2 DEF PlacesInv
  <2>5. logged' \subseteq 0..rows'
    <3>1. rows \in Nat /\ row[w] \in 0..rows
      BY <2>2, LogFacts DEF LogTypeOK
    <3>2. logged \subseteq 0..rows
      BY DEF PlacesInv
    <3> QED
      BY <2>2, <3>1, <3>2
  <2>6. \A v \in Writers : step'[v] \in {"opening", "writing"} =>
           /\ row'[v] \in 1..rows' /\ row'[v] \notin logged'
           /\ \A u \in Writers :
                 step'[u] \in {"opening", "writing"} /\ row'[u] = row'[v] => u = v
    BY <2>2 DEF PlacesInv
  <2> QED
    BY <2>3, <2>4, <2>5, <2>6 DEF PlacesInv, Logging
<1>4. ASSUME NEW w \in Writers, LogBegins(w) PROVE PlacesInv'
  <2>1. /\ UNCHANGED <<disk, logged, overlapped>> /\ rows' = rows + 1 /\ rows \in Nat
        /\ \A v \in Writers : row'[v] = IF v = w THEN rows + 1 ELSE row[v]
        /\ \A v \in Writers : v # w =>
              ((step'[v] \in {"opening", "writing"}) <=> Logging(v))
    BY <1>4, LogFacts DEF LogBegins, Goes, LogTypeOK, Logging
  <2> QED
    BY <2>1 DEF PlacesInv, Logging
<1>5. ASSUME NEW w \in Writers, LogStart(w) \/ CheckHeader(w) \/ MigrationFails(w)
                               \/ LogFails(w) \/ LogCrash(w)
      PROVE  PlacesInv'
  <2>1. /\ UNCHANGED <<disk, row, rows, logged>>
        /\ \A v \in Writers : (step'[v] \in {"opening", "writing"}) => Logging(v)
    BY <1>5 DEF LogStart, CheckHeader, MigrationFails, LogFails, LogCrash, Goes,
                LogTypeOK, Logging
  <2>2. ~ overlapped' => ~ overlapped
    BY <1>5, Zenon DEF LogStart, CheckHeader, MigrationFails, LogFails, LogCrash
  <2> QED
    BY <2>1, <2>2 DEF PlacesInv, Logging
<1>6. CASE UNCHANGED logVars
  BY <1>6 DEF logVars, jobVars, PlacesInv, Logging
<1> QED
  BY <1>1, <1>2, <1>3, <1>4, <1>5, <1>6 DEF LogNext

LEMMA HeaderStep ==
    ASSUME LogTypeOK, FilesInv, HeaderInv, [LogNext]_logVars
    PROVE  HeaderInv'
<1>0. \A w \in Writers : step[w] \in Steps
  BY DEF LogTypeOK
<1>1. ASSUME NEW w \in Writers, LogStart(w) PROVE HeaderInv'
  <2>1. /\ step[w] = "off" /\ UNCHANGED <<disk, newFile, handle>>
        /\ \A v \in Writers : step'[v] = IF v = w THEN "migrating" ELSE step[v]
        /\ starts' = starts + 1 /\ starts \in Nat
    BY <1>1, LogFacts DEF LogStart, Goes, LogTypeOK
  <2>2. starts' # 0
    BY <2>1
  <2>3. Busy' = Busy /\ HeaderFits' = HeaderFits /\ There' = There
    BY <2>1 DEF Busy, HeaderFits, There
  <2>4. ~ crossed' => ~ crossed \/ \A v \in Writers : step[v] = "off"
    BY <1>1, Zenon DEF LogStart
  <2>5. CASE ~ crossed
    <3>1. HeaderFits' \/ Fresh' \/ \E v \in Writers : step'[v] = "writing"
      BY <2>1, <2>3, <2>5 DEF HeaderInv, Fresh
    <3>2. \A v \in Writers : step'[v] = "writing" =>
             step[v] = "writing" /\ handle'[v] = handle[v] /\ newFile'[v] = newFile[v]
      BY <2>1
    <3>3. \A v \in Writers : step'[v] = "opening" => step[v] = "opening"
      BY <2>1
    <3> QED
      BY <2>1, <2>2, <2>3, <2>5, <3>1, <3>2, <3>3 DEF HeaderInv
  <2>6. CASE \A v \in Writers : step[v] = "off"
    <3>1. Fresh'
      BY <2>1, <2>6 DEF Fresh
    <3>2. Busy' = {} /\ \A v \in Writers : step'[v] \notin {"opening", "writing"}
      BY <2>1, <2>6 DEF Busy
    <3> QED
      BY <2>2, <3>1, <3>2 DEF HeaderInv
  <2>7. CASE crossed'
    BY <2>2, <2>7 DEF HeaderInv
  <2> QED
    BY <2>4, <2>5, <2>6, <2>7
<1>2. ASSUME NEW w \in Writers, CheckHeader(w) PROVE HeaderInv'
  <2>1. /\ step[w] = "migrating" /\ starts # 0 /\ UNCHANGED <<disk, newFile, handle, starts>>
        /\ \A v \in Writers :
              step'[v] = IF v # w THEN step[v]
                         ELSE IF HeaderFits THEN "idle" ELSE "archive"
    BY <1>2 DEF CheckHeader, Goes, LogTypeOK, HeaderInv
  <2>2. ~ crossed' => ~ crossed /\ \A v \in Writers : v # w => v \notin Busy
    BY <1>2, Zenon DEF CheckHeader, Crosses, Busy
  <2>3. HeaderFits' = HeaderFits /\ There' = There
    BY <2>1 DEF HeaderFits, There
  <2> SUFFICES ASSUME ~ crossed' PROVE HeaderInv'
    BY <2>1 DEF HeaderInv
  <2>4. \A v \in Writers : step[v] \notin {"opening", "writing"}
    BY <2>1, <2>2 DEF Busy
  <2>5. HeaderFits \/ Fresh
    BY <2>2, <2>4 DEF HeaderInv
  <2>6. \A v \in Writers : step'[v] \notin {"opening", "writing"}
    BY <2>1, <2>4
  <2>7. \A u, v \in Busy' : u = v
    BY <2>1, <2>2 DEF Busy
  <2>8. HeaderFits' \/ Fresh'
    BY <2>1, <2>3, <2>5 DEF Fresh
  <2> QED
    BY <2>1, <2>6, <2>7, <2>8 DEF HeaderInv
<1>3. ASSUME NEW w \in Writers, Archive(w) PROVE HeaderInv'
  <2>1. /\ step[w] = "archive" /\ starts # 0 /\ starts' = starts
        /\ \A v \in Writers : step'[v] = IF v # w THEN step[v] ELSE "idle"
    BY <1>3 DEF Archive, Goes, LogTypeOK, HeaderInv
  <2>2. ~ crossed' => ~ crossed /\ \A v \in Writers : v # w => v \notin Busy
    BY <1>3, Zenon DEF Archive, Crosses, Busy
  <2>3. 0 \notin DOMAIN disk'
    BY <1>3 DEF Archive
  <2> SUFFICES ASSUME ~ crossed' PROVE HeaderInv'
    BY <2>1 DEF HeaderInv
  <2>4. HeaderFits'
    BY <2>3 DEF HeaderFits, There
  <2>5. \A v \in Writers : v \notin Busy' /\ step'[v] \notin {"opening", "writing"}
    BY <2>1, <2>2 DEF Busy
  <2> QED
    BY <2>1, <2>4, <2>5 DEF HeaderInv, Busy
<1>4. ASSUME NEW w \in Writers, MigrationFails(w) \/ LogFails(w) PROVE HeaderInv'
  <2>1. crossed' /\ starts' = starts /\ step[w] # "off"
    BY <1>4 DEF MigrationFails, LogFails
  <2>2. starts # 0
    BY <2>1 DEF HeaderInv
  <2> QED
    BY <2>1, <2>2 DEF HeaderInv
<1>5. ASSUME NEW w \in Writers, LogBegins(w) PROVE HeaderInv'
  <2>1. /\ step[w] = "idle" /\ starts # 0 /\ UNCHANGED <<disk, handle, starts>>
        /\ \A v \in Writers : step'[v] = IF v # w THEN step[v] ELSE "opening"
    BY <1>5 DEF LogBegins, Goes, LogTypeOK, HeaderInv
  <2>2. newFile'[w] = ~There
    BY <1>5 DEF LogBegins, LogTypeOK
  <2>3. ~ crossed' => ~ crossed /\ \A v \in Writers : v # w => v \notin Busy
    BY <1>5, Zenon DEF LogBegins, Crosses, Busy
  <2>4. HeaderFits' = HeaderFits /\ There' = There
    BY <2>1 DEF HeaderFits, There
  <2> SUFFICES ASSUME ~ crossed' PROVE HeaderInv'
    BY <2>1 DEF HeaderInv
  <2>5. \A v \in Writers : step[v] \notin {"opening", "writing"}
    BY <2>1, <2>3 DEF Busy
  <2>6. HeaderFits
    BY <2>1, <2>3, <2>5 DEF HeaderInv, Fresh
  <2>7. /\ \A u, v \in Busy' : u = v
        /\ \A v \in Writers : step'[v] # "writing"
        /\ \A v \in Writers : step'[v] = "opening" => v = w
    BY <2>1, <2>3, <2>5 DEF Busy
  <2> QED
    BY <2>1, <2>2, <2>4, <2>6, <2>7 DEF HeaderInv
<1>6. ASSUME NEW w \in Writers, Open(w) PROVE HeaderInv'
  <2>1. /\ step[w] = "opening" /\ starts # 0
        /\ UNCHANGED <<newFile, starts, crossed>>
        /\ \A v \in Writers : step'[v] = IF v # w THEN step[v] ELSE "writing"
        /\ handle'[w] = 0
    BY <1>6 DEF Open, Goes, LogTypeOK, HeaderInv
  <2>2. /\ 0 \in DOMAIN disk'
        /\ disk'[0] = IF There THEN disk[0] ELSE << >>
    BY <1>6 DEF Open, There
  <2> SUFFICES ASSUME ~ crossed' PROVE HeaderInv'
    BY <2>1 DEF HeaderInv
  <2>3. /\ HeaderFits /\ newFile[w] = ~There
        /\ \A v \in Writers : v # w => v \notin Busy
    BY <2>1 DEF HeaderInv, Busy
  <2>4. /\ \A u, v \in Busy' : u = v
        /\ \A v \in Writers : step'[v] # "opening"
        /\ \A v \in Writers : step'[v] = "writing" => v = w
    BY <2>1, <2>3 DEF Busy
  <2>5. IF newFile'[w] THEN disk'[0] = << >> ELSE HeaderFits'
    <3>1. CASE There
      BY <3>1, <2>1, <2>2, <2>3 DEF HeaderFits, There
    <3>2. CASE ~ There
      BY <3>2, <2>1, <2>2, <2>3
    <3> QED
      BY <3>1, <3>2
  <2> QED
    BY <2>1, <2>2, <2>4, <2>5 DEF HeaderInv, There
<1>7. ASSUME NEW w \in Writers, Flush(w) PROVE HeaderInv'
  <2>1. /\ step[w] = "writing" /\ starts # 0
        /\ UNCHANGED <<newFile, handle, starts, crossed>>
        /\ \A v \in Writers : step'[v] = IF v # w THEN step[v] ELSE "idle"
    BY <1>7 DEF Flush, Goes, LogTypeOK, HeaderInv
  <2> SUFFICES ASSUME ~ crossed' PROVE HeaderInv'
    BY <2>1 DEF HeaderInv
  <2>2. /\ There /\ handle[w] = 0
        /\ IF newFile[w] THEN disk[0] = << >> ELSE HeaderFits
        /\ \A v \in Writers : v # w => v \notin Busy
    BY <2>1 DEF HeaderInv, Busy
  <2>3. \A v \in Writers : v \notin Busy' /\ step'[v] \notin {"opening", "writing"}
    BY <2>1, <2>2 DEF Busy
  <2>4. HeaderFits'
    <3>1. /\ disk'[0] = disk[0] \o Lines(w) /\ Lines(w) \in Seq(OldHeader..LogMaxRows)
          /\ disk[0] \in Seq(OldHeader..LogMaxRows)
      BY <1>7, <2>2, FlushedFiles, LineFacts DEF FilesInv, There
    <3>2. CASE newFile[w]
      <4>1. Lines(w) = <<Header, row[w]>> /\ disk[0] = << >>
        BY <2>2, <3>2, LineFacts
      <4>2. disk'[0] = Lines(w)
        BY <3>1, <4>1, ConcatEmptySeq
      <4> QED
        BY <4>1, <4>2 DEF HeaderFits
    <3>3. CASE ~ newFile[w]
      <4>1. disk[0] # << >> /\ disk[0][1] = Header
        BY <2>2, <3>3 DEF HeaderFits
      <4> DEFINE s == disk[0]
                 t == Lines(w)
                 L == OldHeader..LogMaxRows
      <4>2. s \in Seq(L) /\ t \in Seq(L) /\ s # << >> /\ s[1] = Header
        BY <3>1, <4>1
      <4> HIDE DEF s, t, L
      <4>3. s \o t # << >> /\ (s \o t)[1] = Header
        BY <4>2
      <4> QED
        BY <4>3, <3>1 DEF HeaderFits, s, t
    <3> QED
      BY <3>2, <3>3
  <2> QED
    BY <2>1, <2>3, <2>4 DEF HeaderInv, Busy
<1>8. ASSUME NEW w \in Writers, LogCrash(w) PROVE HeaderInv'
  <2>1. /\ step[w] # "off" /\ starts # 0 /\ UNCHANGED <<disk, newFile, handle, starts>>
        /\ \A v \in Writers : step'[v] = IF v # w THEN step[v] ELSE "off"
    BY <1>8 DEF LogCrash, Goes, LogTypeOK, HeaderInv
  <2>2. ~ crossed' => ~ crossed /\ step[w] = "idle"
    BY <1>8, Zenon DEF LogCrash
  <2> SUFFICES ASSUME ~ crossed' PROVE HeaderInv'
    BY <2>1 DEF HeaderInv
  <2>3. Busy' = Busy /\ HeaderFits' = HeaderFits /\ There' = There
    BY <2>1, <2>2 DEF Busy, HeaderFits, There
  <2>4. HeaderFits' \/ \E v \in Writers : step'[v] = "writing"
    BY <2>1, <2>2, <2>3 DEF HeaderInv, Fresh
  <2> QED
    BY <2>1, <2>2, <2>3, <2>4 DEF HeaderInv
<1>9. CASE UNCHANGED logVars
  BY <1>9 DEF logVars, jobVars, HeaderInv, Busy, HeaderFits, There, Fresh
<1> QED
  BY <1>1, <1>2, <1>3, <1>4, <1>5, <1>6, <1>7, <1>8, <1>9 DEF LogNext

LEMMA LogInitially ==
    ASSUME LogInit
    PROVE  LogTypeOK /\ FilesInv /\ BakInv /\ PlacesInv /\ HeaderInv
<1> DEFINE L == OldHeader..LogMaxRows
           O == <<OldHeader, OldRow>>
<1>1. /\ step = [w \in Writers |-> "off"] /\ rows = 0 /\ starts = 0
      /\ bak = [w \in Writers |-> 0] /\ row = [w \in Writers |-> 0]
      /\ newFile = [w \in Writers |-> FALSE] /\ handle = [w \in Writers |-> 0]
      /\ overlapped = FALSE /\ crossed = FALSE
  BY DEF LogInit
<1>2. /\ Migrating = {} /\ Busy = {} /\ Fresh
      /\ \A w \in Writers : step[w] \notin {"archive", "opening", "writing"}
  BY <1>1 DEF Migrating, Busy, Fresh
<1>3. /\ O \in Seq(L) /\ DOMAIN O = {1, 2} /\ O[1] = -2 /\ O[2] = 0
  BY LogFacts
<1>4. \/ disk = << >> /\ DOMAIN disk = {} /\ logged = {}
      \/ disk = [n \in {0} |-> O] /\ DOMAIN disk = {0} /\ disk[0] = O /\ logged = {0}
  BY LogFacts DEF LogInit
<1> HIDE DEF O
<1>5. disk = [n \in DOMAIN disk |-> disk[n]] /\ DOMAIN disk \subseteq Names
  <2>1. CASE disk = << >> /\ DOMAIN disk = {}
    <3>1. << >> \in [1..Len(<< >>) -> {}]
      BY EmptySeq, LenProperties
    <3>2. << >> = [n \in DOMAIN << >> |-> << >>[n]]
      BY <3>1
    <3> QED
      BY <2>1, <3>2
  <2>2. CASE disk = [n \in {0} |-> O] /\ DOMAIN disk = {0}
    BY <2>2, LogFacts DEF Names
  <2> QED
    BY <1>4, <2>1, <2>2
<1>6. \A n \in DOMAIN disk : disk[n] \in Seq(L) /\ n = 0 /\ disk[n] = O
  BY <1>3, <1>4
<1>7. DOMAIN disk \ {0} = {}
  BY <1>4
<1>8. FilesInv
  <2>1. Cardinality(DOMAIN disk \ {0}) + Cardinality(Migrating) <= starts
    BY <1>1, <1>2, <1>7, FS_EmptySet
  <2> QED
    BY <1>2, <1>5, <1>6, <2>1, FS_EmptySet DEF FilesInv
<1>9. LogTypeOK
  <2>1. \A n \in DOMAIN disk : \A i \in DOMAIN disk[n] : disk[n][i] \in L
    <3> HIDE DEF L
    <3> QED
      BY <1>6
  <2>2. newFile \in [Writers -> BOOLEAN] /\ {overlapped, crossed} \subseteq BOOLEAN
    BY <1>1
  <2>3. logged \subseteq 0..LogMaxRows
    BY <1>4, LogFacts
  <2> QED
    BY <1>1, <1>5, <2>1, <2>2, <2>3, LogFacts DEF LogTypeOK, Steps, Names
<1>10. PlacesInv
  <2>1. logged \subseteq 0..rows
    BY <1>1, <1>4
  <2>2. \A n \in DOMAIN disk : \A i \in DOMAIN disk[n] :
           disk[n][i] >= 0 => n = 0 /\ i = 2 /\ disk[n][i] = 0 /\ 0 \in logged
    <3>1. \A n \in DOMAIN disk : n = 0 /\ disk[n] = O /\ 0 \in logged
      BY <1>4
    <3>2. \A i \in DOMAIN O : O[i] >= 0 => i = 2 /\ O[i] = 0
      BY <1>3
    <3> QED
      BY <3>1, <3>2
  <2>3. \A r \in logged : \E n \in DOMAIN disk : \E i \in DOMAIN disk[n] : disk[n][i] = r
    BY <1>3, <1>4
  <2> QED
    BY <1>2, <2>1, <2>2, <2>3 DEF PlacesInv, Logging
<1>11. BakInv /\ HeaderInv
  BY <1>1, <1>2 DEF BakInv, HeaderInv
<1> QED
  BY <1>8, <1>9, <1>10, <1>11

LEMMA LogInvariant ==
    LogSpec => [](LogTypeOK /\ FilesInv /\ BakInv /\ PlacesInv /\ HeaderInv)
<1>1. LogTypeOK /\ FilesInv /\ BakInv /\ PlacesInv /\ HeaderInv /\ [LogNext]_logVars
        => (LogTypeOK /\ FilesInv /\ BakInv /\ PlacesInv /\ HeaderInv)'
  BY LogTypesStep, FilesStep, BakStep, PlacesStep, HeaderStep
<1> QED
  BY <1>1, LogInitially, PTL DEF LogSpec

(* In every run, with any number of processes, every row whose write        *)
(* returned is on disk, once, unless two processes archived at the same     *)
(* time; and the first line of the log is its header whenever nothing has   *)
(* gone wrong since a process last started alone (logger.py:26-80).         *)
THEOREM LogCorrect == LogSpec => []LogKept
<1>1. FilesInv /\ PlacesInv => RowsKept
  <2> SUFFICES ASSUME FilesInv, PlacesInv, ~ overlapped, NEW r \in logged
               PROVE  Cardinality(Places(r)) = 1
    BY DEF RowsKept
  <2>1. PICK n \in DOMAIN disk : \E i \in DOMAIN disk[n] : disk[n][i] = r
    BY DEF PlacesInv
  <2>2. PICK i \in DOMAIN disk[n] : disk[n][i] = r
    BY <2>1
  <2>3. r >= 0
    BY DEF PlacesInv
  <2>4. Places(r) = {<<n, i>>}
    <3> DEFINE p == <<n, i>>
    <3>1. p \in Places(r)
      BY <2>2 DEF Places
    <3>2. ASSUME NEW q \in Places(r) PROVE q = p
      <4>1. PICK m \in DOMAIN disk : q \in {m} \X DOMAIN disk[m]
        BY <3>2 DEF Places
      <4>2. q = <<m, q[2]>> /\ q[2] \in DOMAIN disk[m] /\ q[1] = m
        BY <4>1
      <4>3. disk[m][q[2]] = r
        BY <3>2, <4>2 DEF Places
      <4>4. m = n /\ q[2] = i
        BY <2>2, <2>3, <4>2, <4>3 DEF PlacesInv
      <4> QED
        BY <4>2, <4>4
    <3> QED
      BY <3>1, <3>2
  <2> QED
    BY <2>4, FS_Singleton
<1>2. HeaderInv => HeaderFirst
  BY DEF HeaderInv, HeaderFirst, Fresh
<1> QED
  BY <1>1, <1>2, LogInvariant, PTL DEF LogKept

-----------------------------------------------------------------------------
(* The liquidation cache.                                                  *)

(* The cache of a coin, evs, traces back to what was received for it: f    *)
(* says where each event came in, and only events older than a bound are   *)
(* missing.                                                                *)
Traces(f, c, evs, recd, bound) ==
    /\ f \in [DOMAIN evs -> DOMAIN recd]
    /\ \A i, j \in DOMAIN evs : f[i] = f[j] => i = j
    /\ \A i \in DOMAIN evs : recd[f[i]][1] = c /\ recd[f[i]][2] = evs[i]
    /\ \A j \in DOMAIN recd :
          recd[j][1] = c /\ (\A i \in DOMAIN evs : f[i] # j) => recd[j][2] < bound

Reports == Coins \X Int

(* Before an answer, and between a look and its end, the caches trace back *)
(* to all that came in, but for what is too old by the clock and the skew. *)
CacheInv ==
    /\ liqClock \in Nat
    /\ received \in Seq(Reports)
    /\ cached \in [Coins -> Seq(Int)]
    /\ look # None => look.coin \in Coins /\ look.now \in 0..liqClock
    /\ \A c \in Coins : \E f :
          Traces(f, c, cached[c], received, liqClock + Skew - MaxAge)

(* Where a cache holds an event a message came in, and a look that saw the *)
(* stream fresh is close enough to the last one.                           *)
FreshInv ==
    /\ lastMessage # None => lastMessage \in 0..liqClock
    /\ \A c \in Coins : cached[c] # <<>> => lastMessage # None
    /\ look # None /\ look.status = "FRESH" /\ lastMessage # None =>
          look.now - lastMessage <= LIQ_STALE_SECONDS

LEMMA LiqFacts ==
    /\ LIQ_STALE_SECONDS \in Nat /\ Delay \in Nat /\ Skew \in Nat
    /\ None \notin Nat
    /\ MaxAge \in Nat /\ \A w \in Windows : w \in Nat /\ w <= MaxAge
<1>1. MaxAge \in Windows /\ \A w \in Windows : MaxAge >= w
  BY LiquidationAssumption DEF MaxAge, Max
<1> QED
  BY <1>1, LiquidationAssumption

(* What the pruning drops is at the head and too old. *)
LEMMA PrunedTail ==
    ASSUME NEW evs \in Seq(Int), NEW now \in Int
    PROVE  \E k \in 0..Len(evs) :
              /\ Pruned(evs, now) \in Seq(Int)
              /\ Len(Pruned(evs, now)) = Len(evs) - k
              /\ \A i \in 1..Len(evs) - k : Pruned(evs, now)[i] = evs[i + k]
              /\ \A i \in 1..k : evs[i] < now - MaxAge
<1> DEFINE young == {i \in DOMAIN evs : evs[i] >= now - MaxAge}
<1>0. Len(evs) \in Nat /\ DOMAIN evs = 1..Len(evs) /\ \A i \in 1..Len(evs) : evs[i] \in Int
  BY LenProperties
<1>1. CASE young = {}
  <2>1. Pruned(evs, now) = << >>
    BY <1>1 DEF Pruned
  <2>2. \A i \in 1..Len(evs) : evs[i] < now - MaxAge
    BY <1>0, <1>1, LiqFacts
  <2>3. << >> \in Seq(Int) /\ Len(<< >>) = 0
    OBVIOUS
  <2> HIDE DEF young
  <2>4. Len(evs) - Len(evs) = 0 /\ Len(evs) \in 0..Len(evs)
    BY <1>0
  <2>5. \A i \in 1..0 : FALSE
    OBVIOUS
  <2> QED
    BY <1>0, <2>1, <2>2, <2>3, <2>4, <2>5
<1>2. CASE young # {}
  <2> DEFINE m == Min(young)
             s == SubSeq(evs, m, Len(evs))
  <2>1. Pruned(evs, now) = s
    BY <1>2 DEF Pruned
  <2>2. m \in young /\ \A i \in young : m <= i
    <3>1. young \in SUBSET Nat
      BY <1>0
    <3> HIDE DEF young
    <3> QED
      BY <1>2, <3>1, LeastOf
  <2> HIDE DEF m
  <2>4. m \in 1..Len(evs)
    BY <2>2, <1>0
  <2>3. ASSUME NEW i \in 1..m - 1 PROVE evs[i] < now - MaxAge
    <3>1. i \in 1..Len(evs) /\ ~ (m <= i)
      BY <2>4, <1>0
    <3>2. i \notin young
      BY <3>1, <2>2
    <3> QED
      BY <3>1, <3>2, <1>0, LiqFacts
  <2>5. /\ s \in Seq(Int) /\ Len(s) = Len(evs) - m + 1
        /\ \A i \in 1..Len(evs) - m + 1 : s[i] = evs[i + m - 1]
    BY <2>4, <1>0, SubSeqProperties
  <2> HIDE DEF s
  <2> DEFINE k == m - 1
  <2>6. k \in 0..Len(evs) /\ Len(s) = Len(evs) - k
    BY <2>4, <2>5, <1>0
  <2>7. \A i \in 1..Len(evs) - k : s[i] = evs[i + k]
    BY <2>4, <2>5, <1>0
  <2> QED
    BY <2>1, <2>3, <2>5, <2>6, <2>7
<1> QED
  BY <1>1, <1>2

LEMMA PrunedTraces ==
    ASSUME NEW c, NEW evs \in Seq(Int), NEW recd \in Seq(Reports), NEW bound \in Int,
           NEW now \in Int, now - MaxAge <= bound,
           NEW f, Traces(f, c, evs, recd, bound)
    PROVE  /\ Pruned(evs, now) \in Seq(Int)
           /\ \E g : Traces(g, c, Pruned(evs, now), recd, bound)
<1> DEFINE p == Pruned(evs, now)
<1>1. PICK k \in 0..Len(evs) :
         /\ p \in Seq(Int) /\ Len(p) = Len(evs) - k
         /\ \A i \in 1..Len(evs) - k : p[i] = evs[i + k]
         /\ \A i \in 1..k : evs[i] < now - MaxAge
  BY PrunedTail
<1> HIDE DEF p
<1>2. /\ Len(evs) \in Nat /\ DOMAIN evs = 1..Len(evs) /\ DOMAIN p = 1..Len(evs) - k
      /\ \A i \in 1..Len(evs) : evs[i] \in Int
  BY <1>1, LenProperties
<1> DEFINE g == [i \in DOMAIN p |-> f[i + k]]
<1>3. \A i \in DOMAIN p : i + k \in DOMAIN evs /\ p[i] = evs[i + k]
  <2> TAKE i \in DOMAIN p
  <2>1. i \in 1..Len(evs) - k
    BY <1>2
  <2>2. i + k \in 1..Len(evs)
    BY <2>1, <1>2
  <2> QED
    BY <2>1, <2>2, <1>1, <1>2
<1>4. g \in [DOMAIN p -> DOMAIN recd]
  BY <1>3 DEF Traces
<1>5. \A i, j \in DOMAIN p : g[i] = g[j] => i = j
  BY <1>2, <1>3 DEF Traces
<1>6. \A i \in DOMAIN p : recd[g[i]][1] = c /\ recd[g[i]][2] = p[i]
  BY <1>3 DEF Traces
<1>7. ASSUME NEW j \in DOMAIN recd, recd[j][1] = c, \A i \in DOMAIN p : g[i] # j
      PROVE  recd[j][2] < bound
  <2>1. CASE \A i \in DOMAIN evs : f[i] # j
    BY <1>7, <2>1 DEF Traces
  <2>2. ASSUME NEW i \in DOMAIN evs, f[i] = j PROVE recd[j][2] < bound
    <3>1. recd[j][2] = evs[i]
      BY <2>2 DEF Traces
    <3>2. i \in 1..k
      <4> SUFFICES ASSUME i \notin 1..k PROVE FALSE
        OBVIOUS
      <4>1. i - k \in DOMAIN p /\ (i - k) + k = i
        BY <1>1, <1>2
      <4>2. g[i - k] = j
        BY <4>1, <2>2
      <4> QED
        BY <4>1, <4>2, <1>7
    <3>3. evs[i] < now - MaxAge
      BY <1>1, <3>2
    <3>4. evs[i] \in Int
      BY <1>2
    <3> QED
      BY <3>1, <3>3, <3>4, LiqFacts
  <2> QED
    BY <2>1, <2>2
<1> HIDE DEF g
<1>8. Traces(g, c, p, recd, bound)
  BY <1>4, <1>5, <1>6, <1>7 DEF Traces
<1> QED
  BY <1>1, <1>8 DEF p

LEMMA ReceivedTraces ==
    ASSUME NEW c \in Coins, NEW at \in Int, NEW d \in Coins, NEW evs \in Seq(Int),
           NEW recd \in Seq(Reports), NEW bound, NEW f, Traces(f, d, evs, recd, bound)
    PROVE  LET now == IF d = c THEN Append(evs, at) ELSE evs
           IN  /\ now \in Seq(Int)
               /\ \E g : Traces(g, d, now, Append(recd, <<c, at>>), bound)
<1> DEFINE r == Append(recd, <<c, at>>)
           n == Len(recd) + 1
           e == Append(evs, at)
           m == Len(evs) + 1
<1>1. /\ Len(recd) \in Nat /\ DOMAIN recd = 1..Len(recd) /\ DOMAIN r = 1..n
      /\ \A j \in 1..Len(recd) : r[j] = recd[j]
      /\ r[n] = <<c, at>>
  <2>1. <<c, at>> \in Reports
    BY DEF Reports
  <2> QED
    BY <2>1, AppendProperties, LenProperties
<1>2. /\ Len(evs) \in Nat /\ DOMAIN evs = 1..Len(evs)
      /\ e \in Seq(Int) /\ DOMAIN e = 1..m
      /\ \A i \in 1..Len(evs) : e[i] = evs[i]
      /\ e[m] = at
  BY AppendProperties, LenProperties
<1> HIDE DEF r, e
<1>3. CASE d = c
  <2> DEFINE g == [i \in 1..m |-> IF i = m THEN n ELSE f[i]]
  <2>0. \A i \in 1..m : i # m => i \in DOMAIN evs /\ f[i] \in DOMAIN recd /\ f[i] # n
    BY <1>1, <1>2 DEF Traces
  <2>1. g \in [DOMAIN e -> DOMAIN r]
    BY <1>1, <1>2, <2>0
  <2>2. \A i, j \in DOMAIN e : g[i] = g[j] => i = j
    <3> HIDE DEF g, m, n
    <3>1. \A i, j \in DOMAIN evs : f[i] = f[j] => i = j
      BY Zenon DEF Traces
    <3>2. \A i \in DOMAIN e : IF i = m THEN g[i] = n
                             ELSE i \in DOMAIN evs /\ g[i] = f[i] /\ g[i] # n
      BY <1>2, <2>0 DEF g
    <3> QED
      BY <3>1, <3>2
  <2>3. \A i \in DOMAIN e : r[g[i]][1] = d /\ r[g[i]][2] = e[i]
    BY <1>1, <1>2, <2>0, <1>3 DEF Traces
  <2>4. \A j \in DOMAIN r : r[j][1] = d /\ (\A i \in DOMAIN e : g[i] # j) => r[j][2] < bound
    <3> SUFFICES ASSUME NEW j \in DOMAIN r, r[j][1] = d, \A i \in DOMAIN e : g[i] # j
                 PROVE  r[j][2] < bound
      OBVIOUS
    <3>1. m \in DOMAIN e /\ g[m] = n
      BY <1>2
    <3>2. j \in DOMAIN recd /\ r[j] = recd[j]
      <4>1. j # n /\ j \in 1..n
        BY <3>1, <1>1
      <4>2. j \in 1..Len(recd)
        BY <4>1, <1>1
      <4> QED
        BY <4>2, <1>1
    <3>3. \A i \in DOMAIN evs : i \in DOMAIN e /\ g[i] = f[i]
      BY <1>2
    <3>4. recd[j][1] = d /\ (\A i \in DOMAIN evs : f[i] # j) => recd[j][2] < bound
      BY <3>2 DEF Traces
    <3>5. \A i \in DOMAIN evs : f[i] # j
      BY <3>3
    <3> QED
      BY <3>2, <3>4, <3>5
  <2> HIDE DEF g
  <2>5. Traces(g, d, e, r, bound)
    BY <2>1, <2>2, <2>3, <2>4 DEF Traces
  <2> QED
    BY <2>5, <1>2, <1>3 DEF e, r
<1>4. CASE d # c
  <2>1. /\ f \in [DOMAIN evs -> DOMAIN recd]
        /\ \A i, j \in DOMAIN evs : f[i] = f[j] => i = j
        /\ \A i \in DOMAIN evs : recd[f[i]][1] = d /\ recd[f[i]][2] = evs[i]
        /\ \A j \in DOMAIN recd :
              recd[j][1] = d /\ (\A i \in DOMAIN evs : f[i] # j) => recd[j][2] < bound
    BY DEF Traces
  <2>2. /\ \A j \in DOMAIN recd : j \in DOMAIN r /\ r[j] = recd[j]
        /\ \A j \in DOMAIN r : j \in DOMAIN recd \/ r[j][1] # d
    <3>1. r[n][1] # d
      BY <1>1, <1>4
    <3> QED
      BY <1>1, <3>1
  <2>3. f \in [DOMAIN evs -> DOMAIN r]
    BY <2>1, <2>2
  <2>4. \A i \in DOMAIN evs : r[f[i]][1] = d /\ r[f[i]][2] = evs[i]
    BY <2>1, <2>2
  <2>5. \A j \in DOMAIN r :
          r[j][1] = d /\ (\A i \in DOMAIN evs : f[i] # j) => r[j][2] < bound
    BY <2>1, <2>2
  <2>6. Traces(f, d, evs, r, bound)
    BY <2>1, <2>3, <2>4, <2>5, Zenon DEF Traces
  <2> QED
    BY <2>6, <1>4 DEF r
<1> QED
  BY <1>3, <1>4

LEMMA CacheStep ==
    ASSUME CacheInv, [LiqNext]_liqVars
    PROVE  CacheInv'
<1> DEFINE Bound == liqClock + Skew - MaxAge
<1>0. /\ liqClock \in Nat /\ Bound \in Int /\ received \in Seq(Reports)
      /\ cached \in [Coins -> Seq(Int)]
  BY LiqFacts DEF CacheInv
<1>1. ASSUME NEW c \in Coins, NEW at \in (liqClock - Delay)..(liqClock + Skew),
             Message(c, at)
      PROVE  CacheInv'
  <2>1. /\ liqClock' = liqClock /\ look' = look
        /\ received' = Append(received, <<c, at>>)
        /\ cached' = [d \in Coins |->
              Pruned(IF d = c THEN Append(cached[d], at) ELSE cached[d], at)]
    BY <1>1 DEF Message
  <2>2. at \in Int /\ at - MaxAge <= Bound
    BY <1>0, LiqFacts
  <2>3. <<c, at>> \in Reports
    BY <2>2 DEF Reports
  <2>4. received' \in Seq(Reports)
    BY <2>1, <2>3, <1>0, AppendProperties
  <2> HIDE DEF Bound
  <2>5. ASSUME NEW d \in Coins
        PROVE  cached'[d] \in Seq(Int) /\ \E g : Traces(g, d, cached'[d], received', Bound)
    <3> DEFINE now == IF d = c THEN Append(cached[d], at) ELSE cached[d]
    <3>1. PICK f : Traces(f, d, cached[d], received, Bound)
      BY DEF CacheInv, Bound
    <3>2. cached[d] \in Seq(Int)
      BY <1>0
    <3>3. now \in Seq(Int) /\ \E g : Traces(g, d, now, received', Bound)
      BY <3>1, <3>2, <1>0, <2>1, <2>2, ReceivedTraces
    <3>4. cached'[d] = Pruned(now, at)
      BY <2>1
    <3> HIDE DEF now
    <3>5. PICK g : Traces(g, d, now, received', Bound)
      BY <3>3
    <3> QED
      BY <3>3, <3>4, <3>5, <2>2, <2>4, <1>0, PrunedTraces
  <2>6. cached' \in [Coins -> Seq(Int)]
    <3>1. cached' = [d \in Coins |-> cached'[d]]
      BY <2>1
    <3> QED
      BY <3>1, <2>5
  <2> QED
    BY <2>1, <2>4, <2>5, <2>6 DEF CacheInv, Bound
<1>2. CASE LookEnds
  <2>1. /\ liqClock' = liqClock /\ look' = None /\ received' = received
        /\ look.coin \in Coins /\ look.now \in 0..liqClock
        /\ cached' = [d \in Coins |-> Pruned(cached[d], look.now)]
    BY <1>2 DEF LookEnds, CacheInv
  <2>2. look.now \in Int /\ look.now - MaxAge <= Bound
    BY <1>0, <2>1, LiqFacts
  <2> HIDE DEF Bound
  <2>3. ASSUME NEW d \in Coins
        PROVE  cached'[d] \in Seq(Int) /\ \E g : Traces(g, d, cached'[d], received, Bound)
    <3>1. PICK f : Traces(f, d, cached[d], received, Bound)
      BY DEF CacheInv, Bound
    <3>2. cached[d] \in Seq(Int) /\ cached'[d] = Pruned(cached[d], look.now)
      BY <1>0, <2>1
    <3> QED
      BY <3>1, <3>2, <2>2, <1>0, PrunedTraces
  <2>4. cached' \in [Coins -> Seq(Int)]
    <3>1. cached' = [d \in Coins |-> cached'[d]]
      BY <2>1
    <3> QED
      BY <3>1, <2>3
  <2> QED
    BY <1>0, <2>1, <2>3, <2>4 DEF CacheInv, Bound
<1>3. CASE LiqTick
  <2>1. liqClock' = liqClock + 1 /\ UNCHANGED <<look, received, cached>>
    BY <1>3 DEF LiqTick
  <2>2. \A c \in Coins : \E f :
           Traces(f, c, cached[c], received, liqClock' + Skew - MaxAge)
    <3> SUFFICES ASSUME NEW c \in Coins
                 PROVE  \E f : Traces(f, c, cached[c], received, liqClock' + Skew - MaxAge)
      OBVIOUS
    <3>1. PICK f : Traces(f, c, cached[c], received, Bound)
      BY DEF CacheInv
    <3>2. \A j \in DOMAIN received : received[j][2] \in Int
      BY <1>0 DEF Reports
    <3>3. \A x \in Int : x < Bound => x < liqClock' + Skew - MaxAge
      BY <1>0, <2>1, LiqFacts
    <3> HIDE DEF Bound
    <3>4. Traces(f, c, cached[c], received, liqClock' + Skew - MaxAge)
      BY <3>1, <3>2, <3>3 DEF Traces
    <3> QED
      BY <3>4
  <2> QED
    BY <1>0, <2>1, <2>2 DEF CacheInv
<1>4. ASSUME NEW c \in Coins, LookBegins(c) PROVE CacheInv'
  <2>1. /\ UNCHANGED <<liqClock, received, cached>>
        /\ look' = [coin |-> c, now |-> liqClock, status |-> StreamState]
    BY <1>4 DEF LookBegins
  <2>2. look'.coin = c /\ look'.now = liqClock
    BY <2>1
  <2> QED
    BY <1>0, <2>1, <2>2 DEF CacheInv
<1>5. CASE Connect \/ Disconnect \/ Used
  BY <1>5 DEF Connect, Disconnect, Used, CacheInv
<1>6. CASE UNCHANGED liqVars
  BY <1>6 DEF liqVars, CacheInv
<1> QED
  BY <1>1, <1>2, <1>3, <1>4, <1>5, <1>6 DEF LiqNext

LEMMA FreshStep ==
    ASSUME CacheInv, FreshInv, [LiqNext]_liqVars
    PROVE  FreshInv'
<1>0. /\ liqClock \in Nat /\ LIQ_STALE_SECONDS \in Nat
      /\ look # None => look.now \in 0..liqClock
  BY LiqFacts DEF CacheInv
<1>1. ASSUME NEW c \in Coins, NEW at, Message(c, at) PROVE FreshInv'
  <2>1. lastMessage' = liqClock /\ liqClock' = liqClock /\ look' = look
    BY <1>1 DEF Message
  <2>2. lastMessage' # None
    BY <2>1, <1>0, LiqFacts
  <2>3. look' # None => look'.now - lastMessage' <= LIQ_STALE_SECONDS
    BY <2>1, <1>0
  <2> QED
    BY <2>1, <2>2, <2>3, <1>0 DEF FreshInv
<1>2. CASE LookEnds
  <2>1. /\ UNCHANGED <<liqClock, lastMessage>> /\ look' = None
        /\ look.now \in Int
        /\ cached' = [d \in Coins |-> Pruned(cached[d], look.now)]
    BY <1>2, <1>0 DEF LookEnds
  <2>2. ASSUME NEW c \in Coins, cached'[c] # << >> PROVE cached[c] # << >>
    <3> SUFFICES ASSUME cached[c] = << >> PROVE FALSE
      OBVIOUS
    <3>1. << >> \in Seq(Int) /\ Len(<< >>) = 0
      OBVIOUS
    <3>2. PICK k \in 0..Len(<< >>) :
             /\ Pruned(<< >>, look.now) \in Seq(Int)
             /\ Len(Pruned(<< >>, look.now)) = Len(<< >>) - k
      BY <3>1, <2>1, PrunedTail
    <3>3. Len(Pruned(<< >>, look.now)) = 0
      BY <3>1, <3>2
    <3>4. Pruned(<< >>, look.now) = << >>
      BY <3>2, <3>3, EmptySeq
    <3> QED
      BY <3>4, <2>1, <2>2
  <2> QED
    BY <2>1, <2>2 DEF FreshInv
<1>3. CASE LiqTick
  BY <1>3, <1>0 DEF LiqTick, FreshInv
<1>4. ASSUME NEW c \in Coins, LookBegins(c) PROVE FreshInv'
  <2>1. /\ UNCHANGED <<liqClock, lastMessage, cached>>
        /\ look' = [coin |-> c, now |-> liqClock, status |-> StreamState]
    BY <1>4 DEF LookBegins
  <2>2. look'.now = liqClock /\ look'.status = StreamState
    BY <2>1
  <2>3. StreamState = "FRESH" /\ lastMessage # None =>
           liqClock - lastMessage <= LIQ_STALE_SECONDS
    BY DEF StreamState, Baseline
  <2> QED
    BY <2>1, <2>2, <2>3 DEF FreshInv
<1>5. CASE Connect \/ Disconnect \/ Used
  BY <1>5 DEF Connect, Disconnect, Used, FreshInv
<1>6. CASE UNCHANGED liqVars
  BY <1>6 DEF liqVars, FreshInv
<1> QED
  BY <1>1, <1>2, <1>3, <1>4, <1>5, <1>6 DEF LiqNext

(* The events of a coin among those received that are young enough. *)
Heard(recd, c, now, seconds) ==
    {j \in 1..Len(recd) : recd[j][1] = c /\ now - recd[j][2] <= seconds}

(* What a cache that traces back to the events counts, against the events. *)
LEMMA CountTraces ==
    ASSUME NEW c, NEW evs \in Seq(Int), NEW recd \in Seq(Reports), NEW bound \in Int,
           NEW f, Traces(f, c, evs, recd, bound),
           NEW now \in Int, NEW seconds \in Int
    PROVE  /\ Count(evs, now, seconds) <= Cardinality(Heard(recd, c, now, seconds))
           /\ \A taken, s \in Int :
                 now <= taken /\ s <= seconds /\ bound <= taken - s =>
                    Cardinality(Heard(recd, c, taken, s)) <= Count(evs, now, seconds)
<1> DEFINE counted == {i \in DOMAIN evs : now - evs[i] <= seconds}
<1>0. /\ Len(recd) \in Nat /\ DOMAIN recd = 1..Len(recd)
      /\ Len(evs) \in Nat /\ DOMAIN evs = 1..Len(evs)
      /\ \A i \in DOMAIN evs : evs[i] \in Int
      /\ \A j \in DOMAIN recd : recd[j][2] \in Int
  BY LenProperties DEF Reports
<1>1. IsFiniteSet(counted)
  <2>1. counted \in SUBSET (1..Len(evs)) /\ IsFiniteSet(1..Len(evs))
    BY <1>0, FS_Interval
  <2> QED
    BY <2>1, FS_Subset
<1>2. \A t, s : IsFiniteSet(Heard(recd, c, t, s))
  <2> TAKE t, s
  <2>1. Heard(recd, c, t, s) \in SUBSET (1..Len(recd)) /\ IsFiniteSet(1..Len(recd))
    BY <1>0, FS_Interval DEF Heard
  <2> QED
    BY <2>1, FS_Subset
<1>3. Count(evs, now, seconds) = Cardinality(counted)
  BY DEF Count
<1>4. Cardinality(counted) <= Cardinality(Heard(recd, c, now, seconds))
  <2> DEFINE g == [i \in counted |-> f[i]]
             T == Heard(recd, c, now, seconds)
  <2>1. g \in [counted -> T]
    BY <1>0 DEF Traces, Heard
  <2>2. \A i, j \in counted : g[i] = g[j] => i = j
    BY DEF Traces
  <2>3. IsFiniteSet(T)
    BY <1>2
  <2> HIDE DEF g, T, counted
  <2>4. g \in Injection(counted, T)
    BY <2>1, <2>2 DEF Injection, IsInjective
  <2>5. Cardinality(counted) <= Cardinality(T)
    BY <2>3, <2>4, FS_Injection
  <2> QED
    BY <2>5 DEF T
<1>5. ASSUME NEW taken \in Int, NEW s \in Int,
             now <= taken, s <= seconds, bound <= taken - s
      PROVE  Cardinality(Heard(recd, c, taken, s)) <= Cardinality(counted)
  <2> DEFINE T == Heard(recd, c, taken, s)
             At(j) == CHOOSE i \in counted : f[i] = j
             g == [j \in T |-> At(j)]
  <2>1. ASSUME NEW j \in T PROVE At(j) \in counted /\ f[At(j)] = j
    <3>1. j \in DOMAIN recd /\ recd[j][1] = c /\ taken - recd[j][2] <= s
      BY <1>0 DEF Heard
    <3>2. ~ (recd[j][2] < bound)
      BY <3>1, <1>0, <1>5
    <3>3. PICK i \in DOMAIN evs : f[i] = j
      BY <3>1, <3>2 DEF Traces
    <3>4. evs[i] = recd[j][2]
      BY <3>3 DEF Traces
    <3>5. now - evs[i] <= seconds
      BY <3>1, <3>4, <1>0, <1>5
    <3> QED
      BY <3>3, <3>5
  <2> HIDE DEF At, T, counted
  <2>2. g \in [T -> counted] /\ \A i, j \in T : g[i] = g[j] => i = j
    BY <2>1
  <2> HIDE DEF g
  <2>3. g \in Injection(T, counted)
    BY <2>2 DEF Injection, IsInjective
  <2>4. Cardinality(T) <= Cardinality(counted)
    BY <2>3, <1>1, FS_Injection
  <2> QED
    BY <2>4 DEF T
<1> QED
  BY <1>3, <1>4, <1>5

LEMMA SummaryStep ==
    ASSUME CacheInv, FreshInv, SummaryHonest, [LiqNext]_liqVars
    PROVE  SummaryHonest'
<1>1. CASE LookEnds
  <2> DEFINE c == look.coin
             now == look.now
             evs == cached'[c]
             Bound == liqClock + Skew - MaxAge
  <2>0. CacheInv' /\ FreshInv'
    BY <1>1, CacheStep, FreshStep DEF LiqNext
  <2>1. /\ look # None /\ c \in Coins /\ now \in 0..liqClock /\ liqClock \in Nat
        /\ UNCHANGED <<liqClock, received, lastMessage>>
    BY <1>1 DEF LookEnds, CacheInv
  <2>2. /\ received \in Seq(Reports) /\ evs \in Seq(Int)
        /\ \E f : Traces(f, c, evs, received, Bound)
    BY <2>0, <2>1 DEF CacheInv
  <2>3. answer' = [coin |-> c, now |-> now, taken |-> liqClock, heard |-> Len(received),
                   counts |-> [w \in Windows |-> Count(evs, now, w)],
                   available |-> evs # << >> /\ look.status = "FRESH"]
    BY <1>1 DEF LookEnds
  <2>4. /\ answer'.coin = c /\ answer'.now = now /\ answer'.taken = liqClock
        /\ answer'.heard = Len(received)
        /\ \A w \in Windows : answer'.counts[w] = Count(evs, now, w)
        /\ answer'.available <=> (evs # << >> /\ look.status = "FRESH")
    <3> HIDE DEF evs, c, now
    <3>1. answer'.available = (evs # << >> /\ look.status = "FRESH")
      BY <2>3
    <3> QED
      BY <2>3, <3>1
  <2>5. ASSUME NEW w \in Windows
        PROVE  /\ answer'.counts[w] <= Cardinality(Heard(received, c, answer'.now, w))
               /\ answer'.counts[w] >=
                     Cardinality(Heard(received, c, answer'.taken,
                           IF w > MaxAge - Skew THEN MaxAge - Skew ELSE w))
    <3> DEFINE s == IF w > MaxAge - Skew THEN MaxAge - Skew ELSE w
    <3>1. w \in Int /\ s \in Int /\ s <= w /\ Bound <= liqClock - s /\ Bound \in Int
      BY <2>1, LiqFacts
    <3>2. now \in Int /\ liqClock \in Int /\ now <= liqClock
      BY <2>1
    <3>3. PICK f : Traces(f, c, evs, received, Bound)
      BY <2>2
    <3> HIDE DEF s, c, now, evs, Bound
    <3>4. /\ Count(evs, now, w) <= Cardinality(Heard(received, c, now, w))
          /\ \A taken, t \in Int : now <= taken /\ t <= w /\ Bound <= taken - t =>
                Cardinality(Heard(received, c, taken, t)) <= Count(evs, now, w)
      BY <2>2, <3>1, <3>2, <3>3, CountTraces
    <3>5. Cardinality(Heard(received, c, liqClock, s)) <= Count(evs, now, w)
      BY <3>1, <3>2, <3>4
    <3>6. /\ answer'.counts[w] = Count(evs, now, w) /\ answer'.now = now
          /\ answer'.taken = liqClock
      BY <2>4
    <3>7. Cardinality(Heard(received, c, liqClock, s)) \in Nat /\ Count(evs, now, w) \in Nat
      <4>1. IsFiniteSet(1..Len(received)) /\ Heard(received, c, liqClock, s) \in SUBSET (1..Len(received))
        BY <2>2, FS_Interval DEF Heard
      <4>2. IsFiniteSet(1..Len(evs)) /\ DOMAIN evs = 1..Len(evs)
        BY <2>2, FS_Interval
      <4> DEFINE counted == {i \in DOMAIN evs : now - evs[i] <= w}
      <4>3. counted \in SUBSET (1..Len(evs))
        BY <4>2
      <4> HIDE DEF counted
      <4>4. Cardinality(counted) \in Nat
        BY <4>2, <4>3, FS_Subset, FS_CardinalityType
      <4> QED
        BY <4>1, <4>4, FS_Subset, FS_CardinalityType DEF Count, counted
    <3> QED
      BY <3>4, <3>5, <3>6, <3>7 DEF s
  <2>6. WindowsComplete'
    BY <2>1, <2>4, <2>5 DEF WindowsComplete, Seen, Heard
  <2>7. AvailableMeansRecent'
    <3> SUFFICES ASSUME answer'.available
                 PROVE  lastMessage' # None /\ answer'.now - lastMessage' <= LIQ_STALE_SECONDS
      BY DEF AvailableMeansRecent
    <3>1. evs # << >> /\ look.status = "FRESH"
      BY <2>4
    <3>2. lastMessage' # None
      BY <2>0, <2>1, <3>1 DEF FreshInv
    <3> QED
      BY <2>1, <2>4, <3>1, <3>2 DEF FreshInv
  <2> QED
    BY <2>6, <2>7 DEF SummaryHonest
<1>2. CASE Used \/ (answer = None /\ (\/ Connect \/ Disconnect \/ LiqTick
                                      \/ \E c \in Coins : LookBegins(c)
                                      \/ \E c \in Coins, at \in Int : Message(c, at)))
  <2>1. answer' = None
    BY <1>2 DEF Used, Connect, Disconnect, LiqTick, LookBegins, Message
  <2> QED
    BY <2>1 DEF SummaryHonest, WindowsComplete, AvailableMeansRecent
<1>3. CASE UNCHANGED liqVars
  BY <1>3 DEF liqVars, SummaryHonest, WindowsComplete, AvailableMeansRecent, Seen
<1>4. \A at \in (liqClock - Delay)..(liqClock + Skew) : at \in Int
  OBVIOUS
<1> QED
  BY <1>1, <1>2, <1>3, <1>4 DEF LiqNext

LEMMA LiqInitially == LiqInit => CacheInv /\ FreshInv /\ SummaryHonest
<1> SUFFICES ASSUME LiqInit PROVE CacheInv /\ FreshInv /\ SummaryHonest
  OBVIOUS
<1>1. << >> \in Seq(Int) /\ << >> \in Seq(Reports) /\ DOMAIN << >> = {}
  OBVIOUS
<1>2. cached = [c \in Coins |-> << >>] /\ received = << >>
  BY DEF LiqInit
<1>3. CacheInv
  <2>1. ASSUME NEW c \in Coins
        PROVE  \E f : Traces(f, c, cached[c], received, liqClock + Skew - MaxAge)
    <3> DEFINE f == [i \in {} |-> i]
    <3>1. cached[c] = << >>
      BY <1>2
    <3>2. Traces(f, c, << >>, << >>, liqClock + Skew - MaxAge)
      BY <1>1 DEF Traces
    <3> QED
      BY <3>1, <3>2, <1>2
  <2>2. cached \in [Coins -> Seq(Int)] /\ received \in Seq(Reports)
    BY <1>1, <1>2
  <2> QED
    BY <2>1, <2>2 DEF LiqInit, CacheInv
<1>4. FreshInv /\ SummaryHonest
  BY <1>2 DEF LiqInit, FreshInv, SummaryHonest, WindowsComplete, AvailableMeansRecent
<1> QED
  BY <1>3, <1>4

LEMMA SummaryAlways == LiqSpec => [](CacheInv /\ FreshInv /\ SummaryHonest)
<1>1. CacheInv /\ FreshInv /\ SummaryHonest /\ [LiqNext]_liqVars
        => (CacheInv /\ FreshInv /\ SummaryHonest)'
  BY CacheStep, FreshStep, SummaryStep
<1> QED
  BY <1>1, LiqInitially, PTL DEF LiqSpec

(* In every run, for any windows, delays and skew, a summary counts no      *)
(* event older than the window and every event that came in and is young    *)
(* enough, but for the skew, and calls itself available only within         *)
(* LIQ_STALE_SECONDS of a message (liquidation.py:101-155).                 *)
THEOREM SummaryCorrect == LiqSpec => []SummaryHonest
  BY SummaryAlways, PTL

-----------------------------------------------------------------------------
(* The news engine.                                                        *)

Unwritten == {"record", "save", "writing"}

(* What is remembered or was sent is of the past. *)
NewsTimes ==
    /\ time \in Nat
    /\ \A e \in memory \cup file.entries : e.at \in 0..time
    /\ \A s \in alerts : s.at \in 0..time
    /\ incident \in {"none", "unsaved", "forgotten"}

(* No two stories of the memory, or of the file it is loaded from, are the *)
(* same, and a story that waits to be remembered is not known.             *)
StoriesInv ==
    /\ \A d, e \in Kept(memory) : d # e => ~SameStory(d.claims, e.claims)
    /\ \A d, e \in Kept(file.entries) : d # e => ~SameStory(d.claims, e.claims)
    /\ phase = "record" => ~Known(Story)

Remembers(entries, s) == \E e \in entries : e.claims = ClaimsOf(s.arts) /\ e.at >= s.at

(* Unless a crash forgot some, the memory has every alert that was sent,   *)
(* but the one that is about to be recorded.                               *)
AlertsInMemory ==
    incident # "forgotten" => \A s \in alerts : Told(s) =>
        \/ phase = "record" /\ s.arts = events[Up].arts
        \/ Remembers(memory, s)

LEMMA SameStorySymmetric ==
    ASSUME NEW x, NEW y
    PROVE  SameStory(x, y) <=> SameStory(y, x)
<1>1. x \cap y = y \cap x /\ x \cup y = y \cup x
  OBVIOUS
<1>2. x \cap Anchors \cap y = y \cap Anchors \cap x
  OBVIOUS
<1> QED
  BY <1>1, <1>2 DEF SameStory, AtLeast

LEMMA KeptFacts ==
    ASSUME NEW entries
    PROVE  /\ Kept(entries) \subseteq entries
           /\ Kept(Kept(entries)) = Kept(entries)
  BY DEF Kept

LEMMA NewsTimesStep == NewsTimes /\ [NewsNext]_newsVars => NewsTimes'
<1> SUFFICES ASSUME NewsTimes, [NewsNext]_newsVars PROVE NewsTimes'
  OBVIOUS
<1>0. time \in Nat /\ time \in 0..time
  BY DEF NewsTimes
<1>1. CASE Fetch \/ IngestEnds \/ PassOver \/ CycleEnds \/ Truncate \/ Ingest
  <2>1. memory' \in SUBSET memory
    <3>1. CASE Ingest
      BY <3>1 DEF Ingest, IngestNew, Kept
    <3>2. CASE PassOver
      BY <3>2 DEF PassOver, Kept
    <3> QED
      BY <1>1, <3>1, <3>2 DEF Fetch, IngestEnds, CycleEnds, Truncate
  <2>2. file'.entries \in SUBSET file.entries
    <3>1. CASE Truncate
      <4>1. file'.entries = {}
        BY <3>1 DEF Truncate
      <4> QED
        BY <4>1
    <3> QED
      BY <1>1, <3>1 DEF Fetch, IngestEnds, PassOver, CycleEnds, Ingest
  <2>3. UNCHANGED <<time, alerts, incident>>
    BY <1>1 DEF Fetch, IngestEnds, PassOver, CycleEnds, Truncate, Ingest
  <2> QED
    BY <2>1, <2>2, <2>3 DEF NewsTimes
<1>2. ASSUME NEW told \in BOOLEAN, NEW reached \in BOOLEAN, Send(told, reached)
      PROVE  NewsTimes'
  <2>1. /\ UNCHANGED <<time, file, incident>>
        /\ memory' \in SUBSET memory
        /\ \A s \in alerts' : s \in alerts \/ s.at = time
    BY <1>2 DEF Send, Kept
  <2> QED
    BY <2>1, <1>0 DEF NewsTimes
<1>3. CASE Record
  <2>1. /\ UNCHANGED <<time, file, incident, alerts>>
        /\ \A e \in memory' : e \in memory \/ e.at = time
    BY <1>3 DEF Record, Kept
  <2> QED
    BY <2>1, <1>0 DEF NewsTimes
<1>4. CASE Written
  <2>1. UNCHANGED <<time, memory, alerts>> /\ file'.entries = memory
        /\ incident' \in {incident, "none"}
    BY <1>4 DEF Written
  <2> QED
    BY <2>1 DEF NewsTimes
<1>5. CASE WriteFails
  BY <1>5 DEF WriteFails, NewsTimes
<1>6. CASE NewsTick
  <2>1. time' = time + 1 /\ \A t \in 0..time : t \in 0..time'
    BY <1>6, <1>0 DEF NewsTick
  <2> QED
    BY <2>1, <1>0, <1>6 DEF NewsTick, NewsTimes
<1>7. CASE NewsCrash
  <2>1. memory' \in SUBSET file.entries
    BY <1>7 DEF NewsCrash, Loaded, Kept
  <2> QED
    BY <2>1, <1>7 DEF NewsCrash, NewsTimes
<1>8. CASE UNCHANGED newsVars
  BY <1>8 DEF newsVars, NewsTimes
<1> QED
  BY <1>1, <1>2, <1>3, <1>4, <1>5, <1>6, <1>7, <1>8 DEF NewsNext

LEMMA StoriesStep == NewsTimes /\ StoriesInv /\ [NewsNext]_newsVars => StoriesInv'
<1> SUFFICES ASSUME NewsTimes, StoriesInv, [NewsNext]_newsVars PROVE StoriesInv'
  OBVIOUS
<1> DEFINE Distinct(entries) ==
              \A d, e \in entries : d # e => ~SameStory(d.claims, e.claims)
<1>0. Distinct(Kept(memory)) /\ Distinct(Kept(file.entries))
  BY DEF StoriesInv
<1>1. CASE Fetch \/ Ingest \/ IngestEnds \/ PassOver \/ CycleEnds
           \/ \E told, reached \in BOOLEAN : Send(told, reached)
  <2>1. UNCHANGED <<time, file>> /\ memory' \in {memory, Kept(memory)}
    BY <1>1 DEF Fetch, Ingest, IngestNew, IngestEnds, PassOver, CycleEnds, Send
  <2>2. Kept(memory)' = Kept(memory) /\ Kept(file.entries)' = Kept(file.entries)
    BY <2>1, KeptFacts DEF Kept
  <2>3. phase' = "record" => ~Known(Story) /\ UNCHANGED <<events, candidates>>
    BY <1>1 DEF Fetch, Ingest, IngestEnds, PassOver, CycleEnds, Send, MayPublish
  <2>4. phase' = "record" => ~Known(Story)'
    BY <2>2, <2>3 DEF Known, Story, Up
  <2> QED
    BY <1>0, <2>2, <2>4 DEF StoriesInv
<1>2. CASE Record
  <2>1. /\ UNCHANGED <<time, file>> /\ phase' = "save" /\ phase = "record"
        /\ memory' = Kept(memory \cup {[claims |-> Story, at |-> time]})
    BY <1>2 DEF Record
  <2> DEFINE new == [claims |-> Story, at |-> time]
  <2>2. new.claims = Story
    OBVIOUS
  <2>3. ~Known(Story)
    BY <2>1 DEF StoriesInv
  <2> HIDE DEF new
  <2>4. \A e \in Kept(memory) : ~SameStory(new.claims, e.claims) /\ ~SameStory(e.claims, new.claims)
    BY <2>2, <2>3, SameStorySymmetric DEF Known
  <2>5. \A e \in Kept(memory)' : e \in Kept(memory) \/ e = new
    BY <2>1 DEF Kept, new
  <2>6. Kept(file.entries)' = Kept(file.entries)
    BY <2>1 DEF Kept
  <2> QED
    BY <1>0, <2>1, <2>4, <2>5, <2>6 DEF StoriesInv
<1>3. CASE Truncate \/ Written \/ WriteFails
  <2>1. /\ UNCHANGED <<time, memory>> /\ phase' # "record"
        /\ file' = file \/ file'.entries = {} \/ file'.entries = memory
    BY <1>3 DEF Truncate, Written, WriteFails
  <2>2. Kept(memory)' = Kept(memory)
        /\ \/ Kept(file.entries)' = Kept(file.entries)
           \/ Kept(file.entries)' = {} \/ Kept(file.entries)' = Kept(memory)
    BY <2>1 DEF Kept
  <2> QED
    BY <1>0, <2>1, <2>2 DEF StoriesInv
<1>4. CASE NewsTick
  <2>1. UNCHANGED <<memory, file, events, candidates, phase>> /\ time' = time + 1
    BY <1>4 DEF NewsTick
  <2>2. \A x \in Int : x > time' - MEMORY => x > time - MEMORY
    BY <2>1, NewsAssumption DEF NewsTimes
  <2>3. Kept(memory)' \subseteq Kept(memory) /\ Kept(file.entries)' \subseteq Kept(file.entries)
    BY <2>1, <2>2 DEF Kept, NewsTimes
  <2>4. phase' = "record" => ~Known(Story)'
    BY <2>1, <2>3 DEF StoriesInv, Known, Story, Up
  <2> QED
    BY <1>0, <2>3, <2>4 DEF StoriesInv
<1>5. CASE NewsCrash
  <2>1. UNCHANGED <<time, file>> /\ phase' = "idle" /\ memory' \subseteq Kept(file.entries)
    BY <1>5 DEF NewsCrash, Loaded
  <2>2. Kept(memory)' \subseteq Kept(file.entries) /\ Kept(file.entries)' = Kept(file.entries)
    BY <2>1 DEF Kept
  <2> QED
    BY <1>0, <2>1, <2>2 DEF StoriesInv
<1>6. CASE UNCHANGED newsVars
  <2>1. UNCHANGED <<time, memory, file, events, candidates, phase>>
    BY <1>6 DEF newsVars
  <2>2. Kept(memory)' = Kept(memory) /\ Kept(file.entries)' = Kept(file.entries)
    BY <2>1 DEF Kept
  <2>3. phase' = "record" => ~Known(Story)'
    BY <2>1, <2>2 DEF StoriesInv, Known, Story, Up
  <2> QED
    BY <1>0, <2>2, <2>3 DEF StoriesInv
<1> QED
  BY <1>1, <1>2, <1>3, <1>4, <1>5, <1>6 DEF NewsNext

(* What is remembered of an alert that has not expired survives pruning.   *)
LEMMA RemembersKept ==
    ASSUME NewsTimes, NEW entries, \A e \in entries : e.at \in Int,
           NEW s \in alerts, Told(s), Remembers(entries, s)
    PROVE  Remembers(Kept(entries), s)
<1>1. PICK e \in entries : e.claims = ClaimsOf(s.arts) /\ e.at >= s.at
  BY DEF Remembers
<1>2. e.at > time - MEMORY
  BY <1>1, NewsAssumption DEF NewsTimes, Told
<1> QED
  BY <1>1, <1>2 DEF Remembers, Kept

LEMMA AlertsStep ==
    ASSUME NewsTimes, AlertsInMemory, AlertsOnDisk, [NewsNext]_newsVars
    PROVE  AlertsInMemory' /\ AlertsOnDisk'
<1> USE DEF Unwritten
<1>0. /\ time \in Nat /\ MEMORY \in Nat
      /\ \A e \in memory \cup file.entries : e.at \in Int
      /\ \A s \in alerts : s.at \in 0..time
  BY NewsAssumption DEF NewsTimes
<1>1. CASE Fetch \/ Ingest \/ IngestEnds \/ PassOver \/ CycleEnds
  <2>1. /\ UNCHANGED <<time, file, alerts, incident>> /\ memory' \in {memory, Kept(memory)}
        /\ phase \notin Unwritten /\ phase' \notin Unwritten
    BY <1>1 DEF Fetch, Ingest, IngestNew, IngestEnds, PassOver, CycleEnds
  <2>2. ASSUME incident # "forgotten", NEW s \in alerts, Told(s)
        PROVE  Remembers(memory', s)
    <3>1. Remembers(memory, s)
      BY <2>1, <2>2 DEF AlertsInMemory
    <3>2. Remembers(Kept(memory), s)
      BY <3>1, <2>2, <1>0, RemembersKept
    <3> QED
      BY <2>1, <3>1, <3>2
  <2>3. AlertsInMemory'
    BY <2>1, <2>2 DEF AlertsInMemory, Told, Remembers
  <2>4. AlertsOnDisk'
    BY <2>1 DEF AlertsOnDisk, Told
  <2> QED
    BY <2>3, <2>4
<1>2. ASSUME NEW told \in BOOLEAN, NEW reached \in BOOLEAN, Send(told, reached)
      PROVE  AlertsInMemory' /\ AlertsOnDisk'
  <2>1. /\ UNCHANGED <<time, file, events, incident>> /\ memory' = Kept(memory)
        /\ phase = "publish"
        /\ \A s \in alerts' : \/ s \in alerts
                              \/ s.told = told /\ s.arts = events[Up].arts
        /\ IF told THEN phase' = "record" /\ candidates' = candidates
           ELSE phase' = "publish"
    BY <1>2 DEF Send
  <2>2. ASSUME incident # "forgotten", NEW s \in alerts, Told(s)
        PROVE  Remembers(memory', s)
    <3>1. Remembers(memory, s)
      BY <2>1, <2>2 DEF AlertsInMemory
    <3> QED
      BY <3>1, <2>1, <2>2, <1>0, RemembersKept
  <2>3. told => Up' = Up
    BY <2>1 DEF Up
  <2>4. AlertsInMemory'
    <3> SUFFICES ASSUME incident # "forgotten", NEW s \in alerts', Told(s)
                 PROVE  \/ phase' = "record" /\ s.arts = events'[Up'].arts
                        \/ Remembers(memory', s)
      BY <2>1 DEF AlertsInMemory, Told, Remembers
    <3>1. CASE s \in alerts
      BY <3>1, <2>2
    <3>2. CASE s.told = told /\ s.arts = events[Up].arts
      BY <3>2, <2>1, <2>3 DEF Told
    <3> QED
      BY <3>1, <3>2, <2>1
  <2>5. AlertsOnDisk'
    <3> SUFFICES ASSUME phase' \notin Unwritten, incident = "none"
                 PROVE  AlertsOnDisk'
      BY <2>1 DEF AlertsOnDisk
    <3>1. ~ told
      BY <2>1
    <3>2. \A s \in alerts' : s \in alerts \/ ~ Told(s)
      BY <2>1, <3>1 DEF Told
    <3> QED
      BY <2>1, <3>2 DEF AlertsOnDisk, Told
  <2> QED
    BY <2>4, <2>5
<1>3. CASE Record
  <2> DEFINE new == [claims |-> Story, at |-> time]
  <2>1. /\ UNCHANGED <<time, incident, alerts>> /\ phase' = "save"
        /\ memory' = Kept(memory \cup {new})
    BY <1>3 DEF Record
  <2>2. ASSUME incident # "forgotten", NEW s \in alerts, Told(s)
        PROVE  Remembers(memory', s)
    <3>1. Remembers(memory \cup {new}, s)
      <4>1. CASE Remembers(memory, s)
        BY <4>1 DEF Remembers
      <4>2. CASE s.arts = events[Up].arts
        <5>1. new.claims = ClaimsOf(s.arts) /\ new.at = time
          BY <4>2 DEF Story
        <5>2. new.at >= s.at
          BY <5>1, <1>0
        <5> QED
          BY <5>1, <5>2 DEF Remembers
      <4> QED
        BY <4>1, <4>2, <2>2 DEF AlertsInMemory
    <3>2. \A e \in memory \cup {new} : e.at \in Int
      BY <1>0
    <3> QED
      BY <3>1, <3>2, <2>1, <2>2, RemembersKept
  <2>3. AlertsInMemory'
    BY <2>1, <2>2 DEF AlertsInMemory, Told, Remembers
  <2> QED
    BY <2>1, <2>3 DEF AlertsOnDisk
<1>4. CASE Truncate
  <2>1. UNCHANGED <<time, incident, alerts, memory>> /\ phase = "save" /\ phase' = "writing"
    BY <1>4 DEF Truncate
  <2> QED
    BY <2>1 DEF AlertsInMemory, AlertsOnDisk, Told, Remembers
<1>5. CASE Written
  <2>1. /\ UNCHANGED <<time, alerts, memory>> /\ phase = "writing" /\ phase' = "publish"
        /\ file' = [whole |-> TRUE, entries |-> memory]
        /\ incident = "forgotten" => incident' = "forgotten"
    BY <1>5 DEF Written
  <2>2. incident' # "forgotten" => \A s \in alerts : Told(s) => Remembers(memory, s)
    BY <2>1 DEF AlertsInMemory
  <2>3. AlertsInMemory'
    BY <2>1, <2>2 DEF AlertsInMemory, Told, Remembers
  <2>4. file'.whole /\ file'.entries = memory
    BY <2>1
  <2>5. AlertsOnDisk'
    BY <2>1, <2>2, <2>4 DEF AlertsOnDisk, Told, Remembers
  <2> QED
    BY <2>3, <2>5
<1>6. CASE WriteFails
  <2>1. /\ UNCHANGED <<time, alerts, memory>> /\ phase \in {"save", "writing"}
        /\ phase' = "publish" /\ incident' # "none"
        /\ incident = "forgotten" => incident' = "forgotten"
    BY <1>6 DEF WriteFails
  <2> QED
    BY <2>1 DEF AlertsInMemory, AlertsOnDisk, Told, Remembers
<1>7. CASE NewsTick
  <2>1. /\ UNCHANGED <<alerts, memory, file, phase, incident, events, candidates>>
        /\ time' = time + 1
    BY <1>7 DEF NewsTick
  <2>2. \A s \in alerts : Told(s)' => Told(s)
    BY <2>1, <1>0 DEF Told
  <2>3. Up' = Up
    BY <2>1 DEF Up
  <2>4. AlertsInMemory'
    <3> SUFFICES ASSUME incident # "forgotten", NEW s \in alerts, Told(s)
                 PROVE  \/ phase = "record" /\ s.arts = events[Up].arts
                        \/ Remembers(memory, s)
      BY <2>1, <2>2, <2>3 DEF AlertsInMemory, Told, Remembers
    <3> QED
      BY DEF AlertsInMemory
  <2>5. AlertsOnDisk'
    BY <2>1, <2>2 DEF AlertsOnDisk, Told
  <2> QED
    BY <2>4, <2>5
<1>8. CASE NewsCrash
  <2>1. /\ UNCHANGED <<time, file, alerts>> /\ phase' = "idle" /\ memory' = Loaded
        /\ incident' # "forgotten" => phase \notin Unwritten /\ incident = "none"
    BY <1>8 DEF NewsCrash, NewsTimes
  <2>2. ASSUME incident' # "forgotten", NEW s \in alerts, Told(s)
        PROVE  Remembers(memory', s)
    <3>1. file.whole /\ Remembers(file.entries, s)
      BY <2>1, <2>2 DEF AlertsOnDisk, Remembers
    <3>2. Remembers(Kept(file.entries), s)
      BY <3>1, <2>2, <1>0, RemembersKept
    <3> QED
      BY <3>1, <3>2, <2>1 DEF Loaded
  <2>3. AlertsInMemory'
    BY <2>1, <2>2 DEF AlertsInMemory, Told, Remembers
  <2>4. AlertsOnDisk'
    BY <2>1, <1>8 DEF AlertsOnDisk, Told, NewsCrash
  <2> QED
    BY <2>3, <2>4
<1>9. CASE UNCHANGED newsVars
  BY <1>9 DEF newsVars, AlertsInMemory, AlertsOnDisk, Told, Remembers, Up
<1> QED
  BY <1>1, <1>2, <1>3, <1>4, <1>5, <1>6, <1>7, <1>8, <1>9 DEF NewsNext

(* A verified event is denied by no article, and an official one of it and *)
(* another domain that is no social network state it.                      *)
LEMMA VerifiedStory ==
    ASSUME NEW arts, Status(arts) = "VERIFIED"
    PROVE  /\ arts \cap Denials = {}
           /\ \E a \in arts : /\ IsOfficial(a)
                              /\ \E b \in arts : /\ Domain[b] # Domain[a]
                                                 /\ Domain[b] \notin Social
<1> DEFINE D == NewsDomains(arts)
<1>1. /\ arts \cap Denials = {} /\ ~ (Cardinality(D) < 2)
      /\ \E a \in arts : IsOfficial(a)
  BY DEF Status
<1>2. PICK a \in arts : IsOfficial(a)
  BY <1>1
<1>3. Domain[a] \in D
  BY <1>2, NewsAssumption DEF NewsDomains, IsOfficial
<1>4. D # {Domain[a]}
  <2>1. Cardinality({Domain[a]}) = 1
    BY FS_Singleton
  <2> QED
    BY <2>1, <1>1
<1>5. PICK d \in D : d # Domain[a]
  BY <1>3, <1>4
<1>6. PICK b \in arts : d = Domain[b] /\ Domain[b] \notin Social
  BY <1>5 DEF NewsDomains
<1> QED
  BY <1>1, <1>2, <1>5, <1>6

LEMMA VerifiedStep == VerifiedOnly /\ [NewsNext]_newsVars => VerifiedOnly'
<1> SUFFICES ASSUME VerifiedOnly, [NewsNext]_newsVars PROVE VerifiedOnly'
  OBVIOUS
<1>1. ASSUME NEW told \in BOOLEAN, NEW reached \in BOOLEAN, Send(told, reached)
      PROVE  VerifiedOnly'
  <2>1. Status(events[Up].arts) = "VERIFIED"
    BY <1>1 DEF Send, MayPublish
  <2>2. \A s \in alerts' : s \in alerts \/ s.arts = events[Up].arts
    BY <1>1 DEF Send
  <2> QED
    BY <2>1, <2>2, VerifiedStory DEF VerifiedOnly
<1>2. CASE UNCHANGED alerts
  BY <1>2 DEF VerifiedOnly
<1>3. \/ UNCHANGED alerts
      \/ \E told, reached \in BOOLEAN : Send(told, reached)
  BY DEF NewsNext, newsVars, Fetch, Ingest, IngestEnds, PassOver, Record, Truncate,
         Written, WriteFails, CycleEnds, NewsTick, NewsCrash
<1> QED
  BY <1>1, <1>2, <1>3

(* In every run, for any articles, feeds, thresholds and crashes: only       *)
(* verified news goes out, no story is remembered twice, and no alert is     *)
(* forgotten but by a failed write or a crash before the end of its write    *)
(* (news.py:400-434, 584-630).                                               *)
THEOREM NewsCorrect == NewsSpec => []NewsKeptStraight
<1>1. NewsInit => /\ NewsTimes /\ StoriesInv /\ AlertsInMemory
                  /\ AlertsOnDisk /\ VerifiedOnly
  <2> SUFFICES ASSUME NewsInit
               PROVE  /\ NewsTimes /\ StoriesInv /\ AlertsInMemory
                      /\ AlertsOnDisk /\ VerifiedOnly
    OBVIOUS
  <2>1. /\ time = 0 /\ memory = {} /\ alerts = {} /\ phase = "idle" /\ incident = "none"
        /\ file.whole /\ file.entries = {}
    BY DEF NewsInit
  <2> QED
    BY <2>1 DEF NewsTimes, StoriesInv, Kept, AlertsInMemory, AlertsOnDisk, VerifiedOnly
<1>2. NewsTimes /\ AlertsInMemory /\ AlertsOnDisk /\ [NewsNext]_newsVars
        => AlertsInMemory' /\ AlertsOnDisk'
  BY AlertsStep
<1>3. StoriesInv => MemoryDistinct
  BY DEF StoriesInv, MemoryDistinct
<1> QED
  BY <1>1, <1>2, <1>3, NewsTimesStep, StoriesStep, VerifiedStep,
     PTL DEF NewsSpec, NewsKeptStraight

-----------------------------------------------------------------------------
(* The provider ladder: for any batch, ladder, pool and limits, a call that *)
(* fails has got all it can from every provider, whatever the other calls   *)
(* do to the budgets and to what is known of the gateways, and a gateway    *)
(* rejects JSON mode no more often than there are workers.                  *)

(* What the walk of a call knows: the providers above the one it is at are *)
(* exhausted, those below were not asked, and the attempts at this one are *)
(* the requests posted to it.                                              *)
WalkOf(c) ==
    /\ state[c] \in {"queued", "walking", "json", "plain"} =>
          /\ \A i \in Pool : i < provider[c] => Exhausted(c, i)
          /\ \A i \in Pool : i > provider[c] => asked[c][i] = 0
    /\ state[c] \in {"queued", "walking"} =>
          asked[c][provider[c]] = attempt[c] - 1
    /\ state[c] \in {"json", "plain"} => asked[c][provider[c]] = attempt[c]
    /\ state[c] = "failed" => \A i \in Pool : Exhausted(c, i)
    /\ state[c] = "cut" => late

WalkInv == \A c \in Calls : WalkOf(c)

(* The requests in JSON mode a gateway still has to answer. *)
AsksJson(u) == {c \in Calls : state[c] = "json" /\ Url(c) = u}

(* Every worker has one request under way, and once a gateway has rejected *)
(* JSON mode, only those that were sent before can be rejected.            *)
PoolInv ==
    /\ Cardinality(Running) <= AI_WORKERS
    /\ \A u \in Urls :
          /\ json[u] => rejections[u] = 0
          /\ rejections[u] + Cardinality(AsksJson(u)) <= AI_WORKERS

-----------------------------------------------------------------------------
LEMMA LadderFacts ==
    /\ Bottom \in Nat \ {0} /\ Pool = 1..Bottom
    /\ Setups \in Nat /\ AI_WORKERS \in Nat /\ AI_RETRY_MAX \in Nat \ {0}
    /\ \A i \in Pool : Gateways[i] \in Urls
BY LadderAssumption DEF Bottom, Pool, Urls

(* A set of calls is finite, and a smaller one has fewer calls. *)
LEMMA CallsCounted ==
    ASSUME NEW S \in SUBSET Calls, NEW T \in SUBSET S
    PROVE  /\ IsFiniteSet(S) /\ Cardinality(S) \in Nat
           /\ Cardinality(T) \in Nat /\ Cardinality(T) <= Cardinality(S)
<1>1. IsFiniteSet(Calls)
  BY LadderFacts, FS_Interval DEF Calls
<1>2. IsFiniteSet(S)
  BY <1>1, FS_Subset
<1>3. IsFiniteSet(T)
  BY <1>2, FS_Subset
<1>4. QED
  BY <1>2, <1>3, FS_Subset, FS_CardinalityType

(* The next provider is one of the pool. *)
LEMMA LeavesType ==
    ASSUME LadderTypeOK, NEW c \in Calls,
           NEW way \in {"budget", "refused", "attempts"}, Leaves(c, way)
    PROVE  /\ state' \in [Calls -> {"queued", "walking", "json", "plain"} \cup Ended]
           /\ provider' \in [Calls -> Pool]
           /\ attempt' \in [Calls -> 1..AI_RETRY_MAX]
           /\ left' \in [Calls -> [Pool -> Ways]]
<1>1. provider[c] \in Pool /\ 1 \in 1..AI_RETRY_MAX
  BY LadderFacts DEF LadderTypeOK
<1>2. left' \in [Calls -> [Pool -> Ways]]
  BY <1>1 DEF Leaves, LadderTypeOK, Ways
<1>3. state' \in [Calls -> {"queued", "walking", "json", "plain"} \cup Ended]
  BY DEF Leaves, LadderTypeOK, Ended
<1>4. provider[c] # Bottom => provider[c] + 1 \in Pool
  BY <1>1, LadderFacts
<1>5. /\ provider' = provider \/ (provider[c] # Bottom /\ provider' = [provider EXCEPT ![c] = @ + 1])
      /\ attempt' = attempt \/ attempt' = [attempt EXCEPT ![c] = 1]
  BY DEF Leaves
<1>6. provider' \in [Calls -> Pool]
  BY <1>4, <1>5 DEF LadderTypeOK
<1>7. attempt' \in [Calls -> 1..AI_RETRY_MAX]
  BY <1>1, <1>5 DEF LadderTypeOK
<1>8. QED
  BY <1>2, <1>3, <1>6, <1>7

LEMMA TriesAgainType ==
    ASSUME LadderTypeOK, NEW c \in Calls, TriesAgain(c)
    PROVE  /\ state' \in [Calls -> {"queued", "walking", "json", "plain"} \cup Ended]
           /\ provider' \in [Calls -> Pool]
           /\ attempt' \in [Calls -> 1..AI_RETRY_MAX]
           /\ left' \in [Calls -> [Pool -> Ways]]
<1>1. CASE attempt[c] = AI_RETRY_MAX
  BY <1>1, LeavesType DEF TriesAgain
<1>2. CASE attempt[c] # AI_RETRY_MAX
  <2>1. attempt[c] + 1 \in 1..AI_RETRY_MAX
    BY <1>2, LadderFacts DEF LadderTypeOK
  <2>2. QED
    BY <1>2, <2>1 DEF TriesAgain, LadderTypeOK
<1>3. QED
  BY <1>1, <1>2

LEMMA TypesInit == LadderInit => LadderTypeOK
<1> SUFFICES ASSUME LadderInit  PROVE LadderTypeOK
  OBVIOUS
<1>1. json \in [Urls -> BOOLEAN] /\ late \in BOOLEAN
  BY Zenon DEF LadderInit
<1>2. QED
  BY <1>1, LadderAssumption, LadderFacts DEF LadderInit, LadderTypeOK, Ways, Ended

LEMMA TypesStep ==
    ASSUME LadderTypeOK, WalkInv, [LadderNext]_ladderVars
    PROVE  LadderTypeOK'
<1> USE DEF LadderTypeOK
<1>1. ASSUME NEW c \in Calls, Submit(c) \/ CutShort(c) \/ Answers(c)
      PROVE  LadderTypeOK'
  BY <1>1 DEF Submit, CutShort, Answers, Ended
<1>2. ASSUME NEW c \in Calls, BudgetOut(c) \/ Refuses(c)
      PROVE  LadderTypeOK'
  BY <1>2, LeavesType DEF BudgetOut, Refuses
<1>3. ASSUME NEW c \in Calls, Post(c)
      PROVE  LadderTypeOK'
  <2>1. provider[c] \in Pool /\ asked[c][provider[c]] + 1 \in 0..AI_RETRY_MAX
    BY <1>3, LadderFacts DEF Post, WalkInv, WalkOf
  <2>2. asked' \in [Calls -> [Pool -> 0..AI_RETRY_MAX]]
    BY <1>3, <2>1 DEF Post
  <2>3. used' \in [Pool -> Nat]
    BY <1>3, <2>1 DEF Post
  <2>4. state' \in [Calls -> {"queued", "walking", "json", "plain"} \cup Ended]
    BY <1>3 DEF Post
  <2>5. QED
    BY <1>3, <2>2, <2>3, <2>4 DEF Post
<1>4. ASSUME NEW c \in Calls, RejectsJson(c)
      PROVE  LadderTypeOK'
  <2>1. Url(c) \in Urls
    BY LadderFacts DEF Url
  <2>2. json' \in [Urls -> BOOLEAN]
    BY <1>4, <2>1, Zenon DEF RejectsJson
  <2>3. rejections' \in [Urls -> Nat]
    BY <1>4, <2>1 DEF RejectsJson
  <2>4. QED
    BY <1>4, <2>2, <2>3, TriesAgainType DEF RejectsJson
<1>5. ASSUME NEW c \in Calls, Disappoints(c)
      PROVE  LadderTypeOK'
  BY <1>5, TriesAgainType DEF Disappoints
<1>6. ASSUME DeadlineNears \/ NewDay
      PROVE  LadderTypeOK'
  <2>1. CASE DeadlineNears
    <3>1. late' \in BOOLEAN
      BY <2>1, Zenon DEF DeadlineNears
    <3>2. QED
      BY <2>1, <3>1 DEF DeadlineNears, callVars
  <2>2. CASE NewDay
    BY <2>2, LadderAssumption DEF NewDay, callVars
  <2>3. QED
    BY <1>6, <2>1, <2>2
<1>7. ASSUME UNCHANGED ladderVars
      PROVE  LadderTypeOK'
  BY <1>7 DEF ladderVars, callVars
<1>8. QED
  BY <1>1, <1>2, <1>3, <1>4, <1>5, <1>6, <1>7 DEF LadderNext, CallStep

-----------------------------------------------------------------------------
(* The walk of the other calls goes on as it was. *)
LEMMA OthersWalkOn ==
    ASSUME NEW c, NEW d, WalkOf(d), limit' = limit,
           late => late',
           state'[d] = state[d], provider'[d] = provider[d],
           attempt'[d] = attempt[d], asked'[d] = asked[d], left'[d] = left[d]
    PROVE  WalkOf(d)'
BY DEF WalkOf, Exhausted

(* A call leaves a provider that has nothing more to give. *)
LEMMA LeavesExhausted ==
    ASSUME LadderTypeOK, NEW c \in Calls, WalkOf(c),
           state[c] \in {"walking", "json", "plain"},
           NEW way \in {"budget", "refused", "attempts"}, Leaves(c, way),
           UNCHANGED <<limit, late, asked>>,
           \/ way = "budget" /\ limit > 0
           \/ way = "refused" /\ asked[c][provider[c]] > 0
           \/ way = "attempts" /\ asked[c][provider[c]] = AI_RETRY_MAX
    PROVE  WalkOf(c)'
<1> PICK p \in Pool : p = provider[c]
  BY DEF LadderTypeOK
<1>1. /\ left' = [left EXCEPT ![c] = [left[c] EXCEPT ![p] = way]]
      /\ left[c] \in [Pool -> Ways] /\ left \in [Calls -> [Pool -> Ways]]
  BY DEF Leaves, LadderTypeOK
<1>2. /\ left'[c][p] = way
      /\ \A i \in Pool : i # p => left'[c][i] = left[c][i]
  BY <1>1
<1>3. Exhausted(c, p)'
  BY <1>2 DEF Exhausted
<1>4. \A i \in Pool : i < p => Exhausted(c, i)'
  <2>1. \A i \in Pool : i < p => Exhausted(c, i) /\ i # p
    BY LadderFacts DEF WalkOf
  <2>2. QED
    BY <1>2, <2>1 DEF Exhausted
<1>5. \A i \in Pool : i > p => asked[c][i] = 0
  BY DEF WalkOf
<1>6. CASE p = Bottom
  <2>1. state'[c] = "failed"
    BY <1>6 DEF Leaves, LadderTypeOK
  <2>2. \A i \in Pool : i < p \/ i = p
    BY <1>6, LadderFacts
  <2>3. QED
    BY <1>3, <1>4, <2>1, <2>2 DEF WalkOf
<1>7. CASE p # Bottom
  <2>1. state'[c] = "walking" /\ provider'[c] = p + 1 /\ attempt'[c] = 1
    BY <1>7 DEF Leaves, LadderTypeOK
  <2>2. p + 1 \in Pool /\ p + 1 > p
    BY <1>7, LadderFacts
  <2>3. asked'[c][p + 1] = attempt'[c] - 1
    BY <1>5, <2>1, <2>2
  <2>4. \A i \in Pool : i < p + 1 => i < p \/ i = p
    BY LadderFacts
  <2>5. \A i \in Pool : i < p + 1 => Exhausted(c, i)'
    BY <1>3, <1>4, <2>4
  <2>6. \A i \in Pool : i > p + 1 => asked'[c][i] = 0
    BY <1>5, LadderFacts
  <2>7. QED
    BY <2>1, <2>3, <2>5, <2>6 DEF WalkOf
<1>8. QED
  BY <1>6, <1>7

(* A lost attempt is one request less, and the last one ends the visit. *)
LEMMA TriesAgainWalks ==
    ASSUME LadderTypeOK, NEW c \in Calls, WalkOf(c), InFlight(c), TriesAgain(c),
           UNCHANGED <<limit, late, asked>>
    PROVE  WalkOf(c)'
<1>1. asked[c][provider[c]] = attempt[c] /\ state[c] \in {"json", "plain"}
  BY DEF WalkOf, InFlight
<1>2. CASE attempt[c] = AI_RETRY_MAX
  BY <1>1, <1>2, LeavesExhausted DEF TriesAgain
<1>3. CASE attempt[c] # AI_RETRY_MAX
  <2>1. /\ state'[c] = "walking" /\ attempt'[c] = attempt[c] + 1
        /\ UNCHANGED <<provider, left>>
    BY <1>3 DEF TriesAgain, LadderTypeOK
  <2>2. attempt[c] \in Int
    BY DEF LadderTypeOK
  <2>3. asked'[c][provider'[c]] = attempt'[c] - 1
    BY <1>1, <2>1, <2>2
  <2>4. \A i \in Pool : i < provider'[c] => Exhausted(c, i)'
    BY <1>1, <2>1 DEF WalkOf, Exhausted
  <2>5. \A i \in Pool : i > provider'[c] => asked'[c][i] = 0
    BY <1>1, <2>1 DEF WalkOf
  <2>6. QED
    BY <2>1, <2>3, <2>4, <2>5 DEF WalkOf
<1>4. QED
  BY <1>2, <1>3

(* Only the call that steps changes where it is. *)
LEMMA OneCallMoves ==
    ASSUME LadderTypeOK, NEW c \in Calls, CallStep(c), NEW d \in Calls, d # c
    PROVE  /\ state'[d] = state[d] /\ provider'[d] = provider[d]
           /\ attempt'[d] = attempt[d] /\ asked'[d] = asked[d]
           /\ left'[d] = left[d]
<1> USE DEF LadderTypeOK
<1>1. CASE Submit(c) \/ CutShort(c) \/ Answers(c) \/ Post(c)
  BY <1>1 DEF Submit, CutShort, Answers, Post
<1>2. CASE BudgetOut(c) \/ Refuses(c)
  BY <1>2 DEF BudgetOut, Refuses, Leaves
<1>3. CASE RejectsJson(c) \/ Disappoints(c)
  BY <1>3 DEF RejectsJson, Disappoints, TriesAgain, Leaves
<1>4. QED
  BY <1>1, <1>2, <1>3 DEF CallStep

LEMMA WalkInit == LadderInit => WalkInv
<1> SUFFICES ASSUME LadderInit, NEW c \in Calls  PROVE WalkOf(c)
  BY DEF WalkInv
<1>1. /\ state[c] = "queued" /\ provider[c] = 1 /\ attempt[c] = 1
      /\ \A i \in Pool : asked[c][i] = 0
  BY DEF LadderInit
<1>2. 1 \in Pool /\ \A i \in Pool : ~(i < 1)
  BY LadderFacts
<1>3. QED
  BY <1>1, <1>2 DEF WalkOf

LEMMA WalkStep ==
    ASSUME LadderTypeOK, WalkInv, [LadderNext]_ladderVars
    PROVE  WalkInv'
<1>1. \A c \in Calls : WalkOf(c)
  BY DEF WalkInv
<1>2. ASSUME NEW c \in Calls, CallStep(c)
      PROVE  WalkOf(c)'
  <2>1. CASE Submit(c)
    <3>1. /\ state[c] = "queued" /\ state'[c] = "walking"
          /\ UNCHANGED <<limit, late, provider, attempt, asked, left>>
      BY <2>1 DEF Submit, LadderTypeOK
    <3>2. QED
      BY <1>1, <3>1 DEF WalkOf, Exhausted
  <2>2. CASE CutShort(c)
    <3>1. state'[c] = "cut" /\ late'
      BY <2>2 DEF CutShort, LadderTypeOK
    <3>2. QED
      BY <3>1 DEF WalkOf
  <2>3. CASE Answers(c)
    <3>1. state'[c] = "answered"
      BY <2>3 DEF Answers, LadderTypeOK
    <3>2. QED
      BY <3>1 DEF WalkOf
  <2>4. CASE BudgetOut(c)
    <3>1. limit > 0
      BY <2>4, LadderAssumption DEF BudgetOut, Affordable, LadderTypeOK
    <3>2. QED
      BY <1>1, <2>4, <3>1, LeavesExhausted DEF BudgetOut
  <2>5. CASE Refuses(c)
    <3>1. state[c] \in {"json", "plain"} /\ asked[c][provider[c]] > 0
      BY <1>1, <2>5 DEF Refuses, InFlight, WalkOf, LadderTypeOK
    <3>2. QED
      BY <1>1, <2>5, <3>1, LeavesExhausted DEF Refuses
  <2>6. CASE RejectsJson(c) \/ Disappoints(c)
    BY <1>1, <2>6, TriesAgainWalks DEF RejectsJson, Disappoints, InFlight
  <2>7. CASE Post(c)
    <3> PICK p \in Pool : p = provider[c]
      BY DEF LadderTypeOK
    <3>1. /\ state[c] = "walking" /\ state'[c] \in {"json", "plain"}
          /\ UNCHANGED <<limit, provider, attempt, left>>
      BY <2>7 DEF Post, LadderTypeOK
    <3>2. asked'[c] = [asked[c] EXCEPT ![p] = asked[c][p] + 1]
      BY <2>7 DEF Post, LadderTypeOK
    <3>3. asked[c] \in [Pool -> 0..AI_RETRY_MAX] /\ attempt[c] \in Int
      BY DEF LadderTypeOK
    <3>4. /\ asked'[c][p] = asked[c][p] + 1
          /\ \A i \in Pool : i # p => asked'[c][i] = asked[c][i]
      BY <3>2, <3>3
    <3>5. asked[c][p] = attempt[c] - 1
      BY <1>1, <3>1 DEF WalkOf
    <3>6. \A i \in Pool : i < p => Exhausted(c, i)'
      <4>1. \A i \in Pool : i < p => Exhausted(c, i) /\ i # p
        BY <1>1, <3>1, LadderFacts DEF WalkOf
      <4>2. QED
        BY <3>1, <3>4, <4>1 DEF Exhausted
    <3>7. \A i \in Pool : i > p => asked'[c][i] = 0
      <4>1. \A i \in Pool : i > p => asked[c][i] = 0 /\ i # p
        BY <1>1, <3>1, LadderFacts DEF WalkOf
      <4>2. QED
        BY <3>4, <4>1
    <3>8. asked'[c][p] = attempt'[c]
      BY <3>1, <3>3, <3>4, <3>5
    <3>9. QED
      BY <3>1, <3>6, <3>7, <3>8 DEF WalkOf
  <2>8. QED
    BY <1>2, <2>1, <2>2, <2>3, <2>4, <2>5, <2>6, <2>7 DEF CallStep
<1>3. ASSUME NEW c \in Calls, CallStep(c), NEW d \in Calls, d # c
      PROVE  WalkOf(d)'
  <2>1. UNCHANGED <<limit, late>>
    BY <1>3 DEF CallStep, Submit, CutShort, BudgetOut, Post, Answers, RejectsJson,
                Refuses, Disappoints
  <2>2. QED
    BY <1>1, <1>3, <2>1, OneCallMoves, OthersWalkOn
<1>4. ASSUME DeadlineNears \/ NewDay \/ UNCHANGED ladderVars, NEW d \in Calls
      PROVE  WalkOf(d)'
  <2>1. UNCHANGED <<limit, callVars, asked, left>> /\ (late => late')
    BY <1>4 DEF DeadlineNears, NewDay, ladderVars
  <2>2. QED
    BY <1>1, <2>1, OthersWalkOn DEF callVars
<1>5. \A d \in Calls : WalkOf(d)'
  BY <1>2, <1>3, <1>4 DEF LadderNext
<1>6. QED
  BY <1>5 DEF WalkInv

-----------------------------------------------------------------------------
(* A step that starts no call and learns nothing keeps the pool in bounds. *)
LEMMA PoolKept ==
    ASSUME LadderTypeOK, PoolInv, Running' \subseteq Running,
           UNCHANGED <<json, rejections>>,
           \A u \in Urls : AsksJson(u)' \subseteq AsksJson(u)
    PROVE  PoolInv'
<1>1. Running \in SUBSET Calls /\ Running' \in SUBSET Running
  BY DEF Running
<1>2. Cardinality(Running)' <= AI_WORKERS
  BY <1>1, CallsCounted, LadderFacts DEF PoolInv
<1>3. ASSUME NEW u \in Urls
      PROVE  rejections'[u] + Cardinality(AsksJson(u))' <= AI_WORKERS
  <2>1. AsksJson(u) \in SUBSET Calls /\ AsksJson(u)' \in SUBSET AsksJson(u)
    BY <1>3 DEF AsksJson
  <2>2. /\ Cardinality(AsksJson(u)) \in Nat /\ Cardinality(AsksJson(u)') \in Nat
        /\ Cardinality(AsksJson(u)') <= Cardinality(AsksJson(u))
    BY <2>1, CallsCounted
  <2>3. rejections[u] \in Nat /\ rejections'[u] = rejections[u]
    BY DEF LadderTypeOK
  <2>4. rejections[u] + Cardinality(AsksJson(u)) <= AI_WORKERS
    BY DEF PoolInv
  <2>5. QED
    BY <2>2, <2>3, <2>4, LadderFacts
<1>4. QED
  BY <1>2, <1>3 DEF PoolInv

LEMMA PoolInit == LadderInit => PoolInv
<1> SUFFICES ASSUME LadderInit  PROVE PoolInv
  OBVIOUS
<1>1. Running = {} /\ \A u \in Urls : AsksJson(u) = {}
  BY DEF LadderInit, Running, AsksJson, InFlight
<1>2. \A u \in Urls : rejections[u] = 0
  BY DEF LadderInit
<1>3. /\ Cardinality(Running) = 0
      /\ \A u \in Urls : Cardinality(AsksJson(u)) = 0
  BY <1>1, FS_EmptySet
<1>4. QED
  BY <1>2, <1>3, LadderFacts DEF PoolInv

(* The pool takes a call while a worker is free. *)
LEMMA PoolSubmit ==
    ASSUME LadderTypeOK, PoolInv, NEW c \in Calls, Submit(c)
    PROVE  PoolInv'
<1>1. /\ \A d \in Calls : d # c => state'[d] = state[d]
      /\ state'[c] = "walking" /\ state[c] = "queued"
      /\ UNCHANGED <<json, rejections, provider>>
  BY DEF Submit, LadderTypeOK
<1>2. Running' = Running \cup {c} /\ c \notin Running
  BY <1>1 DEF Running, InFlight
<1>3. \A u \in Urls : AsksJson(u)' = AsksJson(u)
  BY <1>1 DEF AsksJson, Url
<1>4. IsFiniteSet(Running) /\ Cardinality(Running) \in Nat
  BY CallsCounted DEF Running
<1>5. Cardinality(Running') = Cardinality(Running) + 1
  BY <1>2, <1>4, FS_AddElement
<1>6. Cardinality(Running) < AI_WORKERS
  BY DEF Submit
<1>7. Cardinality(Running)' <= AI_WORKERS
  BY <1>4, <1>5, <1>6, LadderFacts
<1>8. QED
  BY <1>1, <1>3, <1>7 DEF PoolInv

(* A request in JSON mode goes only to a gateway that has rejected none,   *)
(* and there are no more of them than workers.                             *)
LEMMA PoolPost ==
    ASSUME LadderTypeOK, PoolInv, NEW c \in Calls, Post(c)
    PROVE  PoolInv'
<1>1. /\ \A d \in Calls : d # c => state'[d] = state[d]
      /\ state'[c] = IF json[Url(c)] THEN "json" ELSE "plain"
      /\ state[c] = "walking"
      /\ UNCHANGED <<json, rejections, provider>>
  BY DEF Post, LadderTypeOK
<1>2. Running' = Running
  BY <1>1 DEF Running, InFlight
<1>3. Url(c) \in Urls
  BY LadderFacts DEF Url, LadderTypeOK
<1>4. ASSUME NEW u \in Urls
      PROVE  rejections'[u] + Cardinality(AsksJson(u))' <= AI_WORKERS
  <2>1. CASE u = Url(c) /\ json[u]
    <3>1. rejections'[u] = 0
      BY <1>1, <2>1 DEF PoolInv
    <3>2. AsksJson(u)' \in SUBSET Running
      BY <1>1, <1>2 DEF AsksJson, Running, InFlight
    <3>3. Running \in SUBSET Calls
      BY DEF Running
    <3>4. /\ Cardinality(AsksJson(u)') <= Cardinality(Running)
          /\ Cardinality(AsksJson(u)') \in Nat /\ Cardinality(Running) \in Nat
      BY <3>2, <3>3, CallsCounted
    <3>5. QED
      BY <3>1, <3>4, LadderFacts DEF PoolInv
  <2>2. CASE ~(u = Url(c) /\ json[u])
    <3>1. AsksJson(u)' = AsksJson(u)
      BY <1>1, <2>2 DEF AsksJson, Url
    <3>2. QED
      BY <1>1, <3>1 DEF PoolInv
  <2>3. QED
    BY <2>1, <2>2
<1>5. QED
  BY <1>1, <1>2, <1>4 DEF PoolInv

(* A call that leaves its request is no longer one of those in JSON mode.  *)
LEMMA WalksAway ==
    ASSUME LadderTypeOK, NEW c \in Calls, state[c] \in {"walking", "json", "plain"},
           TriesAgain(c) \/ (\E way \in Ways : Leaves(c, way))
    PROVE  /\ state'[c] \in {"walking", "failed"}
           /\ \A d \in Calls : d # c =>
                 state'[d] = state[d] /\ provider'[d] = provider[d]
           /\ Running' \subseteq Running
           /\ \A u \in Urls : AsksJson(u)' = AsksJson(u) \ {c}
<1>1. /\ state'[c] \in {"walking", "failed"}
      /\ \A d \in Calls : d # c =>
            state'[d] = state[d] /\ provider'[d] = provider[d]
  BY DEF TriesAgain, Leaves, LadderTypeOK
<1>2. Running' \subseteq Running
  BY <1>1 DEF Running, InFlight
<1>3. \A u \in Urls : AsksJson(u)' = AsksJson(u) \ {c}
  BY <1>1 DEF AsksJson, Url
<1>4. QED
  BY <1>1, <1>2, <1>3

(* A rejection is one request in JSON mode fewer. *)
LEMMA PoolRejects ==
    ASSUME LadderTypeOK, PoolInv, NEW c \in Calls, RejectsJson(c)
    PROVE  PoolInv'
<1>1. /\ Running' \subseteq Running
      /\ \A u \in Urls : AsksJson(u)' = AsksJson(u) \ {c}
  BY WalksAway DEF RejectsJson
<1> PICK w \in Urls : w = Url(c)
  BY LadderFacts DEF Url, LadderTypeOK
<1>2. \A u \in Urls :
         /\ json'[u] = IF u = w THEN FALSE ELSE json[u]
         /\ rejections'[u] = IF u = w THEN rejections[u] + 1 ELSE rejections[u]
         /\ rejections[u] \in Nat
  BY DEF RejectsJson, LadderTypeOK
<1>3. Running \in SUBSET Calls /\ Running' \in SUBSET Running
  BY <1>1 DEF Running
<1>4. Cardinality(Running)' <= AI_WORKERS
  BY <1>3, CallsCounted, LadderFacts DEF PoolInv
<1>5. ASSUME NEW u \in Urls
      PROVE  /\ json'[u] => rejections'[u] = 0
             /\ rejections'[u] + Cardinality(AsksJson(u))' <= AI_WORKERS
  <2>1. /\ json[u] => rejections[u] = 0
        /\ rejections[u] + Cardinality(AsksJson(u)) <= AI_WORKERS
    BY DEF PoolInv
  <2>2. AsksJson(u) \in SUBSET Calls /\ AsksJson(u) \ {c} \in SUBSET AsksJson(u)
    BY DEF AsksJson
  <2>3. /\ IsFiniteSet(AsksJson(u)) /\ Cardinality(AsksJson(u)) \in Nat
        /\ Cardinality(AsksJson(u) \ {c}) \in Nat
        /\ Cardinality(AsksJson(u) \ {c}) <= Cardinality(AsksJson(u))
    BY <2>2, CallsCounted
  <2>4. Cardinality(AsksJson(u)') = Cardinality(AsksJson(u) \ {c})
    BY <1>1
  <2>5. CASE u = w
    <3>1. c \in AsksJson(u)
      BY <2>5 DEF AsksJson, RejectsJson
    <3>2. Cardinality(AsksJson(u) \ {c}) = Cardinality(AsksJson(u)) - 1
      BY <2>3, <3>1, FS_RemoveElement
    <3>3. ~json'[u] /\ rejections'[u] = rejections[u] + 1 /\ rejections[u] \in Nat
      BY <1>2, <2>5
    <3>4. QED
      BY <2>1, <2>3, <2>4, <3>2, <3>3
  <2>6. CASE u # w
    <3>1. (json'[u] <=> json[u]) /\ rejections'[u] = rejections[u] /\ rejections[u] \in Nat
      BY <1>2, <2>6
    <3>2. QED
      BY <2>1, <2>3, <2>4, <3>1, LadderFacts
  <2>7. QED
    BY <2>5, <2>6
<1>6. QED
  BY <1>4, <1>5 DEF PoolInv

LEMMA PoolStep ==
    ASSUME LadderTypeOK, PoolInv, [LadderNext]_ladderVars
    PROVE  PoolInv'
<1>1. ASSUME NEW c \in Calls, CutShort(c) \/ Answers(c)
      PROVE  PoolInv'
  <2>1. /\ \A d \in Calls : d # c => state'[d] = state[d]
        /\ state'[c] \in {"cut", "answered"}
        /\ UNCHANGED <<json, rejections, provider>>
    BY <1>1 DEF CutShort, Answers, LadderTypeOK
  <2>2. Running' \subseteq Running
    BY <2>1 DEF Running, InFlight
  <2>3. \A u \in Urls : AsksJson(u)' \subseteq AsksJson(u)
    BY <2>1 DEF AsksJson, Url
  <2>4. QED
    BY <2>1, <2>2, <2>3, PoolKept
<1>2. ASSUME NEW c \in Calls, BudgetOut(c) \/ Refuses(c) \/ Disappoints(c)
      PROVE  PoolInv'
  <2>1. /\ state[c] \in {"walking", "json", "plain"}
        /\ TriesAgain(c) \/ (\E way \in Ways : Leaves(c, way))
        /\ UNCHANGED <<json, rejections>>
    BY <1>2 DEF BudgetOut, Refuses, Disappoints, InFlight, Ways
  <2>2. /\ Running' \subseteq Running
        /\ \A u \in Urls : AsksJson(u)' \subseteq AsksJson(u)
    BY <2>1, WalksAway
  <2>3. QED
    BY <2>1, <2>2, PoolKept
<1>3. ASSUME DeadlineNears \/ NewDay \/ UNCHANGED ladderVars
      PROVE  PoolInv'
  <2>1. UNCHANGED <<json, rejections, state, provider>>
    BY <1>3 DEF DeadlineNears, NewDay, ladderVars, callVars
  <2>2. Running' = Running /\ \A u \in Urls : AsksJson(u)' = AsksJson(u)
    BY <2>1 DEF Running, InFlight, AsksJson, Url
  <2>3. QED
    BY <2>1, <2>2 DEF PoolInv
<1>4. QED
  BY <1>1, <1>2, <1>3, PoolSubmit, PoolPost, PoolRejects DEF LadderNext, CallStep

-----------------------------------------------------------------------------
LEMMA LadderAlways == LadderSpec => [](LadderTypeOK /\ WalkInv /\ PoolInv)
<1>1. /\ LadderTypeOK /\ WalkInv /\ PoolInv
      /\ [LadderNext]_ladderVars
      => (LadderTypeOK /\ WalkInv /\ PoolInv)'
  BY TypesStep, WalkStep, PoolStep
<1>2. QED
  BY <1>1, TypesInit, WalkInit, PoolInit, PTL DEF LadderSpec

(* No counter of the ladder leaves its range: a call posts at most         *)
(* AI_RETRY_MAX requests to a provider (ai_decision.py:975-994).           *)
THEOREM LadderTypes == LadderSpec => []LadderTypeOK
BY LadderAlways, PTL

(* A call fails only when each provider in turn refused it, used up its    *)
(* attempts or had no budget left, and is cut short only near the deadline; *)
(* a gateway rejects JSON mode at most once per worker                     *)
(* (ai_decision.py:77-112, 961).                                           *)
THEOREM LadderCorrect == LadderSpec => []LadderSound
<1>1. LadderTypeOK /\ WalkInv /\ PoolInv => LadderSound
  <2> SUFFICES ASSUME LadderTypeOK, WalkInv, PoolInv  PROVE LadderSound
    OBVIOUS
  <2>1. FailureMeansAllTried
    BY DEF WalkInv, WalkOf, FailureMeansAllTried
  <2>2. ASSUME NEW u \in Urls  PROVE rejections[u] <= AI_WORKERS
    <3>1. Cardinality(AsksJson(u)) \in Nat /\ rejections[u] \in Nat
      BY CallsCounted DEF AsksJson, LadderTypeOK
    <3>2. rejections[u] + Cardinality(AsksJson(u)) <= AI_WORKERS
      BY DEF PoolInv
    <3>3. QED
      BY <3>1, <3>2, LadderFacts
  <2>3. QED
    BY <2>1, <2>2 DEF LadderSound, RejectionsBounded
<1>2. QED
  BY <1>1, LadderAlways, PTL

-----------------------------------------------------------------------------
(* The replay of the backtest.                                             *)

\* One step of a run over the bars of s, and over the first n bars.
Onwards(g, s, history) ==
    IF s = {} THEN EmptyReport
    ELSE ReplayBar(g[s \ {Max(s)}], history[Max(s)], history)
OnTo(f, n, history) ==
    IF n = 0 THEN EmptyReport ELSE ReplayBar(f[n - 1], history[n], history)

(* A fold over the bars takes them one after another. *)
LEMMA FoldExists ==
    ASSUME NEW N \in Nat, NEW history
    PROVE  \E g : g = [s \in SUBSET (1..N) |-> Onwards(g, s, history)]
<1> DEFINE good(m) == \E g : g = [s \in SUBSET (1..m) |-> Onwards(g, s, history)]
           bad == {m \in Nat : ~good(m)}
<1>1. good(0)
  <2> DEFINE g == [s \in SUBSET (1..0) |-> EmptyReport]
  <2>1. \A s \in SUBSET (1..0) : s = {}
    OBVIOUS
  <2>2. g = [s \in SUBSET (1..0) |-> Onwards(g, s, history)]
    <3>1. \A s \in SUBSET (1..0) : Onwards(g, s, history) = EmptyReport
      BY <2>1, Zenon DEF Onwards
    <3> QED
      BY <3>1
  <2> QED
    BY <2>2
<1>2. ASSUME NEW m \in Nat, good(m) PROVE good(m + 1)
  <2>1. PICK g : g = [s \in SUBSET (1..m) |-> Onwards(g, s, history)]
    BY <1>2
  <2> DEFINE more == [s \in SUBSET (1..m + 1) |-> Onwards(g, s, history)]
  <2>2. \A s \in SUBSET (1..m + 1) : s # {} => s \ {Max(s)} \in SUBSET (1..m)
    <3> SUFFICES ASSUME NEW s \in SUBSET (1..m + 1), s # {}
                 PROVE  s \ {Max(s)} \in SUBSET (1..m)
      OBVIOUS
    <3>1. s \in SUBSET Nat /\ m + 1 \in Nat /\ \A x \in s : x <= m + 1
      OBVIOUS
    <3>2. Max(s) \in s /\ \A x \in s : x <= Max(s)
      BY <3>1, GreatestOf
    <3> DEFINE top == Max(s)
    <3> HIDE DEF top
    <3>3. top \in s /\ \A x \in s : x <= top
      BY <3>2 DEF top
    <3>4. s \ {top} \in SUBSET (1..m)
      BY <3>3
    <3> QED
      BY <3>4 DEF top
  <2>3. \A s \in SUBSET (1..m) : s \in SUBSET (1..m + 1)
    OBVIOUS
  <2>4. \A s \in SUBSET (1..m) : more[s] = g[s]
    <3>1. \A s \in SUBSET (1..m) : g[s] = Onwards(g, s, history)
      BY <2>1
    <3> QED
      BY <2>3, <3>1
  <2> HIDE DEF more
  <2>5. \A s \in SUBSET (1..m + 1) : Onwards(g, s, history) = Onwards(more, s, history)
    <3> SUFFICES ASSUME NEW s \in SUBSET (1..m + 1)
                 PROVE  Onwards(g, s, history) = Onwards(more, s, history)
      OBVIOUS
    <3>1. CASE s = {}
      BY <3>1 DEF Onwards
    <3>2. CASE s # {}
      <4>1. more[s \ {Max(s)}] = g[s \ {Max(s)}]
        BY <2>2, <2>4, <3>2
      <4> QED
        BY <4>1, Zenon DEF Onwards
    <3> QED
      BY <3>1, <3>2
  <2>6. more = [s \in SUBSET (1..m + 1) |-> Onwards(more, s, history)]
    BY <2>5 DEF more
  <2> QED
    BY <2>6
<1> HIDE DEF good
<1>3. bad = {}
  <2> SUFFICES ASSUME bad # {} PROVE FALSE
    OBVIOUS
  <2> DEFINE m == Min(bad)
  <2>1. m \in bad /\ \A k \in bad : m <= k
    BY LeastOf
  <2> HIDE DEF m
  <2>2. m # 0
    BY <1>1, <2>1
  <2>3. m - 1 \in Nat /\ m - 1 \notin bad
    BY <2>1, <2>2
  <2>4. good((m - 1) + 1) /\ (m - 1) + 1 = m
    BY <1>2, <2>1, <2>3
  <2> QED
    BY <2>1, <2>4
<1>4. good(N)
  BY <1>3
<1> QED
  BY <1>4 DEF good

(* The report of a run is the last of the reports after each bar. *)
LEMMA RunIs ==
    ASSUME NEW history, NEW N \in Nat, DOMAIN history = 1..N
    PROVE  \E f : /\ \A n \in 0..N : f[n] = OnTo(f, n, history)
                  /\ ReplayStrategy(history) = f[N]
<1> DEFINE S == 1..N
           unfolds(g) == [s \in SUBSET S |-> Onwards(g, s, history)]
           g == CHOOSE g : g = unfolds(g)
           f == [n \in 0..N |-> g[1..n]]
<1>1. g = unfolds(g)
  <2>1. \E h : h = unfolds(h)
    BY FoldExists
  <2> HIDE DEF unfolds
  <2> QED
    BY <2>1, Zenon
<1>2. ReplayStrategy(history) = g[S]
  <2> DEFINE plain(h) == [s \in SUBSET DOMAIN history |->
                 IF s = {} THEN EmptyReport
                 ELSE ReplayBar(h[s \ {Max(s)}], history[Max(s)], history)]
  <2>1. ReplayStrategy(history) = (CHOOSE h : h = plain(h))[DOMAIN history]
    BY Zenon DEF ReplayStrategy, FoldLeft, MapThenFoldSet
  <2>2. \A h : plain(h) = unfolds(h)
    BY Zenon DEF Onwards
  <2> HIDE DEF plain, unfolds
  <2>3. (CHOOSE h : h = plain(h)) = (CHOOSE h : h = unfolds(h))
    BY <2>2, Zenon
  <2> QED
    BY <2>1, <2>3, Zenon
<1> HIDE DEF g
<1>3. ASSUME NEW n \in 0..N PROVE f[n] = OnTo(f, n, history)
  <2>1. f[n] = Onwards(g, 1..n, history)
    BY <1>1
  <2>2. CASE n = 0
    <3>1. 1..n = {}
      BY <2>2
    <3> QED
      BY <2>1, <2>2, <3>1 DEF Onwards, OnTo
  <2>3. CASE n # 0
    <3>1. n \in 1..n /\ 1..n # {} /\ \A x \in 1..n : x <= n
      BY <2>3
    <3>2. Max(1..n) = n
      <4>1. 1..n \in SUBSET Nat /\ n \in Nat
        OBVIOUS
      <4> DEFINE T == 1..n
      <4>2. T \in SUBSET Nat /\ T # {} /\ n \in Nat /\ \A x \in T : x <= n
        BY <3>1, <4>1
      <4> HIDE DEF T
      <4>3. Max(T) \in T /\ \A x \in T : x <= Max(T)
        BY <4>2, GreatestOf
      <4> QED
        BY <3>1, <4>3 DEF T
    <3>3. (1..n) \ {n} = 1..n - 1 /\ n - 1 \in 0..N
      BY <2>3
    <3>4. g[(1..n) \ {Max(1..n)}] = f[n - 1]
      BY <3>2, <3>3
    <3> HIDE DEF f
    <3> QED
      BY <2>1, <2>3, <3>1, <3>2, <3>4 DEF Onwards, OnTo
  <2> QED
    BY <2>2, <2>3
<1>4. f[N] = g[S]
  OBVIOUS
<1> QED
  BY <1>2, <1>3, <1>4

BarRecord == [t : Nat, o : Int, h : Int, l : Int, c : Int]

\* A history: bar after bar, and the close of each within its range.
Charted(history) ==
    /\ history \in Seq(BarRecord)
    /\ \A n \in DOMAIN history :
          /\ history[n].t = n - 1
          /\ history[n].l <= history[n].c /\ history[n].c <= history[n].h

\* The longer history goes on where the other ends.
GoesOn(old, new) ==
    /\ Charted(old) /\ Charted(new)
    /\ Len(old) <= Len(new)
    /\ \A n \in DOMAIN old : old[n] = new[n]

(* The first rows of two frames that agree on them. *)
LEMMA SameRows ==
    ASSUME NEW S, NEW f \in Seq(S), NEW g \in Seq(S), Len(f) <= Len(g),
           \A i \in DOMAIN f : f[i] = g[i], NEW shown \in SUBSET DOMAIN f
    PROVE  UpTo(f, shown) = UpTo(g, shown)
<1> DEFINE m == Max(shown \cup {0})
           a == Len(f)
<1>1. a \in Nat /\ DOMAIN f = 1..a /\ DOMAIN g = 1..Len(g) /\ Len(g) \in Nat
  OBVIOUS
<1>2. m \in 0..a
  <2> DEFINE T == shown \cup {0}
  <2>1. T \in SUBSET Nat /\ T # {} /\ \A x \in T : x <= a
    BY <1>1
  <2> HIDE DEF T, a
  <2>2. Max(T) \in T
    BY <1>1, <2>1, GreatestOf
  <2> QED
    BY <1>1, <2>1, <2>2 DEF T
<1> HIDE DEF m
<1>3. SubSeq(f, 1, m) = [i \in 1..m |-> f[i]]
  BY <1>1, <1>2
<1>4. SubSeq(g, 1, m) = [i \in 1..m |-> g[i]]
  BY <1>1, <1>2
<1>5. \A i \in 1..m : f[i] = g[i]
  BY <1>1, <1>2
<1> QED
  BY <1>3, <1>4, <1>5 DEF UpTo, m

(* A multiple of B that is no more than L is no more than B * (L \div B). *)
LEMMA WholeCandles ==
    ASSUME NEW L \in Nat, NEW B \in Nat \ {0}, NEW j \in Nat
    PROVE  /\ L \div B \in Nat
           /\ j * B <= L <=> j <= L \div B
<1> DEFINE q == L \div B
           r == L % B
<1>1. q \in Nat /\ r \in 0..B - 1 /\ L = B * q + r
  OBVIOUS
<1> HIDE DEF q, r
<1>2. ASSUME j <= q PROVE j * B <= L
  <2>1. j * B <= q * B
    BY <1>1, <1>2, SMT
  <2> QED
    BY <1>1, <2>1, SMT
<1>3. ASSUME j >= q + 1 PROVE j * B > L
  <2>1. j * B >= (q + 1) * B
    BY <1>1, <1>3, SMT
  <2>2. (q + 1) * B = B * q + B
    BY <1>1, SMT
  <2> QED
    BY <1>1, <2>1, <2>2, SMT
<1> QED
  BY <1>1, <1>2, <1>3 DEF q

(* The candles of the higher timeframe, of a history and of a longer one. *)
LEMMA HtfIs ==
    ASSUME NEW history, Charted(history)
    PROVE  /\ Len(history) \div HtfBars \in Nat
           /\ Htf(history) \in Seq([t : Nat, o : Int, c : Int])
           /\ Len(Htf(history)) = Len(history) \div HtfBars
           /\ \A k \in 1..Len(history) \div HtfBars :
                 /\ (k - 1) * HtfBars + 1 \in DOMAIN history
                 /\ k * HtfBars \in DOMAIN history
                 /\ Htf(history)[k] = [t |-> (k - 1) * HtfBars,
                                       o |-> history[(k - 1) * HtfBars + 1].o,
                                       c |-> history[k * HtfBars].c]
<1> DEFINE L == Len(history)
           q == L \div HtfBars
           S == [t : Nat, o : Int, c : Int]
           candle(k) == [t |-> (k - 1) * HtfBars,
                      o |-> history[(k - 1) * HtfBars + 1].o,
                      c |-> history[k * HtfBars].c]
<1>1. L \in Nat /\ DOMAIN history = 1..L /\ HtfBars \in Nat \ {0}
  BY ReplayAssumption DEF Charted
<1>2. q \in Nat
  BY <1>1, WholeCandles
<1>3. \A i \in 1..L : history[i].o \in Int /\ history[i].c \in Int
  <2>1. history \in Seq(BarRecord)
    BY DEF Charted
  <2>2. \A i \in 1..L : history[i] \in BarRecord
    BY <1>1, <2>1
  <2> QED
    BY <2>2 DEF BarRecord
<1> HIDE DEF q, L
<1>4. ASSUME NEW k \in 1..q
      PROVE  /\ (k - 1) * HtfBars + 1 \in 1..L
             /\ k * HtfBars \in 1..L
             /\ (k - 1) * HtfBars \in Nat
             /\ candle(k) \in S
  <2>1. k \in Nat /\ k <= q
    BY <1>2
  <2>2. k * HtfBars <= L
    BY <1>1, <2>1, WholeCandles DEF q
  <2> DEFINE a == k * HtfBars
             b == (k - 1) * HtfBars
  <2>3. a = b + HtfBars /\ a \in Nat /\ b \in Nat
    <3>1. k - 1 \in Nat
      BY <1>2
    <3>2. \A x \in Nat, y \in Nat : x * y \in Nat /\ (x + 1) * y = x * y + y
      OBVIOUS
    <3>3. (k - 1) + 1 = k
      BY <2>1
    <3> QED
      BY <1>1, <2>1, <3>1, <3>2, <3>3
  <2>4. candle(k) = [t |-> b, o |-> history[b + 1].o, c |-> history[a].c]
    OBVIOUS
  <2>5. a <= L
    BY <2>2
  <2> HIDE DEF a, b
  <2>6. b + 1 \in 1..L /\ a \in 1..L
    BY <1>1, <2>3, <2>5
  <2> HIDE DEF candle
  <2>7. candle(k) \in S
    BY <1>3, <2>3, <2>4, <2>6
  <2> QED
    BY <2>3, <2>6, <2>7 DEF a, b
<1>5. Htf(history) = [k \in 1..q |-> candle(k)]
  BY DEF Htf, q, L
<1> HIDE DEF candle, S
<1>6. Htf(history) \in [1..q -> S]
  BY <1>4, <1>5
<1>7. Htf(history) \in Seq(S) /\ Len(Htf(history)) = q
  BY <1>2, <1>6
<1>8. \A k \in 1..q : Htf(history)[k] = candle(k)
  BY <1>5
<1> QED
  BY <1>1, <1>2, <1>4, <1>7, <1>8 DEF q, L, S, candle

(* What the decider is shown at a bar is the same of a longer history. *)
LEMMA FramesAgree ==
    ASSUME NEW old, NEW new, GoesOn(old, new), NEW t \in Nat, t <= Len(old)
    PROVE  SliceFrames(FramesFull(old), t) = SliceFrames(FramesFull(new), t)
<1>1. /\ old \in Seq(BarRecord) /\ new \in Seq(BarRecord) /\ Len(old) <= Len(new)
      /\ \A n \in DOMAIN old : old[n] = new[n]
      /\ \A n \in DOMAIN old : old[n].t = n - 1
      /\ \A n \in DOMAIN new : new[n].t = n - 1
  BY DEF GoesOn, Charted
<1>2. ClosedBy(old, 1, t) = ClosedBy(new, 1, t)
  <2> DEFINE shown(f) == {n \in DOMAIN f : f[n].t + 1 <= t}
  <2>1. shown(old) = shown(new)
    <3>1. \A n \in DOMAIN old : n \in Nat /\ n <= Len(old) /\ n \in DOMAIN new
      BY <1>1
    <3>2. \A n \in DOMAIN new : n \in Nat /\ (n <= t => n \in DOMAIN old)
      BY <1>1
    <3>3. shown(old) = {n \in DOMAIN old : n <= t}
      BY <1>1, <3>1
    <3>4. shown(new) = {n \in DOMAIN new : n <= t}
      BY <1>1, <3>2
    <3> QED
      BY <3>1, <3>2, <3>3, <3>4
  <2>2. shown(old) \in SUBSET DOMAIN old
    OBVIOUS
  <2>3. ClosedBy(old, 1, t) = UpTo(old, shown(old)) /\ ClosedBy(new, 1, t) = UpTo(new, shown(new))
    BY DEF ClosedBy
  <2> HIDE DEF shown
  <2> QED
    BY <1>1, <2>1, <2>2, <2>3, SameRows
<1> DEFINE f == Htf(old)
           g == Htf(new)
           S == [t : Nat, o : Int, c : Int]
           p == Len(old) \div HtfBars
           q == Len(new) \div HtfBars
<1>3. Charted(old) /\ Charted(new) /\ HtfBars \in Nat \ {0}
  BY ReplayAssumption DEF GoesOn
<1>4. /\ p \in Nat /\ q \in Nat
      /\ f \in Seq(S) /\ g \in Seq(S) /\ Len(f) = p /\ Len(g) = q
  BY <1>3, HtfIs
<1>5. \A k \in Nat : (k * HtfBars <= Len(old) <=> k <= p) /\ (k * HtfBars <= Len(new) <=> k <= q)
  <2>1. Len(old) \in Nat /\ Len(new) \in Nat
    BY <1>1
  <2> QED
    BY <1>3, <2>1, WholeCandles
<1>6. p <= q
  <2>1. p * HtfBars <= Len(old) /\ p * HtfBars \in Nat
    <3>1. p <= p
      BY <1>4
    <3> HIDE DEF p
    <3> QED
      BY <1>3, <1>4, <1>5, <3>1
  <2>2. p * HtfBars <= Len(new)
    BY <1>1, <2>1
  <2> QED
    BY <1>4, <1>5, <2>2
<1>7. \A k \in 1..p : f[k] = g[k] /\ f[k].t = (k - 1) * HtfBars
  <2> SUFFICES ASSUME NEW k \in 1..p PROVE f[k] = g[k] /\ f[k].t = (k - 1) * HtfBars
    OBVIOUS
  <2> DEFINE a == (k - 1) * HtfBars + 1
             b == k * HtfBars
             z == (k - 1) * HtfBars
  <2>1. a \in DOMAIN old /\ b \in DOMAIN old /\ f[k] = [t |-> z, o |-> old[a].o, c |-> old[b].c]
    BY <1>3, HtfIs
  <2>2. k \in 1..q
    BY <1>4, <1>6
  <2>3. g[k] = [t |-> z, o |-> new[a].o, c |-> new[b].c]
    BY <1>3, <2>2, HtfIs
  <2> HIDE DEF a, b, f, g, z
  <2>4. old[a] = new[a] /\ old[b] = new[b]
    BY <1>1, <2>1
  <2>5. f[k] = g[k] /\ f[k].t = z
    BY <2>1, <2>3, <2>4
  <2> QED
    BY <2>5 DEF z
<1>8. \A k \in 1..q : g[k].t = (k - 1) * HtfBars
  <2> SUFFICES ASSUME NEW k \in 1..q PROVE g[k].t = (k - 1) * HtfBars
    OBVIOUS
  <2>1. g[k] = [t |-> (k - 1) * HtfBars, o |-> new[(k - 1) * HtfBars + 1].o,
                c |-> new[k * HtfBars].c]
    BY <1>3, HtfIs
  <2> HIDE DEF g
  <2> QED
    BY <2>1
<1>9. ClosedBy(f, HtfBars, t) = ClosedBy(g, HtfBars, t)
  <2> DEFINE shown(fr) == {n \in DOMAIN fr : fr[n].t + HtfBars <= t}
  <2> HIDE DEF f, g, p, q
  <2>1. \A k \in 1..q : (k - 1) * HtfBars + HtfBars = k * HtfBars
    BY <1>3, <1>4
  <2>2. DOMAIN f = 1..p /\ DOMAIN g = 1..q
    BY <1>4
  <2>3. \A k \in 1..p : k \in 1..q
    BY <1>4, <1>6
  <2>4. ASSUME NEW k \in 1..q, k * HtfBars <= t PROVE k \in 1..p
    <3>1. k \in Nat /\ k * HtfBars \in Nat
      BY <1>3, <1>4
    <3>2. k * HtfBars <= Len(old)
      BY <1>1, <2>4, <3>1
    <3>3. k <= p
      BY <1>5, <3>1, <3>2
    <3> QED
      BY <1>4, <3>3
  <2>5. shown(f) = {k \in 1..p : k * HtfBars <= t}
    BY <1>7, <2>1, <2>2, <2>3
  <2>6. shown(g) = {k \in 1..q : k * HtfBars <= t}
    BY <1>8, <2>1, <2>2
  <2>7. shown(f) = shown(g)
    BY <2>3, <2>4, <2>5, <2>6
  <2>8. shown(f) \in SUBSET DOMAIN f
    OBVIOUS
  <2>9. ClosedBy(f, HtfBars, t) = UpTo(f, shown(f)) /\ ClosedBy(g, HtfBars, t) = UpTo(g, shown(g))
    BY DEF ClosedBy
  <2>10. Len(f) <= Len(g) /\ \A i \in DOMAIN f : f[i] = g[i]
    BY <1>4, <1>6, <1>7, <2>2
  <2> HIDE DEF shown, S
  <2> QED
    BY <1>4, <2>7, <2>8, <2>9, <2>10, SameRows
<1>10. \A h : SliceFrames(FramesFull(h), t) =
                [tf \in {"entry", "htf"} |->
                    IF tf = "entry" THEN ClosedBy(h, 1, t) ELSE ClosedBy(Htf(h), HtfBars, t)]
  BY DEF SliceFrames, FramesFull, Duration
<1> HIDE DEF f, g
<1> QED
  BY <1>2, <1>9, <1>10 DEF f, g

Trades == [t : Nat, signal : {"BUY", "SELL"}, entry : Int, sl : Int, tp : Int]

\* The stop of a trade is on one side of the entry and the target on the other.
InOrder(sig) ==
    /\ sig.signal = "BUY" => sig.sl <= sig.entry /\ sig.entry <= sig.tp
    /\ sig.signal = "SELL" => sig.tp <= sig.entry /\ sig.entry <= sig.sl

ScoredTrades == [sig : Trades, outcome : {"WIN", "LOSS", "OPEN", "NO_DATA"}, gain : Int]

\* A score lies where the levels of its trade do.
WithinLevels(r) ==
    /\ Move(r.sig, r.sig.sl) <= r.gain /\ r.gain <= Move(r.sig, r.sig.tp)
    /\ r.outcome = "OPEN" =>
          Move(r.sig, r.sig.sl) < r.gain /\ r.gain < Move(r.sig, r.sig.tp)

(* Every score is one of the three outcomes of the candles ahead. *)
LEMMA ScoreIs ==
    ASSUME NEW history, NEW sig
    PROVE  EvaluateSignal(sig, history) =
             IF Ahead(sig, history) = {} THEN Scored(sig, "NO_DATA", 0)
             ELSE IF Hits(sig, history) # {} THEN Filled(sig, history[Min(Hits(sig, history))])
             ELSE Scored(sig, "OPEN", Move(sig, history[Max(Ahead(sig, history))].c))
<1>1. Ahead(sig, history) = {} => Hits(sig, history) = {}
  BY DEF Hits
<1> QED
  BY <1>1 DEF EvaluateSignal

(* A score lies within the levels of its trade. *)
LEMMA ScoreWithin ==
    ASSUME NEW history, Charted(history), NEW sig \in Trades, InOrder(sig)
    PROVE  /\ EvaluateSignal(sig, history) \in ScoredTrades
           /\ EvaluateSignal(sig, history).sig = sig
           /\ WithinLevels(EvaluateSignal(sig, history))
<1> DEFINE ahead == Ahead(sig, history)
           hits == Hits(sig, history)
           r == EvaluateSignal(sig, history)
           L == Len(history)
<1>1. /\ L \in Nat /\ DOMAIN history = 1..L
      /\ \A n \in 1..L : history[n] \in BarRecord
      /\ \A n \in 1..L : history[n].l <= history[n].c /\ history[n].c <= history[n].h
  <2>1. history \in Seq(BarRecord)
    BY DEF Charted
  <2> QED
    BY <2>1 DEF Charted
<1> HIDE DEF L
<1>2. ahead \in SUBSET (1..L) /\ hits \in SUBSET ahead
  BY <1>1 DEF Ahead, Hits
<1>3. /\ sig.signal \in {"BUY", "SELL"} /\ sig.entry \in Int /\ sig.sl \in Int /\ sig.tp \in Int
  BY DEF Trades
<1>4. CASE ahead = {}
  <2>1. r = Scored(sig, "NO_DATA", 0)
    BY <1>4, ScoreIs
  <2> HIDE DEF r
  <2>2. r \in ScoredTrades /\ r.sig = sig /\ r.gain = 0 /\ r.outcome = "NO_DATA"
    BY <2>1 DEF Scored, ScoredTrades
  <2>3. WithinLevels(r)
    BY <1>3, <2>2 DEF WithinLevels, Move, InOrder
  <2> QED
    BY <2>2, <2>3 DEF r
<1>5. CASE ahead # {} /\ hits # {}
  <2> DEFINE k == history[Min(hits)]
  <2>1. r = Filled(sig, k)
    BY <1>5, ScoreIs
  <2> HIDE DEF r, k
  <2>2. \/ r = Scored(sig, "LOSS", Move(sig, sig.sl))
        \/ r = Scored(sig, "WIN", Move(sig, sig.tp))
    BY <2>1 DEF Filled
  <2>3. Move(sig, sig.sl) \in Int /\ Move(sig, sig.tp) \in Int
        /\ Move(sig, sig.sl) <= Move(sig, sig.tp)
    BY <1>3 DEF Move, InOrder
  <2> DEFINE loss == Move(sig, sig.sl)
             win == Move(sig, sig.tp)
  <2> HIDE DEF loss, win
  <2>4. r \in ScoredTrades /\ r.sig = sig /\ r.gain \in {loss, win} /\ r.outcome # "OPEN"
    BY <2>2, <2>3 DEF Scored, ScoredTrades, loss, win
  <2>5. WithinLevels(r)
    BY <2>3, <2>4 DEF WithinLevels, loss, win
  <2> QED
    BY <2>4, <2>5 DEF r
<1>6. CASE ahead # {} /\ hits = {}
  <2> DEFINE n == Max(ahead)
             k == history[n]
  <2>1. n \in ahead
    <3>1. ahead \in SUBSET Nat /\ \A x \in ahead : x <= L
      BY <1>1, <1>2
    <3> HIDE DEF ahead
    <3> QED
      BY <1>1, <1>6, <3>1, GreatestOf
  <2>2. n \in 1..L /\ ~HitSl(sig, k) /\ ~HitTp(sig, k)
    <3>1. n \notin hits
      BY <1>6
    <3> QED
      BY <1>2, <2>1, <3>1 DEF Hits
  <2>3. r = Scored(sig, "OPEN", Move(sig, k.c))
    BY <1>6, ScoreIs
  <2> HIDE DEF n
  <2>4. k \in BarRecord /\ k.l <= k.c /\ k.c <= k.h
    BY <1>1, <2>2
  <2> HIDE DEF k, r
  <2>5. k.l \in Int /\ k.c \in Int /\ k.h \in Int
    BY <2>4 DEF BarRecord
  <2>6. /\ Move(sig, k.c) \in Int
        /\ Move(sig, sig.sl) < Move(sig, k.c) /\ Move(sig, k.c) < Move(sig, sig.tp)
        /\ Move(sig, sig.sl) \in Int /\ Move(sig, sig.tp) \in Int
    BY <1>3, <2>2, <2>4, <2>5 DEF Move, HitSl, HitTp
  <2> DEFINE gain == Move(sig, k.c)
  <2> HIDE DEF gain
  <2>7. r \in ScoredTrades /\ r.sig = sig /\ r.gain = gain /\ r.outcome = "OPEN"
    BY <2>3, <2>6 DEF Scored, ScoredTrades, gain
  <2>8. WithinLevels(r)
    BY <2>6, <2>7 DEF WithinLevels, gain
  <2> QED
    BY <2>7, <2>8 DEF r
<1> QED
  BY <1>4, <1>5, <1>6

(* A trade that was won or lost stays so on a longer history. *)
LEMMA SettledStays ==
    ASSUME NEW old, NEW new, GoesOn(old, new), NEW sig, Settled(EvaluateSignal(sig, old))
    PROVE  EvaluateSignal(sig, new) = EvaluateSignal(sig, old)
<1> DEFINE h == Hits(sig, old)
           H == Hits(sig, new)
<1>1. /\ DOMAIN old = 1..Len(old) /\ DOMAIN new = 1..Len(new)
      /\ Len(old) \in Nat /\ Len(new) \in Nat /\ Len(old) <= Len(new)
      /\ \A n \in 1..Len(old) : old[n] = new[n]
  <2>1. old \in Seq(BarRecord) /\ new \in Seq(BarRecord)
    BY DEF GoesOn, Charted
  <2> QED
    BY <2>1 DEF GoesOn
<1>2. Ahead(sig, old) # {} /\ h # {}
  <2>1. ASSUME Ahead(sig, old) = {} \/ h = {}
        PROVE  EvaluateSignal(sig, old).outcome \in {"NO_DATA", "OPEN"}
    BY <2>1, ScoreIs DEF Scored
  <2> QED
    BY <2>1 DEF Settled
<1>3. h \in SUBSET (1..Len(old)) /\ H \in SUBSET (1..Len(new))
  BY <1>1 DEF Hits, Ahead
<1>4. \A n \in 1..Len(old) : n \in h <=> n \in H
  BY <1>1 DEF Hits, Ahead
<1>5. H # {} /\ Ahead(sig, new) # {}
  BY <1>2, <1>3, <1>4 DEF Hits
<1> HIDE DEF h, H
<1>6. Min(H) = Min(h)
  <2>1. h \in SUBSET Nat /\ H \in SUBSET Nat
    BY <1>3
  <2> DEFINE a == Min(h)
             b == Min(H)
  <2>2. a \in h /\ \A x \in h : a <= x
    BY <1>2, <2>1, LeastOf
  <2>3. b \in H /\ \A x \in H : b <= x
    BY <1>5, <2>1, LeastOf
  <2> HIDE DEF a, b
  <2>4. a \in H /\ b <= a
    BY <1>3, <1>4, <2>2, <2>3
  <2>5. b \in 1..Len(old)
    BY <1>1, <1>3, <2>2, <2>3, <2>4
  <2>6. a <= b
    BY <1>4, <2>2, <2>3, <2>5
  <2>7. a \in Nat /\ b \in Nat
    BY <2>1, <2>2, <2>3
  <2> QED
    BY <2>4, <2>6, <2>7 DEF a, b
<1>7. old[Min(h)] = new[Min(H)]
  <2>1. Min(h) \in h
    BY <1>2, <1>3, LeastOf
  <2> QED
    BY <1>1, <1>3, <1>6, <2>1
<1> QED
  BY <1>2, <1>5, <1>7, ScoreIs DEF h, H

\* A decision to trade has its stop and its target on either side of the entry.
Sound(d) ==
    /\ d.decision \in {"LONG", "SHORT", "NO_TRADE"}
    /\ d.decision # "NO_TRADE" => {d.entry, d.sl, d.tp} \subseteq Int
    /\ d.decision = "LONG" => d.sl <= d.entry /\ d.entry <= d.tp
    /\ d.decision = "SHORT" => d.tp <= d.entry /\ d.entry <= d.sl

\* So are those of the decider at every bar of every history.
DecidesSoundly ==
    \A history : Charted(history) =>
        \A t \in 1..Len(history) : Sound(Decide(SliceFrames(FramesFull(history), t)))

RunReports == [results : Seq(ScoredTrades), no_trade : Nat, logged_only : Nat]

\* The report of n bars, each of which it counts once at most.
ReportOf(rep, n) ==
    /\ rep \in RunReports
    /\ rep.no_trade + rep.logged_only + Len(rep.results) <= n
    /\ \A i \in DOMAIN rep.results : WithinLevels(rep.results[i])

\* Two reports on the same bars, the second with more candles behind them.
Alike(a, b) ==
    /\ b.no_trade = a.no_trade /\ b.logged_only = a.logged_only
    /\ Len(b.results) = Len(a.results)
    /\ \A i \in DOMAIN a.results :
          /\ b.results[i].sig = a.results[i].sig
          /\ Settled(a.results[i]) => b.results[i] = a.results[i]

\* The second report has what the first has, and in its places.
AddsTo(a, b) ==
    /\ a.no_trade <= b.no_trade
    /\ Len(a.results) <= Len(b.results)
    /\ \A i \in DOMAIN a.results : b.results[i] = a.results[i]

(* What becomes of a bar: nothing while the coin cools down, a count, or a *)
(* setup that is scored.                                                   *)
LEMMA BarIs ==
    ASSUME NEW rep \in RunReports, NEW k, NEW history, NEW d,
           d = Decide(SliceFrames(FramesFull(history), k.t + 1))
    PROVE  ReplayBar(rep, k, history) =
             IF Cooling(rep.results, k.t) THEN rep
             ELSE IF d.decision = "NO_TRADE" THEN [rep EXCEPT !.no_trade = @ + 1]
             ELSE IF d.quality < ALERT_QUALITY_MIN THEN [rep EXCEPT !.logged_only = @ + 1]
             ELSE [rep EXCEPT !.results =
                       Append(@, EvaluateSignal(Signal(d, k.t), history))]
  BY DEF ReplayBar, Judged

(* The signal of a sound decision is a trade. *)
LEMMA SignalIs ==
    ASSUME NEW d, Sound(d), d.decision # "NO_TRADE", NEW t \in Nat
    PROVE  Signal(d, t) \in Trades /\ InOrder(Signal(d, t)) /\ Signal(d, t).t = t
  BY DEF Sound, Signal, Trades, InOrder

(* A report with one more result. *)
LEMMA OneMore ==
    ASSUME NEW rep \in RunReports, NEW r \in ScoredTrades
    PROVE  LET new == [rep EXCEPT !.results = Append(@, r)] IN
           /\ new \in RunReports
           /\ new.no_trade = rep.no_trade /\ new.logged_only = rep.logged_only
           /\ Len(new.results) = Len(rep.results) + 1
           /\ DOMAIN new.results = 1..Len(rep.results) + 1
           /\ DOMAIN rep.results = 1..Len(rep.results) /\ Len(rep.results) \in Nat
           /\ \A i \in DOMAIN rep.results : new.results[i] = rep.results[i]
           /\ new.results[Len(rep.results) + 1] = r
<1> DEFINE s == rep.results
           q == Append(s, r)
<1>1. s \in Seq(ScoredTrades) /\ rep.no_trade \in Nat /\ rep.logged_only \in Nat
      /\ rep = [results |-> s, no_trade |-> rep.no_trade, logged_only |-> rep.logged_only]
  BY DEF RunReports
<1>2. /\ q \in Seq(ScoredTrades) /\ Len(q) = Len(s) + 1 /\ Len(s) \in Nat
      /\ DOMAIN s = 1..Len(s) /\ DOMAIN q = 1..Len(s) + 1
      /\ \A i \in DOMAIN s : q[i] = s[i]
      /\ q[Len(s) + 1] = r
  BY <1>1
<1>3. [rep EXCEPT !.results = q]
        = [results |-> q, no_trade |-> rep.no_trade, logged_only |-> rep.logged_only]
  <2> HIDE DEF q
  <2> QED
    BY DEF RunReports
<1> HIDE DEF q, s
<1>4. [results |-> q, no_trade |-> rep.no_trade, logged_only |-> rep.logged_only] \in RunReports
  BY <1>1, <1>2 DEF RunReports
<1> QED
  BY <1>2, <1>3, <1>4 DEF q, s

(* A bar is counted once at most, and what it adds is within its levels. *)
LEMMA BarKeeps ==
    ASSUME DecidesSoundly, NEW history, Charted(history), NEW n \in DOMAIN history,
           NEW rep, ReportOf(rep, n - 1)
    PROVE  /\ ReportOf(ReplayBar(rep, history[n], history), n)
           /\ AddsTo(rep, ReplayBar(rep, history[n], history))
<1> DEFINE k == history[n]
           d == Decide(SliceFrames(FramesFull(history), k.t + 1))
           new == ReplayBar(rep, k, history)
<1>1. k.t = n - 1 /\ n \in Nat /\ n - 1 \in Nat /\ n \in 1..Len(history) /\ k.t + 1 = n
  <2>1. history \in Seq(BarRecord) /\ k.t = n - 1
    BY DEF Charted
  <2>2. n \in 1..Len(history) /\ Len(history) \in Nat
    BY <2>1
  <2> HIDE DEF k
  <2> QED
    BY <2>1, <2>2
<1>2. Sound(d)
  <2>1. Sound(Decide(SliceFrames(FramesFull(history), n)))
    BY <1>1 DEF DecidesSoundly
  <2> QED
    BY <1>1, <2>1
<1>3. /\ rep \in RunReports
      /\ rep.no_trade \in Nat /\ rep.logged_only \in Nat /\ rep.results \in Seq(ScoredTrades)
      /\ rep.no_trade + rep.logged_only + Len(rep.results) <= n - 1
      /\ \A i \in DOMAIN rep.results : WithinLevels(rep.results[i])
  BY DEF ReportOf, RunReports
<1>4. Len(rep.results) \in Nat
  BY <1>3
<1> HIDE DEF k, d
<1>5. new = IF Cooling(rep.results, k.t) THEN rep
            ELSE IF d.decision = "NO_TRADE" THEN [rep EXCEPT !.no_trade = @ + 1]
            ELSE IF d.quality < ALERT_QUALITY_MIN THEN [rep EXCEPT !.logged_only = @ + 1]
            ELSE [rep EXCEPT !.results =
                      Append(@, EvaluateSignal(Signal(d, k.t), history))]
  BY <1>3, BarIs DEF d
<1> HIDE DEF new
<1>6. CASE new = rep
  BY <1>1, <1>3, <1>4, <1>6 DEF ReportOf, AddsTo, k, new
<1>7. CASE new = [rep EXCEPT !.no_trade = @ + 1]
  <2>1. new \in RunReports /\ new.no_trade = rep.no_trade + 1
        /\ new.logged_only = rep.logged_only /\ new.results = rep.results
    BY <1>3, <1>7 DEF RunReports
  <2>2. ReportOf(new, n) /\ AddsTo(rep, new)
    BY <1>1, <1>3, <1>4, <2>1 DEF ReportOf, AddsTo
  <2> QED
    BY <2>2 DEF new, k
<1>8. CASE new = [rep EXCEPT !.logged_only = @ + 1]
  <2>1. new \in RunReports /\ new.logged_only = rep.logged_only + 1
        /\ new.no_trade = rep.no_trade /\ new.results = rep.results
    BY <1>3, <1>8 DEF RunReports
  <2>2. ReportOf(new, n) /\ AddsTo(rep, new)
    BY <1>1, <1>3, <1>4, <2>1 DEF ReportOf, AddsTo
  <2> QED
    BY <2>2 DEF new, k
<1>9. CASE /\ d.decision # "NO_TRADE"
           /\ new = [rep EXCEPT !.results =
                         Append(@, EvaluateSignal(Signal(d, k.t), history))]
  <2> DEFINE sig == Signal(d, k.t)
             r == EvaluateSignal(sig, history)
  <2>1. sig \in Trades /\ InOrder(sig)
    BY <1>1, <1>2, <1>9, SignalIs
  <2> HIDE DEF sig
  <2>2. r \in ScoredTrades /\ WithinLevels(r)
    BY <2>1, ScoreWithin
  <2>3. new = [rep EXCEPT !.results = Append(@, r)]
    BY <1>9 DEF sig
  <2> HIDE DEF r
  <2>4. /\ new \in RunReports
        /\ new.no_trade = rep.no_trade /\ new.logged_only = rep.logged_only
        /\ Len(new.results) = Len(rep.results) + 1
        /\ DOMAIN new.results = 1..Len(rep.results) + 1
        /\ DOMAIN rep.results = 1..Len(rep.results)
        /\ \A i \in DOMAIN rep.results : new.results[i] = rep.results[i]
        /\ new.results[Len(rep.results) + 1] = r
    BY <1>3, <2>2, <2>3, OneMore
  <2>5. \A i \in DOMAIN new.results : WithinLevels(new.results[i])
    <3> SUFFICES ASSUME NEW i \in DOMAIN new.results PROVE WithinLevels(new.results[i])
      OBVIOUS
    <3>1. i \in DOMAIN rep.results \/ i = Len(rep.results) + 1
      BY <1>4, <2>4
    <3> QED
      BY <1>3, <2>2, <2>4, <3>1
  <2>6. ReportOf(new, n) /\ AddsTo(rep, new)
    BY <1>1, <1>3, <1>4, <2>4, <2>5 DEF ReportOf, AddsTo
  <2> QED
    BY <2>6 DEF new, k
<1> QED
  BY <1>5, <1>6, <1>7, <1>8, <1>9

(* A bar adds the same to the report on a history and on a longer one. *)
LEMMA BarAgrees ==
    ASSUME DecidesSoundly, NEW old, NEW new, GoesOn(old, new), NEW n \in DOMAIN old,
           NEW a \in RunReports, NEW b \in RunReports, Alike(a, b)
    PROVE  Alike(ReplayBar(a, old[n], old), ReplayBar(b, new[n], new))
<1> DEFINE k == old[n]
           d == Decide(SliceFrames(FramesFull(old), k.t + 1))
           x == ReplayBar(a, k, old)
           y == ReplayBar(b, k, new)
<1>1. old \in Seq(BarRecord) /\ Charted(old) /\ Charted(new) /\ new[n] = k /\ k.t = n - 1
  BY DEF GoesOn, Charted
<1>2. n \in 1..Len(old) /\ n \in Nat /\ k.t \in Nat /\ k.t + 1 = n
  <2>1. n \in 1..Len(old) /\ Len(old) \in Nat
    BY <1>1
  <2> HIDE DEF k
  <2> QED
    BY <1>1, <2>1
<1>3. d = Decide(SliceFrames(FramesFull(new), k.t + 1))
  <2>1. SliceFrames(FramesFull(old), n) = SliceFrames(FramesFull(new), n)
    BY <1>2, FramesAgree
  <2> QED
    BY <1>2, <2>1
<1>4. Sound(d)
  <2>1. Sound(Decide(SliceFrames(FramesFull(old), n)))
    BY <1>1, <1>2 DEF DecidesSoundly
  <2> QED
    BY <1>2, <2>1
<1>5. /\ a.no_trade \in Nat /\ a.logged_only \in Nat /\ a.results \in Seq(ScoredTrades)
      /\ b.no_trade \in Nat /\ b.logged_only \in Nat /\ b.results \in Seq(ScoredTrades)
      /\ Len(a.results) = Len(b.results) /\ Len(a.results) \in Nat
      /\ DOMAIN a.results = 1..Len(a.results) /\ DOMAIN b.results = 1..Len(a.results)
      /\ b.no_trade = a.no_trade /\ b.logged_only = a.logged_only
      /\ \A i \in DOMAIN a.results :
            /\ b.results[i].sig = a.results[i].sig
            /\ Settled(a.results[i]) => b.results[i] = a.results[i]
  BY DEF RunReports, Alike
<1> HIDE DEF k, d
<1>6. Cooling(a.results, k.t) <=> Cooling(b.results, k.t)
  <2>1. a.results = << >> <=> b.results = << >>
    BY <1>5
  <2>2. a.results # << >> => Last(a.results).sig = Last(b.results).sig
    <3> SUFFICES ASSUME a.results # << >> PROVE Last(a.results).sig = Last(b.results).sig
      OBVIOUS
    <3> DEFINE m == Len(a.results)
    <3>1. m \in DOMAIN a.results
      BY <1>5
    <3>2. Last(a.results) = a.results[m] /\ Last(b.results) = b.results[m]
      BY <1>5 DEF Last
    <3> QED
      BY <1>5, <3>1, <3>2
  <2> QED
    BY <2>1, <2>2, Zenon DEF Cooling
<1>7. x = IF Cooling(a.results, k.t) THEN a
          ELSE IF d.decision = "NO_TRADE" THEN [a EXCEPT !.no_trade = @ + 1]
          ELSE IF d.quality < ALERT_QUALITY_MIN THEN [a EXCEPT !.logged_only = @ + 1]
          ELSE [a EXCEPT !.results = Append(@, EvaluateSignal(Signal(d, k.t), old))]
  BY BarIs DEF d
<1>8. y = IF Cooling(b.results, k.t) THEN b
          ELSE IF d.decision = "NO_TRADE" THEN [b EXCEPT !.no_trade = @ + 1]
          ELSE IF d.quality < ALERT_QUALITY_MIN THEN [b EXCEPT !.logged_only = @ + 1]
          ELSE [b EXCEPT !.results = Append(@, EvaluateSignal(Signal(d, k.t), new))]
  BY <1>3, BarIs
<1> HIDE DEF x, y
<1>9. CASE x = a /\ y = b
  BY <1>1, <1>9 DEF x, y, k
<1>10. CASE x = [a EXCEPT !.no_trade = @ + 1] /\ y = [b EXCEPT !.no_trade = @ + 1]
  <2>1. /\ x.no_trade = a.no_trade + 1 /\ x.logged_only = a.logged_only /\ x.results = a.results
        /\ y.no_trade = b.no_trade + 1 /\ y.logged_only = b.logged_only /\ y.results = b.results
    BY <1>10 DEF RunReports
  <2>2. Alike(x, y)
    BY <1>5, <2>1 DEF Alike
  <2> QED
    BY <1>1, <2>2 DEF x, y, k
<1>11. CASE x = [a EXCEPT !.logged_only = @ + 1] /\ y = [b EXCEPT !.logged_only = @ + 1]
  <2>1. /\ x.no_trade = a.no_trade /\ x.logged_only = a.logged_only + 1 /\ x.results = a.results
        /\ y.no_trade = b.no_trade /\ y.logged_only = b.logged_only + 1 /\ y.results = b.results
    BY <1>11 DEF RunReports
  <2>2. Alike(x, y)
    BY <1>5, <2>1 DEF Alike
  <2> QED
    BY <1>1, <2>2 DEF x, y, k
<1>12. CASE /\ d.decision # "NO_TRADE"
            /\ x = [a EXCEPT !.results = Append(@, EvaluateSignal(Signal(d, k.t), old))]
            /\ y = [b EXCEPT !.results = Append(@, EvaluateSignal(Signal(d, k.t), new))]
  <2> DEFINE sig == Signal(d, k.t)
             r == EvaluateSignal(sig, old)
             s == EvaluateSignal(sig, new)
  <2>1. sig \in Trades /\ InOrder(sig)
    BY <1>2, <1>4, <1>12, SignalIs
  <2>2. x = [a EXCEPT !.results = Append(@, r)] /\ y = [b EXCEPT !.results = Append(@, s)]
    BY <1>12
  <2> HIDE DEF sig
  <2>3. r \in ScoredTrades /\ s \in ScoredTrades /\ r.sig = s.sig
    BY <1>1, <2>1, ScoreWithin
  <2>4. Settled(r) => s = r
    BY SettledStays
  <2> HIDE DEF r, s
  <2> DEFINE m == Len(a.results)
  <2>5. /\ x.no_trade = a.no_trade /\ x.logged_only = a.logged_only
        /\ Len(x.results) = m + 1 /\ DOMAIN x.results = 1..m + 1
        /\ \A i \in DOMAIN a.results : x.results[i] = a.results[i]
        /\ x.results[m + 1] = r
    BY <2>2, <2>3, OneMore
  <2>6. /\ y.no_trade = b.no_trade /\ y.logged_only = b.logged_only
        /\ Len(y.results) = m + 1
        /\ \A i \in DOMAIN b.results : y.results[i] = b.results[i]
        /\ y.results[m + 1] = s
    <3> DEFINE l == Len(b.results)
    <3>1. /\ y.no_trade = b.no_trade /\ y.logged_only = b.logged_only
          /\ Len(y.results) = l + 1
          /\ \A i \in DOMAIN b.results : y.results[i] = b.results[i]
          /\ y.results[l + 1] = s
      BY <2>2, <2>3, OneMore
    <3> QED
      BY <1>5, <3>1
  <2>7. ASSUME NEW i \in DOMAIN x.results
        PROVE  /\ y.results[i].sig = x.results[i].sig
               /\ Settled(x.results[i]) => y.results[i] = x.results[i]
    <3>1. CASE i = m + 1
      BY <2>3, <2>4, <2>5, <2>6, <3>1
    <3>2. CASE i # m + 1
      <4>1. i \in DOMAIN a.results /\ i \in DOMAIN b.results
        BY <1>5, <2>5, <3>2
      <4> QED
        BY <1>5, <2>5, <2>6, <4>1
    <3> QED
      BY <3>1, <3>2
  <2>8. Alike(x, y)
    BY <1>5, <2>5, <2>6, <2>7 DEF Alike
  <2> QED
    BY <1>1, <2>8 DEF x, y, k
<1> QED
  BY <1>6, <1>7, <1>8, <1>9, <1>10, <1>11, <1>12

\* A run over a history, bar by bar.
RunOver(f, history) == \A n \in 0..Len(history) : f[n] = OnTo(f, n, history)

(* Every report of a run counts its bars once at most. *)
LEMMA RunKeeps ==
    ASSUME DecidesSoundly, NEW history, Charted(history), NEW f, RunOver(f, history)
    PROVE  \A n \in 0..Len(history) : ReportOf(f[n], n)
<1> DEFINE bad == {n \in 0..Len(history) : ~ReportOf(f[n], n)}
<1>1. Len(history) \in Nat /\ DOMAIN history = 1..Len(history)
  BY DEF Charted
<1>2. SUFFICES ASSUME bad # {} PROVE FALSE
  OBVIOUS
<1> DEFINE n == Min(bad)
<1>3. bad \in SUBSET Nat
  BY <1>1
<1>4. n \in bad /\ \A k \in bad : n <= k
  BY <1>2, <1>3, LeastOf
<1> HIDE DEF n
<1>5. n \in 0..Len(history) /\ f[n] = OnTo(f, n, history)
  BY <1>4 DEF RunOver
<1>6. CASE n = 0
  <2>1. f[n] = EmptyReport
    BY <1>5, <1>6 DEF OnTo
  <2>2. ReportOf(f[n], n)
    BY <1>6, <2>1 DEF EmptyReport, ReportOf, RunReports
  <2> QED
    BY <1>4, <2>2
<1>7. CASE n # 0
  <2>1. n - 1 \in 0..Len(history) /\ n - 1 \notin bad /\ n \in DOMAIN history
    BY <1>1, <1>4, <1>5, <1>7
  <2>2. ReportOf(f[n - 1], n - 1)
    BY <2>1
  <2>3. ReportOf(ReplayBar(f[n - 1], history[n], history), n)
    BY <2>1, <2>2, BarKeeps
  <2>4. f[n] = ReplayBar(f[n - 1], history[n], history)
    BY <1>5, <1>7 DEF OnTo
  <2> QED
    BY <1>4, <2>3, <2>4
<1> QED
  BY <1>6, <1>7

(* While two runs read the same bars their reports are alike. *)
LEMMA RunsAlike ==
    ASSUME DecidesSoundly, NEW old, NEW new, GoesOn(old, new),
           NEW f, RunOver(f, old), NEW g, RunOver(g, new)
    PROVE  \A n \in 0..Len(old) : Alike(f[n], g[n])
<1> DEFINE bad == {n \in 0..Len(old) : ~Alike(f[n], g[n])}
<1>1. /\ Len(old) \in Nat /\ DOMAIN old = 1..Len(old)
      /\ Len(new) \in Nat /\ Len(old) <= Len(new)
      /\ Charted(old) /\ Charted(new)
  BY DEF GoesOn, Charted
<1>2. SUFFICES ASSUME bad # {} PROVE FALSE
  OBVIOUS
<1> DEFINE n == Min(bad)
<1>3. bad \in SUBSET Nat
  BY <1>1
<1>4. n \in bad /\ \A k \in bad : n <= k
  BY <1>2, <1>3, LeastOf
<1> HIDE DEF n
<1>5. n \in 0..Len(old) /\ n \in 0..Len(new)
      /\ f[n] = OnTo(f, n, old) /\ g[n] = OnTo(g, n, new)
  BY <1>1, <1>4 DEF RunOver
<1>6. CASE n = 0
  <2>1. f[n] = EmptyReport /\ g[n] = EmptyReport
    BY <1>5, <1>6 DEF OnTo
  <2>2. Alike(f[n], g[n])
    BY <2>1 DEF EmptyReport, Alike
  <2> QED
    BY <1>4, <2>2
<1>7. CASE n # 0
  <2>1. n - 1 \in 0..Len(old) /\ n - 1 \in 0..Len(new) /\ n - 1 \notin bad /\ n \in DOMAIN old
    BY <1>1, <1>4, <1>5, <1>7
  <2>2. Alike(f[n - 1], g[n - 1])
    BY <2>1
  <2>3. f[n - 1] \in RunReports /\ g[n - 1] \in RunReports
    <3>1. ReportOf(f[n - 1], n - 1) /\ ReportOf(g[n - 1], n - 1)
      BY <1>1, <2>1, RunKeeps
    <3> QED
      BY <3>1 DEF ReportOf
  <2>4. Alike(ReplayBar(f[n - 1], old[n], old), ReplayBar(g[n - 1], new[n], new))
    BY <2>1, <2>2, <2>3, BarAgrees
  <2>5. f[n] = ReplayBar(f[n - 1], old[n], old) /\ g[n] = ReplayBar(g[n - 1], new[n], new)
    BY <1>5, <1>7 DEF OnTo
  <2> QED
    BY <1>4, <2>4, <2>5
<1> QED
  BY <1>6, <1>7

(* The report on more bars of one run has what the report on fewer has. *)
LEMMA RunAdds ==
    ASSUME DecidesSoundly, NEW history, Charted(history), NEW f, RunOver(f, history),
           NEW m \in 0..Len(history)
    PROVE  \A n \in m..Len(history) : AddsTo(f[m], f[n])
<1> DEFINE bad == {n \in m..Len(history) : ~AddsTo(f[m], f[n])}
<1>1. Len(history) \in Nat /\ DOMAIN history = 1..Len(history) /\ m \in Nat
  BY DEF Charted
<1>2. SUFFICES ASSUME bad # {} PROVE FALSE
  OBVIOUS
<1> DEFINE n == Min(bad)
<1>3. bad \in SUBSET Nat
  BY <1>1
<1>4. n \in bad /\ \A k \in bad : n <= k
  BY <1>2, <1>3, LeastOf
<1> HIDE DEF n
<1>5. n \in m..Len(history) /\ n \in 0..Len(history) /\ f[n] = OnTo(f, n, history)
  BY <1>1, <1>4 DEF RunOver
<1>6. \A k \in 0..Len(history) : ReportOf(f[k], k)
  BY RunKeeps
<1>7. \A k \in 0..Len(history) : f[k].no_trade \in Nat /\ f[k].results \in Seq(ScoredTrades)
  BY <1>6 DEF ReportOf, RunReports
<1>8. CASE n = m
  <2>1. AddsTo(f[m], f[n])
    BY <1>5, <1>7, <1>8 DEF AddsTo
  <2> QED
    BY <1>4, <2>1
<1>9. CASE n # m
  <2>1. /\ n - 1 \in m..Len(history) /\ n - 1 \in 0..Len(history)
        /\ n - 1 \notin bad /\ n \in DOMAIN history /\ n # 0
    BY <1>1, <1>4, <1>5, <1>9
  <2>2. AddsTo(f[m], f[n - 1])
    BY <2>1
  <2>3. AddsTo(f[n - 1], ReplayBar(f[n - 1], history[n], history))
    BY <1>6, <2>1, BarKeeps
  <2>4. f[n] = ReplayBar(f[n - 1], history[n], history)
    BY <1>5, <2>1 DEF OnTo
  <2> DEFINE a == f[m]
             b == f[n - 1]
             c == f[n]
  <2>5. /\ a.no_trade \in Nat /\ a.results \in Seq(ScoredTrades)
        /\ b.no_trade \in Nat /\ b.results \in Seq(ScoredTrades)
        /\ c.no_trade \in Nat /\ c.results \in Seq(ScoredTrades)
    BY <1>5, <1>7, <2>1
  <2>6. AddsTo(a, b) /\ AddsTo(b, c)
    BY <2>2, <2>3, <2>4
  <2> HIDE DEF a, b, c
  <2>7. AddsTo(a, c)
    BY <2>5, <2>6 DEF AddsTo
  <2> QED
    BY <1>4, <2>7 DEF a, c
<1> QED
  BY <1>8, <1>9

(* Two runs of the backtest, the second over a longer history. *)
LEMMA ReportsAgree ==
    ASSUME DecidesSoundly, NEW old, NEW new, GoesOn(old, new)
    PROVE  LET a == ReplayStrategy(old)
               b == ReplayStrategy(new) IN
           /\ ReportOf(a, Len(old))
           /\ Len(a.results) <= Len(b.results)
           /\ \A i \in DOMAIN a.results :
                 /\ b.results[i].sig = a.results[i].sig
                 /\ Settled(a.results[i]) => b.results[i] = a.results[i]
           /\ b.no_trade >= a.no_trade
<1>1. /\ Len(old) \in Nat /\ DOMAIN old = 1..Len(old)
      /\ Len(new) \in Nat /\ DOMAIN new = 1..Len(new) /\ Len(old) <= Len(new)
      /\ Charted(old) /\ Charted(new)
  BY DEF GoesOn, Charted
<1>2. PICK f : RunOver(f, old) /\ ReplayStrategy(old) = f[Len(old)]
  BY <1>1, RunIs DEF RunOver
<1>3. PICK g : RunOver(g, new) /\ ReplayStrategy(new) = g[Len(new)]
  BY <1>1, RunIs DEF RunOver
<1>4. Len(old) \in 0..Len(old) /\ Len(old) \in 0..Len(new) /\ Len(new) \in Len(old)..Len(new)
      /\ Len(new) \in 0..Len(new)
  BY <1>1
<1> DEFINE a == f[Len(old)]
           c == g[Len(old)]
           b == g[Len(new)]
<1>5. ReportOf(a, Len(old)) /\ ReportOf(c, Len(old)) /\ ReportOf(b, Len(new))
  BY <1>1, <1>2, <1>3, <1>4, RunKeeps
<1>6. Alike(a, c)
  BY <1>2, <1>3, <1>4, RunsAlike
<1>7. AddsTo(c, b)
  BY <1>1, <1>3, <1>4, RunAdds
<1>8. /\ ReplayStrategy(old) = a /\ ReplayStrategy(new) = b
  BY <1>2, <1>3
<1> HIDE DEF a, b, c
<1>9. /\ a.results \in Seq(ScoredTrades) /\ c.results \in Seq(ScoredTrades) /\ b.results \in Seq(ScoredTrades)
      /\ a.no_trade \in Nat /\ c.no_trade \in Nat /\ b.no_trade \in Nat
  BY <1>5 DEF ReportOf, RunReports
<1>10. DOMAIN a.results = DOMAIN c.results
  BY <1>6, <1>9 DEF Alike
<1>11. /\ Len(a.results) <= Len(b.results)
       /\ \A i \in DOMAIN a.results :
             /\ b.results[i].sig = a.results[i].sig
             /\ Settled(a.results[i]) => b.results[i] = a.results[i]
       /\ b.no_trade >= a.no_trade
  BY <1>6, <1>7, <1>9, <1>10 DEF Alike, AddsTo
<1> QED
  BY <1>5, <1>8, <1>11

(* A history and itself, and a run over no bars. *)
LEMMA NoBars ==
    /\ GoesOn(<< >>, << >>)
    /\ ReplayStrategy(<< >>) = EmptyReport
<1>1. Charted(<< >>)
  BY DEF Charted
<1>2. DOMAIN << >> = 1..0
  OBVIOUS
<1>3. PICK f : f[0] = OnTo(f, 0, << >>) /\ ReplayStrategy(<< >>) = f[0]
  <2>1. 0 \in 0..0 /\ 0 \in Nat
    OBVIOUS
  <2>2. \E f : /\ \A n \in 0..0 : f[n] = OnTo(f, n, << >>)
               /\ ReplayStrategy(<< >>) = f[0]
    BY <1>2, <2>1, RunIs
  <2> QED
    BY <2>1, <2>2
<1> QED
  BY <1>1, <1>3 DEF GoesOn, OnTo

\* The bars are a history, and the report is that of a run over the first of
\* them.
ReplayInv ==
    /\ Charted(bars) /\ Len(bars) <= MaxBars
    /\ \E old : GoesOn(old, bars) /\ report = ReplayStrategy(old)

(* Another bar closes. *)
LEMMA BarCharted ==
    ASSUME NEW history, Charted(history), NEW k \in Shapes
    PROVE  LET longer == Append(history, Bar(Close(history), Len(history), k)) IN
           /\ Charted(longer) /\ Len(longer) = Len(history) + 1
           /\ \A old : GoesOn(old, history) => GoesOn(old, longer)
<1> DEFINE L == Len(history)
           open == Close(history)
           bar == Bar(open, L, k)
           longer == Append(history, bar)
<1>1. /\ history \in Seq(BarRecord) /\ L \in Nat /\ DOMAIN history = 1..L
      /\ \A n \in 1..L :
            /\ history[n].t = n - 1
            /\ history[n].l <= history[n].c /\ history[n].c <= history[n].h
  BY DEF Charted
<1>2. open \in Int
  <2>1. CASE history = << >>
    BY <2>1 DEF Close, Start
  <2>2. CASE history # << >>
    <3>1. L \in DOMAIN history
      BY <1>1, <2>2
    <3>2. history[L] \in BarRecord
      BY <1>1, <3>1
    <3> QED
      BY <2>2, <3>2 DEF Close, Last, BarRecord
  <2> QED
    BY <2>1, <2>2
<1>3. k.h \in Int /\ k.l \in Int /\ k.c \in Int /\ k.l <= k.c /\ k.c <= k.h
  <2>1. k \in [h : Nat, l : Int, c : Int]
    BY ReplayAssumption
  <2> QED
    BY <2>1, ReplayAssumption
<1> HIDE DEF open, L
<1>4. bar \in BarRecord /\ bar.t = L /\ bar.l <= bar.c /\ bar.c <= bar.h
  BY <1>1, <1>2, <1>3 DEF Bar, BarRecord
<1> HIDE DEF bar
<1>5. /\ longer \in Seq(BarRecord) /\ Len(longer) = L + 1 /\ DOMAIN longer = 1..L + 1
      /\ \A n \in 1..L : longer[n] = history[n]
      /\ longer[L + 1] = bar
  BY <1>1, <1>4 DEF L
<1> HIDE DEF longer
<1>6. Charted(longer)
  <2> SUFFICES ASSUME NEW n \in 1..L + 1
               PROVE  /\ longer[n].t = n - 1
                      /\ longer[n].l <= longer[n].c /\ longer[n].c <= longer[n].h
    BY <1>5 DEF Charted
  <2>1. CASE n = L + 1
    BY <1>1, <1>4, <1>5, <2>1
  <2>2. CASE n # L + 1
    <3>1. n \in 1..L
      BY <1>1, <2>2
    <3> QED
      BY <1>1, <1>5, <3>1
  <2> QED
    BY <2>1, <2>2
<1>7. ASSUME NEW old, GoesOn(old, history) PROVE GoesOn(old, longer)
  <2>1. /\ Charted(old) /\ Len(old) <= L /\ Len(old) \in Nat /\ DOMAIN old = 1..Len(old)
        /\ \A n \in DOMAIN old : old[n] = history[n]
    BY <1>7 DEF GoesOn, Charted, L
  <2>2. \A n \in DOMAIN old : old[n] = longer[n]
    BY <1>1, <1>5, <2>1
  <2>3. Len(old) <= Len(longer)
    BY <1>1, <1>5, <2>1
  <2> QED
    BY <1>6, <2>1, <2>2, <2>3 DEF GoesOn
<1> QED
  BY <1>5, <1>6, <1>7 DEF longer, bar, open, L

LEMMA ReplayInvStart == ReplayInit => ReplayInv
<1> SUFFICES ASSUME ReplayInit PROVE ReplayInv
  OBVIOUS
<1>1. bars = << >> /\ report = EmptyReport
  BY DEF ReplayInit
<1>2. Charted(bars) /\ GoesOn(<< >>, bars)
  BY <1>1, NoBars DEF GoesOn
<1>3. Len(bars) <= MaxBars
  BY <1>1, ReplayAssumption
<1> QED
  BY <1>1, <1>2, <1>3, NoBars DEF ReplayInv

LEMMA ReplayInvStep == ReplayInv /\ [ReplayNext]_replayVars => ReplayInv'
<1> SUFFICES ASSUME ReplayInv, [ReplayNext]_replayVars PROVE ReplayInv'
  OBVIOUS
<1>1. ASSUME NEW k \in Shapes, BarCloses(k) PROVE ReplayInv'
  <2>1. /\ Len(bars) < MaxBars /\ report' = report
        /\ bars' = Append(bars, Bar(Close(bars), Len(bars), k))
    BY <1>1 DEF BarCloses
  <2>2. Charted(bars) /\ Len(bars) \in Nat
    BY DEF ReplayInv, Charted
  <2>3. PICK old : GoesOn(old, bars) /\ report = ReplayStrategy(old)
    BY DEF ReplayInv
  <2>4. Charted(bars') /\ Len(bars') = Len(bars) + 1 /\ GoesOn(old, bars')
    BY <2>1, <2>2, <2>3, BarCharted
  <2>5. Len(bars') <= MaxBars
    BY <2>1, <2>2, <2>4, ReplayAssumption
  <2> QED
    BY <2>1, <2>3, <2>4, <2>5 DEF ReplayInv
<1>2. ASSUME RunBacktest PROVE ReplayInv'
  <2>1. bars' = bars /\ report' = ReplayStrategy(bars)
    BY <1>2 DEF RunBacktest
  <2>2. GoesOn(bars, bars)
    BY DEF GoesOn, ReplayInv, Charted
  <2> QED
    BY <2>1, <2>2 DEF ReplayInv
<1>3. ASSUME UNCHANGED replayVars PROVE ReplayInv'
  BY <1>3 DEF ReplayInv, replayVars
<1> QED
  BY <1>1, <1>2, <1>3 DEF ReplayNext

LEMMA ReplayInvAlways == ReplaySpec => []ReplayInv
<1> QED
  BY ReplayInvStart, ReplayInvStep, PTL DEF ReplaySpec

(* What the report of a run says. *)
LEMMA ReportFair ==
    ASSUME DecidesSoundly, ReplayInv
    PROVE  ReplayTypeOK /\ ScoreWithinLevels
<1>1. PICK old : GoesOn(old, bars) /\ report = ReplayStrategy(old)
  BY DEF ReplayInv
<1>2. ReportOf(report, Len(old))
  BY <1>1, ReportsAgree
<1>3. Len(old) <= Len(bars) /\ Len(old) \in Nat /\ Len(bars) \in Nat /\ Len(bars) <= MaxBars
  BY <1>1 DEF GoesOn, Charted, ReplayInv
<1>4. /\ report.no_trade \in Nat /\ report.logged_only \in Nat /\ Len(report.results) \in Nat
      /\ report.no_trade + report.logged_only + Len(report.results) <= Len(old)
      /\ \A i \in DOMAIN report.results : WithinLevels(report.results[i])
  BY <1>2 DEF ReportOf, RunReports
<1>5. ReplayTypeOK
  BY <1>3, <1>4 DEF ReplayTypeOK
<1>6. ScoreWithinLevels
  BY <1>4 DEF ScoreWithinLevels, WithinLevels
<1> QED
  BY <1>5, <1>6

(* The bound on the report of a run, for any decider that puts the stop and *)
(* the target of a trade on either side of its entry (risk_gate.py:40-88). *)
THEOREM ReplayTypes == DecidesSoundly => (ReplaySpec => []ReplayTypeOK)
<1> SUFFICES ASSUME DecidesSoundly PROVE ReplaySpec => []ReplayTypeOK
  OBVIOUS
<1>1. ReplayInv => ReplayTypeOK
  BY ReportFair
<1> QED
  BY <1>1, ReplayInvAlways, PTL

\* What a run may not take back.
NothingRetracted ==
    report'.results # report.results =>
        /\ Len(report.results) <= Len(report'.results)
        /\ \A n \in DOMAIN report.results :
              /\ report'.results[n].sig = report.results[n].sig
              /\ Settled(report.results[n]) =>
                    report'.results[n] = report.results[n]
        /\ report'.no_trade >= report.no_trade

LEMMA NothingRetractedStep ==
    ASSUME DecidesSoundly, ReplayInv, [ReplayNext]_replayVars
    PROVE  [NothingRetracted]_replayVars
<1>1. CASE report' = report
  BY <1>1 DEF NothingRetracted
<1>2. CASE RunBacktest
  <2>1. PICK old : GoesOn(old, bars) /\ report = ReplayStrategy(old)
    BY DEF ReplayInv
  <2>2. report' = ReplayStrategy(bars)
    BY <1>2 DEF RunBacktest
  <2> QED
    BY <2>1, <2>2, ReportsAgree DEF NothingRetracted
<1> QED
  BY <1>1, <1>2 DEF ReplayNext, BarCloses, replayVars

(* The replay looks at nothing that lies ahead of the bar it decides at, a  *)
(* trade that was settled stays so, and no score lies beyond the levels.   *)
THEOREM ReplayCorrect == DecidesSoundly => (ReplaySpec => ReplayFair)
<1> SUFFICES ASSUME DecidesSoundly PROVE ReplaySpec => ReplayFair
  OBVIOUS
<1>1. ReplayInv => ScoreWithinLevels
  BY ReportFair
<1>2. ReplayInv /\ [ReplayNext]_replayVars => [NothingRetracted]_replayVars
  BY NothingRetractedStep
<1>3. ReplaySpec => [][NothingRetracted]_replayVars
  BY <1>2, ReplayInvAlways, PTL DEF ReplaySpec
<1>4. ReplaySpec => NoHindsight
  BY <1>3 DEF NoHindsight, NothingRetracted
<1> QED
  BY <1>1, <1>4, ReplayInvAlways, PTL DEF ReplayFair
-----------------------------------------------------------------------------
(* The types of the services.                                              *)

\* One step of the flattening of seqs.
Flattened(f, i, seqs) == IF i = 1 THEN seqs[i] ELSE f[i - 1] \o seqs[i]

(* The sequences are taken one after another. *)
LEMMA FlattenExists ==
    ASSUME NEW seqs, NEW N \in Nat
    PROVE  \E f : f = [i \in 1..N |-> Flattened(f, i, seqs)]
<1> DEFINE good(m) == \E f : f = [i \in 1..m |-> Flattened(f, i, seqs)]
           bad == {m \in Nat : ~good(m)}
<1>1. good(0)
  <2> DEFINE f == [i \in 1..0 |-> 0]
  <2>1. f = [i \in 1..0 |-> Flattened(f, i, seqs)]
    OBVIOUS
  <2> QED
    BY <2>1
<1>2. ASSUME NEW m \in Nat, good(m) PROVE good(m + 1)
  <2>1. PICK f : f = [i \in 1..m |-> Flattened(f, i, seqs)]
    BY <1>2
  <2> DEFINE more == [i \in 1..m + 1 |-> Flattened(f, i, seqs)]
  <2>2. \A i \in 1..m : more[i] = f[i]
    <3>1. \A i \in 1..m : i \in 1..m + 1 /\ f[i] = Flattened(f, i, seqs)
      BY <2>1
    <3> QED
      BY <3>1
  <2> HIDE DEF more
  <2>3. \A i \in 1..m + 1 : Flattened(f, i, seqs) = Flattened(more, i, seqs)
    BY <2>2 DEF Flattened
  <2>4. more = [i \in 1..m + 1 |-> Flattened(more, i, seqs)]
    BY <2>3 DEF more
  <2> QED
    BY <2>4
<1> HIDE DEF good
<1>3. bad = {}
  <2> SUFFICES ASSUME bad # {} PROVE FALSE
    OBVIOUS
  <2> DEFINE m == Min(bad)
  <2>1. m \in bad /\ \A k \in bad : m <= k
    BY LeastOf
  <2> HIDE DEF m
  <2>2. m # 0
    BY <1>1, <2>1
  <2>3. m - 1 \in Nat /\ m - 1 \notin bad
    BY <2>1, <2>2
  <2>4. good((m - 1) + 1) /\ (m - 1) + 1 = m
    BY <1>2, <2>1, <2>3
  <2> QED
    BY <2>1, <2>4
<1>4. good(N)
  BY <1>3
<1> QED
  BY <1>4 DEF good

(* What is flattened is made of what it is flattened from. *)
LEMMA FlattenTypes ==
    ASSUME NEW S, NEW seqs \in Seq(Seq(S))
    PROVE  FlattenSeq(seqs) \in Seq(S)
<1> DEFINE N == Len(seqs)
           unfolds(f) == [i \in 1..N |-> Flattened(f, i, seqs)]
           f == CHOOSE f : f = unfolds(f)
<1>1. CASE N = 0
  <2>1. FlattenSeq(seqs) = seqs
    BY <1>1, Zenon DEF FlattenSeq
  <2> QED
    BY <1>1, <2>1
<1>2. CASE N # 0
  <2>1. f = unfolds(f)
    <3>1. N \in Nat
      OBVIOUS
    <3>2. \E h : h = unfolds(h)
      BY <3>1, FlattenExists
    <3> HIDE DEF unfolds
    <3> QED
      BY <3>2, Zenon
  <2>2. FlattenSeq(seqs) = f[N]
    <3> DEFINE plain(h) == [i \in 1..Len(seqs) |-> IF i = 1 THEN seqs[i] ELSE h[i - 1] \o seqs[i]]
    <3>1. FlattenSeq(seqs) = (CHOOSE h : h = plain(h))[Len(seqs)]
      BY <1>2, Zenon DEF FlattenSeq
    <3>2. \A h : plain(h) = unfolds(h)
      BY Zenon DEF Flattened
    <3> HIDE DEF plain, unfolds
    <3>3. (CHOOSE h : h = plain(h)) = (CHOOSE h : h = unfolds(h))
      BY <3>2, Zenon
    <3> QED
      BY <3>1, <3>3, Zenon
  <2> HIDE DEF f
  <2> DEFINE bad == {i \in 1..N : f[i] \notin Seq(S)}
  <2>3. bad = {}
    <3> SUFFICES ASSUME bad # {} PROVE FALSE
      OBVIOUS
    <3> DEFINE m == Min(bad)
    <3>1. m \in bad /\ \A k \in bad : m <= k
      <4>1. bad \in SUBSET Nat
        OBVIOUS
      <4> HIDE DEF bad
      <4> QED
        BY <4>1, LeastOf
    <3> HIDE DEF m
    <3>2. m \in 1..N /\ f[m] = Flattened(f, m, seqs) /\ seqs[m] \in Seq(S)
      <4>1. m \in 1..N
        BY <3>1
      <4>2. f[m] = Flattened(f, m, seqs)
        <5> HIDE DEF N
        <5> QED
          BY <2>1, <4>1
      <4> QED
        BY <4>1, <4>2
    <3>3. m # 1
      BY <3>1, <3>2 DEF Flattened
    <3>4. m - 1 \in 1..N /\ m - 1 \notin bad
      BY <3>1, <3>2, <3>3
    <3>5. f[m - 1] \in Seq(S)
      BY <3>4
    <3>6. f[m] \in Seq(S)
      BY <3>2, <3>3, <3>5 DEF Flattened
    <3> QED
      BY <3>1, <3>6
  <2>4. N \in 1..N
    BY <1>2
  <2> QED
    BY <2>2, <2>3, <2>4
<1> QED
  BY <1>1, <1>2

LEMMA ThoseTypes ==
    ASSUME NEW S, NEW s \in Seq(S), NEW P
    PROVE  Those(s, P) \in Seq(S)
<1> DEFINE parts == [i \in DOMAIN s |-> IF i \in P THEN <<s[i]>> ELSE <<>>]
<1>1. \A i \in 1..Len(s) : (IF i \in P THEN <<s[i]>> ELSE <<>>) \in Seq(S)
  OBVIOUS
<1>2. parts \in Seq(Seq(S))
  <2>1. DOMAIN s = 1..Len(s) /\ Len(s) \in Nat
    OBVIOUS
  <2>2. parts \in [1..Len(s) -> Seq(S)]
    BY <1>1, <2>1
  <2> HIDE DEF parts
  <2> QED
    BY <2>1, <2>2
<1> HIDE DEF parts
<1>3. FlattenSeq(parts) \in Seq(S)
  BY <1>2, FlattenTypes
<1> QED
  BY <1>3 DEF Those, parts

-----------------------------------------------------------------------------
(* The types of the news engine.                                           *)

Event == [arts : (SUBSET Articles) \ {{}}, alerted : BOOLEAN]

\* The clock and what the thread counts.
NewsTimer ==
    /\ time \in 0..NewsMaxTime
    /\ published \in [Articles -> 0..NewsMaxTime]
    /\ cooling \in [Feeds -> Nat]
    /\ phase \in Phases
    /\ crashes \in 0..NewsMaxCrashes
    /\ incident \in {"none", "unsaved", "forgotten"}

\* The articles and the events of a cycle; a story that was told is the first
\* of those that wait.
NewsQueue ==
    /\ seen \subseteq Articles
    /\ events \in Seq(Event)
    /\ batch \in Seq(Articles)
    /\ candidates \in Seq(Nat)
    /\ \A i \in DOMAIN candidates : candidates[i] \in DOMAIN events
    /\ phase \in Unwritten => candidates # <<>>

\* What is remembered and what was sent.
NewsRecords ==
    /\ memory \subseteq Entry
    /\ file \in [whole : BOOLEAN, entries : SUBSET Entry]
    /\ \A a \in alerts : a.arts \subseteq Articles /\ a.told \in BOOLEAN

LEMMA NewsTimerStep == NewsTimer /\ [NewsNext]_newsVars => NewsTimer'
<1> SUFFICES ASSUME NewsTimer, [NewsNext]_newsVars PROVE NewsTimer'
  OBVIOUS
<1> USE DEF NewsTimer
<1>1. CASE Fetch
  <2>1. \A f \in Feeds : cooling[f] \in Nat /\ time + THROTTLE_COOLDOWN \in Nat
                        /\ time + TIMEOUT_COOLDOWN \in Nat
    BY NewsAssumption
  <2>2. cooling' \in [Feeds -> Nat]
    <3>1. PICK outcome : cooling' = [f \in Feeds |->
                CASE f \notin {g \in Feeds : time >= cooling[g]} -> cooling[f]
                  [] outcome[f] = "throttled" -> time + THROTTLE_COOLDOWN
                  [] outcome[f] = "error" -> time + TIMEOUT_COOLDOWN
                  [] OTHER -> cooling[f]]
      BY <1>1, Zenon DEF Fetch
    <3> QED
      BY <2>1, <3>1
  <2>3. phase' = "ingest" /\ UNCHANGED <<time, published, crashes, incident>>
    BY <1>1 DEF Fetch
  <2> QED
    BY <2>2, <2>3 DEF Phases
<1>2. CASE Ingest \/ IngestEnds \/ PassOver \/ Record \/ Truncate \/ Written \/ WriteFails
           \/ CycleEnds \/ \E told, reached \in BOOLEAN : Send(told, reached)
  <2>1. UNCHANGED <<time, published, cooling, crashes>>
        /\ phase' \in Phases /\ incident' \in {incident, "none", "unsaved"}
    BY <1>2 DEF Ingest, IngestEnds, PassOver, Record, Truncate, Written, WriteFails,
                CycleEnds, Send, Phases
  <2> QED
    BY <2>1
<1>3. CASE NewsTick
  BY <1>3, NewsAssumption DEF NewsTick
<1>4. CASE NewsCrash
  <2>1. crashes' \in 0..NewsMaxCrashes
    BY <1>4, NewsAssumption DEF NewsCrash
  <2>2. cooling' \in [Feeds -> Nat] /\ phase' \in Phases
        /\ incident' \in {incident, "forgotten"} /\ UNCHANGED <<time, published>>
    BY <1>4 DEF NewsCrash, Phases
  <2> QED
    BY <2>1, <2>2
<1>5. CASE UNCHANGED newsVars
  BY <1>5 DEF newsVars
<1> QED
  BY <1>1, <1>2, <1>3, <1>4, <1>5 DEF NewsNext

(* An article joins an event or makes one. *)
LEMMA WithTypes ==
    ASSUME NEW a \in Articles, events \in Seq(Event)
    PROVE  /\ Target(a) \in 1..Len(With(a))
           /\ With(a) \in Seq(Event)
           /\ Len(events) <= Len(With(a))
<1> DEFINE fits == {i \in DOMAIN events : Joins(a, events[i].arts)}
           n == Target(a)
<1>1. n \in 1..Len(events) + 1
  <2>1. CASE fits = {}
    BY <2>1 DEF Target
  <2>2. CASE fits # {}
    <3>1. fits \in SUBSET Nat /\ \A i \in fits : i \in 1..Len(events)
      OBVIOUS
    <3>2. n = Min(fits)
      BY <2>2 DEF Target
    <3> HIDE DEF fits, n
    <3>3. Min(fits) \in fits
      BY <2>2, <3>1, LeastOf
    <3>4. n \in fits
      BY <3>2, <3>3, Zenon
    <3>5. n \in 1..Len(events)
      BY <3>1, <3>4, Zenon
    <3>6. Len(events) \in Nat
      OBVIOUS
    <3> QED
      BY <3>5, <3>6
  <2> QED
    BY <2>1, <2>2
<1> HIDE DEF n
<1>2. CASE n > Len(events)
  <2> DEFINE new == [arts |-> {a}, alerted |-> FALSE]
  <2>1. new \in Event
    <3>1. {a} \in (SUBSET Articles) \ {{}}
      OBVIOUS
    <3> QED
      BY <3>1, Zenon DEF Event
  <2>2. With(a) = Append(events, new)
    BY <1>2 DEF With, n
  <2> HIDE DEF new
  <2>3. With(a) \in Seq(Event) /\ Len(With(a)) = Len(events) + 1
    BY <2>1, <2>2
  <2> QED
    BY <1>1, <2>3 DEF n
<1>3. CASE ~(n > Len(events))
  <2>1. n \in DOMAIN events /\ events[n] \in Event
    BY <1>1, <1>3
  <2> DEFINE new == [events[n] EXCEPT !.arts = @ \cup {a}]
  <2>2. new \in Event
    <3>1. events[n].arts \cup {a} \in (SUBSET Articles) \ {{}}
      BY <2>1 DEF Event
    <3> QED
      BY <2>1, <3>1 DEF Event
  <2>3. With(a) = [events EXCEPT ![n] = new]
    BY <1>3 DEF With, n
  <2> HIDE DEF new
  <2>4. With(a) \in Seq(Event) /\ Len(With(a)) = Len(events)
    BY <2>1, <2>2, <2>3
  <2> QED
    BY <1>1, <1>3, <2>4 DEF n
<1> QED
  BY <1>1, <1>2, <1>3

(* What a cycle fetches are articles. *)
LEMMA FetchedTypes ==
    ASSUME NewsQueue, Fetch
    PROVE  batch' \in Seq(Articles) /\ events' \in Seq(Event)
<1>1. PICK outcome \in [Feeds -> {"ok", "throttled", "error", "unreadable"}] :
        batch' = FlattenSeq([f \in Feeds |->
            IF f \in {g \in Feeds : time >= cooling[g]} /\ outcome[f] = "ok"
            THEN Those(Listing[f], {i \in DOMAIN Listing[f] : published[Listing[f][i]] <= time})
            ELSE <<>>])
  BY Zenon DEF Fetch
<1> DEFINE due(f) == f \in {g \in Feeds : time >= cooling[g]} /\ outcome[f] = "ok"
           some(f) == {i \in DOMAIN Listing[f] : published[Listing[f][i]] <= time}
           lists == [f \in Feeds |-> IF due(f) THEN Those(Listing[f], some(f)) ELSE <<>>]
<1>2. batch' = FlattenSeq(lists)
  BY <1>1
<1>3. \A f \in Feeds : Those(Listing[f], some(f)) \in Seq(Articles)
  <2> SUFFICES ASSUME NEW f \in Feeds PROVE Those(Listing[f], some(f)) \in Seq(Articles)
    OBVIOUS
  <2> HIDE DEF some
  <2>1. Listing[f] \in Seq(Articles)
    BY NewsAssumption DEF Feeds
  <2> QED
    BY <2>1, ThoseTypes
<1>4. lists \in Seq(Seq(Articles))
  <2>1. Len(Listing) \in Nat /\ Feeds = 1..Len(Listing)
    BY NewsAssumption DEF Feeds
  <2> HIDE DEF due, some
  <2>2. \A f \in Feeds : (IF due(f) THEN Those(Listing[f], some(f)) ELSE <<>>) \in Seq(Articles)
    BY <1>3
  <2>3. lists \in [Feeds -> Seq(Articles)]
    BY <2>2
  <2> HIDE DEF lists
  <2> QED
    BY <2>1, <2>3
<1> HIDE DEF lists
<1>5. batch' \in Seq(Articles)
  BY <1>2, <1>4, FlattenTypes
<1>6. events' \in Seq(Event)
  <2>1. events' = Those(events, {i \in DOMAIN events : Alive(events[i])})
    BY DEF Fetch
  <2>2. events \in Seq(Event)
    BY DEF NewsQueue
  <2> QED
    BY <2>1, <2>2, ThoseTypes
<1> QED
  BY <1>5, <1>6

LEMMA NewsQueueStep == NewsQueue /\ [NewsNext]_newsVars => NewsQueue'
<1> SUFFICES ASSUME NewsQueue, [NewsNext]_newsVars PROVE NewsQueue'
  OBVIOUS
<1>1. CASE Fetch
  <2>1. batch' \in Seq(Articles) /\ events' \in Seq(Event)
    BY <1>1, FetchedTypes
  <2>2. candidates' = <<>> /\ seen' = seen /\ phase' \notin Unwritten
    BY <1>1 DEF Fetch, Unwritten
  <2> QED
    BY <2>1, <2>2 DEF NewsQueue
<1>2. CASE Ingest
  <2>1. /\ batch # <<>> /\ batch' = Tail(batch) /\ UNCHANGED phase /\ phase \notin Unwritten
        /\ \/ UNCHANGED <<seen, events, candidates>>
           \/ IngestNew(Head(batch))
    BY <1>2 DEF Ingest, Unwritten
  <2>2. Head(batch) \in Articles /\ batch' \in Seq(Articles)
    BY <2>1 DEF NewsQueue
  <2>3. CASE UNCHANGED <<seen, events, candidates>>
    BY <2>1, <2>2, <2>3 DEF NewsQueue
  <2>4. CASE IngestNew(Head(batch))
    <3> DEFINE a == Head(batch)
               n == Target(a)
    <3>1. /\ seen' = seen \cup {a} /\ events' = With(a)
          /\ candidates' \in {candidates, Append(candidates, n)}
      BY <2>4 DEF IngestNew
    <3>2. events \in Seq(Event) /\ candidates \in Seq(Nat)
          /\ \A i \in DOMAIN candidates : candidates[i] \in 1..Len(events)
      BY DEF NewsQueue
    <3>3. /\ n \in 1..Len(events') /\ events' \in Seq(Event)
          /\ Len(events) <= Len(events')
      BY <2>2, <3>1, <3>2, WithTypes
    <3> HIDE DEF n, a
    <3>4. candidates' \in Seq(Nat)
          /\ \A i \in DOMAIN candidates' : candidates'[i] \in 1..Len(events')
      <4>1. CASE candidates' = candidates
        BY <3>2, <3>3, <4>1
      <4>2. CASE candidates' = Append(candidates, n)
        BY <3>2, <3>3, <4>2
      <4> QED
        BY <3>1, <4>1, <4>2
    <3>5. seen' \subseteq Articles
      BY <2>2, <3>1 DEF NewsQueue, a
    <3> QED
      BY <2>1, <2>2, <3>3, <3>4, <3>5 DEF NewsQueue
  <2> QED
    BY <2>1, <2>3, <2>4
<1>3. CASE IngestEnds \/ CycleEnds \/ Truncate \/ NewsTick
  <2>1. UNCHANGED <<seen, events, batch, candidates>>
        /\ (phase' \in Unwritten => phase \in Unwritten)
    BY <1>3 DEF IngestEnds, CycleEnds, Truncate, NewsTick, Unwritten
  <2> QED
    BY <2>1 DEF NewsQueue
<1>4. CASE PassOver \/ Written \/ WriteFails
           \/ \E told, reached \in BOOLEAN : Send(told, reached)
  <2>1. /\ UNCHANGED <<seen, events, batch>> /\ candidates # <<>>
        /\ \/ candidates' = candidates
           \/ candidates' = Tail(candidates) /\ phase' \notin Unwritten
    BY <1>4 DEF PassOver, Written, WriteFails, Send, Unwritten, NewsQueue
  <2>2. CASE candidates' = candidates
    BY <2>1, <2>2 DEF NewsQueue
  <2>3. CASE candidates' = Tail(candidates) /\ phase' \notin Unwritten
    <3>1. candidates' \in Seq(Nat)
          /\ \A i \in DOMAIN candidates' : i + 1 \in DOMAIN candidates
                                            /\ candidates'[i] = candidates[i + 1]
      BY <2>1, <2>3 DEF NewsQueue
    <3> QED
      BY <2>1, <2>3, <3>1 DEF NewsQueue
  <2> QED
    BY <2>1, <2>2, <2>3
<1>5. CASE Record
  <2>1. /\ UNCHANGED <<seen, batch, candidates>> /\ phase = "record"
        /\ events' = [events EXCEPT ![Up].alerted = TRUE]
    BY <1>5 DEF Record
  <2>2. events' \in Seq(Event) /\ Len(events') = Len(events)
    <3>1. Up \in DOMAIN events /\ events[Up] \in Event
      BY <2>1 DEF NewsQueue, Unwritten, Up
    <3> DEFINE n == Up
               new == [events[n] EXCEPT !.alerted = TRUE]
    <3>2. new \in Event
      BY <3>1, Zenon DEF Event
    <3>3. events' = [events EXCEPT ![n] = new]
      BY <2>1
    <3> HIDE DEF n, new
    <3> QED
      BY <3>1, <3>2, <3>3 DEF NewsQueue, n
  <2> QED
    BY <2>1, <2>2 DEF NewsQueue, Unwritten
<1>6. CASE NewsCrash
  <2>1. seen' = {} /\ events' = <<>> /\ batch' = <<>> /\ candidates' = <<>>
        /\ phase' \notin Unwritten
    BY <1>6 DEF NewsCrash, Unwritten
  <2> QED
    BY <2>1 DEF NewsQueue
<1>7. CASE UNCHANGED newsVars
  BY <1>7 DEF newsVars, NewsQueue
<1> QED
  BY <1>1, <1>2, <1>3, <1>4, <1>5, <1>6, <1>7 DEF NewsNext

LEMMA NewsRecordsStep ==
    NewsTimer /\ NewsQueue /\ NewsRecords /\ [NewsNext]_newsVars => NewsRecords'
<1> SUFFICES ASSUME NewsTimer, NewsQueue, NewsRecords, [NewsNext]_newsVars
             PROVE  NewsRecords'
  OBVIOUS
<1>1. CASE Fetch \/ Ingest \/ IngestEnds \/ PassOver \/ CycleEnds \/ NewsTick
  <2>1. UNCHANGED <<file, alerts>> /\ memory' \subseteq memory
    BY <1>1 DEF Fetch, Ingest, IngestNew, IngestEnds, PassOver, CycleEnds, NewsTick, Kept
  <2> QED
    BY <2>1 DEF NewsRecords
<1>2. ASSUME NEW told \in BOOLEAN, NEW reached \in BOOLEAN, Send(told, reached)
      PROVE  NewsRecords'
  <2>1. candidates # <<>> /\ UNCHANGED file /\ memory' \subseteq memory
    BY <1>2 DEF Send, Kept
  <2>2. events[Up].arts \subseteq Articles
    <3>1. Up \in DOMAIN events
      BY <2>1 DEF NewsQueue, Up
    <3>2. events[Up] \in Event
      BY <3>1 DEF NewsQueue
    <3> QED
      BY <3>2, Zenon DEF Event
  <2> DEFINE new == [arts |-> events[Up].arts, told |-> told, at |-> time]
  <2>3. new.arts \subseteq Articles /\ new.told \in BOOLEAN
    BY <2>2, Zenon
  <2>4. alerts' \in {alerts, alerts \cup {new}}
    BY <1>2 DEF Send
  <2> HIDE DEF new
  <2>5. \A a \in alerts' : a \in alerts \/ a = new
    BY <2>4
  <2>6. \A a \in alerts' : a.arts \subseteq Articles /\ a.told \in BOOLEAN
    BY <2>3, <2>5, Zenon DEF NewsRecords
  <2> QED
    BY <2>1, <2>6 DEF NewsRecords
<1>3. CASE Record
  <2>1. /\ UNCHANGED <<file, alerts>> /\ phase = "record"
        /\ memory' \subseteq memory \cup {[claims |-> Story, at |-> time]}
    BY <1>3 DEF Record, Kept
  <2>2. Story \in {ClaimsOf(s) : s \in SUBSET Articles}
    <3>1. Up \in DOMAIN events
      BY <2>1 DEF NewsQueue, Unwritten, Up
    <3>2. events[Up] \in Event
      BY <3>1 DEF NewsQueue
    <3>3. events[Up].arts \in SUBSET Articles
      BY <3>2, Zenon DEF Event
    <3> QED
      BY <3>3 DEF Story
  <2>3. [claims |-> Story, at |-> time] \in Entry
    BY <2>2 DEF NewsTimer, Entry
  <2> QED
    BY <2>1, <2>3 DEF NewsRecords
<1>4. CASE Truncate \/ Written
  <2>1. UNCHANGED alerts /\ memory' = memory
        /\ file' \in {[whole |-> FALSE, entries |-> {}], [whole |-> TRUE, entries |-> memory]}
    BY <1>4 DEF Truncate, Written
  <2>2. [whole |-> FALSE, entries |-> {}] \in [whole : BOOLEAN, entries : SUBSET Entry]
        /\ [whole |-> TRUE, entries |-> memory] \in [whole : BOOLEAN, entries : SUBSET Entry]
    BY Zenon DEF NewsRecords
  <2>3. file' \in [whole : BOOLEAN, entries : SUBSET Entry]
    BY <2>1, <2>2, Zenon
  <2> QED
    BY <2>1, <2>3 DEF NewsRecords
<1>5. CASE NewsCrash
  <2>1. UNCHANGED <<file, alerts>> /\ memory' \subseteq file.entries
    BY <1>5 DEF NewsCrash, Loaded, Kept
  <2> QED
    BY <2>1 DEF NewsRecords
<1>6. CASE WriteFails \/ UNCHANGED newsVars
  BY <1>6 DEF WriteFails, newsVars, NewsRecords
<1> QED
  BY <1>1, <1>2, <1>3, <1>4, <1>5, <1>6 DEF NewsNext

LEMMA NewsTyped == NewsSpec => []NewsTypeOK
<1>1. NewsInit => NewsTimer /\ NewsQueue /\ NewsRecords
  <2> SUFFICES ASSUME NewsInit PROVE NewsTimer /\ NewsQueue /\ NewsRecords
    OBVIOUS
  <2>1. NewsTimer
    BY NewsAssumption DEF NewsInit, NewsTimer, Phases
  <2>2. NewsQueue
    BY DEF NewsInit, NewsQueue, Unwritten
  <2>3. file \in [whole : BOOLEAN, entries : SUBSET Entry]
    <3>1. file = [whole |-> TRUE, entries |-> {}]
      BY DEF NewsInit
    <3>2. {} \in SUBSET Entry
      OBVIOUS
    <3> QED
      BY <3>1, <3>2, Zenon
  <2>4. NewsRecords
    BY <2>3 DEF NewsInit, NewsRecords
  <2> QED
    BY <2>1, <2>2, <2>4
<1>2. NewsTimer /\ NewsQueue /\ NewsRecords /\ [NewsNext]_newsVars
        => NewsTimer' /\ NewsQueue' /\ NewsRecords'
  BY NewsTimerStep, NewsQueueStep, NewsRecordsStep
<1>3. NewsTimer /\ NewsQueue /\ NewsRecords => NewsTypeOK
  <2> SUFFICES ASSUME NewsTimer, NewsQueue, NewsRecords PROVE NewsTypeOK
    OBVIOUS
  <2>1. /\ DOMAIN cooling = Feeds /\ \A f \in Feeds : cooling[f] \in Nat
    BY DEF NewsTimer
  <2>2. \A i \in DOMAIN events :
          events[i].arts \in (SUBSET Articles) \ {{}} /\ events[i].alerted \in BOOLEAN
    <3>1. \A i \in DOMAIN events : events[i] \in Event
      BY DEF NewsQueue
    <3> QED
      BY <3>1, Zenon DEF Event
  <2>3. \A i \in DOMAIN batch : batch[i] \in Articles
    BY DEF NewsQueue
  <2>4. file.whole \in BOOLEAN /\ file.entries \subseteq Entry
    BY Zenon DEF NewsRecords
  <2> QED
    BY <2>1, <2>2, <2>3, <2>4, Zenon DEF NewsTypeOK, NewsTimer, NewsQueue, NewsRecords
<1> QED
  BY <1>1, <1>2, <1>3, PTL DEF NewsSpec

-----------------------------------------------------------------------------
(* The types of the liquidation cache, the log and the replies.            *)

LEMMA LiqTypesStep == LiqTypeOK /\ CacheInv /\ [LiqNext]_liqVars => LiqTypeOK'
<1> SUFFICES ASSUME LiqTypeOK, CacheInv, [LiqNext]_liqVars PROVE LiqTypeOK'
  OBVIOUS
<1>1. CASE Used \/ Connect \/ Disconnect
  <2>1. UNCHANGED <<liqClock, lastMessage, cached, look, received>>
        /\ connected' \in BOOLEAN /\ connectedAt' \in {connectedAt, liqClock}
        /\ answer' \in {answer, None}
    <3>1. CASE Used
      BY <3>1 DEF Used, LiqTypeOK
    <3>2. CASE Connect
      BY <3>2 DEF Connect
    <3>3. CASE Disconnect
      BY <3>3 DEF Disconnect
    <3> QED
      BY <1>1, <3>1, <3>2, <3>3
  <2> QED
    BY <2>1 DEF LiqTypeOK
<1>2. CASE LookEnds
  <2> DEFINE held == cached'[look.coin]
             available == held # <<>> /\ look.status = "FRESH"
  <2>0. answer' = [coin |-> look.coin, now |-> look.now,
                   taken |-> liqClock, heard |-> Len(received),
                   counts |-> [w \in Windows |-> Count(held, look.now, w)],
                   available |-> available]
    BY <1>2 DEF LookEnds
  <2>1. available \in BOOLEAN
    BY Zenon
  <2> HIDE DEF available, held
  <2>2. answer'.coin \in Coins
    BY <1>2, <2>0 DEF LookEnds, LiqTypeOK
  <2>3. answer'.available \in BOOLEAN
    BY <2>0, <2>1, Zenon
  <2>4. UNCHANGED <<liqClock, connected, connectedAt, lastMessage, received>>
        /\ look' = None /\ DOMAIN cached' = Coins
    BY <1>2 DEF LookEnds
  <2> QED
    BY <2>2, <2>3, <2>4 DEF LiqTypeOK
<1>3. CASE LiqTick
  BY <1>3, LiquidationAssumption DEF LiqTick, LiqTypeOK
<1>4. ASSUME NEW c \in Coins, LookBegins(c) PROVE LiqTypeOK'
  <2>1. UNCHANGED <<liqClock, connected, connectedAt, lastMessage, cached, received>>
        /\ answer' = None /\ look' = [coin |-> c, now |-> liqClock, status |-> StreamState]
    BY <1>4 DEF LookBegins
  <2>2. StreamState \in Statuses
    BY DEF StreamState, Statuses
  <2> QED
    BY <2>1, <2>2 DEF LiqTypeOK
<1>5. ASSUME NEW c \in Coins, NEW at \in (liqClock - Delay)..(liqClock + Skew), Message(c, at)
      PROVE  LiqTypeOK'
  <2>1. UNCHANGED <<liqClock, connected, connectedAt, look, answer>>
        /\ lastMessage' = liqClock /\ DOMAIN cached' = Coins
        /\ received' = Append(received, <<c, at>>) /\ Len(received) < LiqMaxEvents
    BY <1>5 DEF Message
  <2>2. received \in Seq(Reports) /\ <<c, at>> \in Reports
    <3>1. at \in Int
      BY LiqFacts DEF CacheInv
    <3> QED
      BY <3>1 DEF CacheInv, Reports
  <2>3. Len(received') <= LiqMaxEvents
    BY <2>1, <2>2, LiquidationAssumption
  <2> QED
    BY <2>1, <2>3 DEF LiqTypeOK
<1>6. CASE UNCHANGED liqVars
  BY <1>6 DEF liqVars, LiqTypeOK
<1> QED
  BY <1>1, <1>2, <1>3, <1>4, <1>5, <1>6 DEF LiqNext

LEMMA LiqTyped == LiqSpec => []LiqTypeOK
<1>1. LiqInit => LiqTypeOK
  <2> SUFFICES ASSUME LiqInit PROVE LiqTypeOK
    OBVIOUS
  <2>1. connected \in BOOLEAN
    BY Zenon DEF LiqInit
  <2>2. 0 \in 0..LiqMaxTime /\ Len(<<>>) = 0 /\ 0 <= LiqMaxEvents
    BY LiquidationAssumption
  <2>3. liqClock \in 0..LiqMaxTime /\ Len(received) <= LiqMaxEvents
        /\ connectedAt = None /\ lastMessage = None /\ look = None /\ answer = None
        /\ DOMAIN cached = Coins
    BY <2>2 DEF LiqInit
  <2> QED
    BY <2>1, <2>3 DEF LiqTypeOK
<1>2. LiqTypeOK /\ CacheInv /\ FreshInv /\ [LiqNext]_liqVars
        => (LiqTypeOK /\ CacheInv)'
  BY LiqTypesStep, CacheStep
<1> QED
  BY <1>1, <1>2, LiqInitially, SummaryAlways, PTL DEF LiqSpec

LEMMA LogTyped == LogSpec => []LogTypeOK
  BY LogInvariant, PTL

(* A reading is made of members and keys. *)
LEMMA ReadTypes ==
    ASSUME NEW kind, NEW text
    PROVE  ReadAs(kind, text) \subseteq Members \cup Keys
<1>1. ParseVerdict(text) \subseteq Members
  BY DEF ParseVerdict, VerdictOf, Members
<1>2. Validate(text) \subseteq Members \cup Keys
  BY DEF Validate, Members, Keys
<1> QED
  BY <1>1, <1>2 DEF ReadAs

\* The whole of a reply is a text.
ReplyShape == Whole(reply) \in Seq(STRING)

LEMMA ReplyTypesStep ==
    ReplyTypeOK /\ ReplyShape /\ [ReplyNext]_replyVars => ReplyTypeOK' /\ ReplyShape'
<1> SUFFICES ASSUME ReplyTypeOK, ReplyShape, [ReplyNext]_replyVars
             PROVE  ReplyTypeOK' /\ ReplyShape'
  OBVIOUS
<1>1. CASE Prompted
  <2>1. PICK o \in Objects, p \in Asides \cup Noises \cup Unclosed, t \in Tails :
          reply' = [object |-> o, before |-> p, after |-> t]
    BY <1>1, Zenon DEF Prompted
  <2>2. /\ o.text \in Seq(STRING) /\ p \in Seq(STRING) /\ t \in Seq(STRING)
    <3>1. o.text \in Seq(STRING)
      BY ReplyAssumption
    <3> QED
      BY <3>1, ReplyAssumption
  <2>3. reply'.object = o /\ reply'.before = p /\ reply'.after = t
    BY <2>1
  <2>4. ReplyShape'
    <3>1. p \o o.text \o t \in Seq(STRING)
      BY <2>2
    <3> QED
      BY <2>3, <3>1 DEF ReplyShape, Whole
  <2>5. written' = 0 /\ UNCHANGED reading
    <3>1. reply = Silence /\ UNCHANGED <<written, reading>>
      BY <1>1 DEF Prompted
    <3>2. Len(Whole(Silence)) = 0
      BY DEF Whole, Silence, Nothing
    <3> QED
      BY <3>1, <3>2 DEF ReplyTypeOK
  <2>6. Len(Whole(reply)') \in Nat
    BY <2>4 DEF ReplyShape
  <2> QED
    BY <2>3, <2>4, <2>5, <2>6 DEF ReplyTypeOK
<1>2. CASE Write
  <2>1. written < Len(Whole(reply)) /\ written' = written + 1 /\ UNCHANGED <<reply, reading>>
    BY <1>2 DEF Write
  <2>2. Len(Whole(reply)) \in Nat
    BY DEF ReplyShape
  <2>3. Whole(reply)' = Whole(reply)
    BY <2>1 DEF Whole
  <2>4. written' \in 0..Len(Whole(reply))
    BY <2>1, <2>2 DEF ReplyTypeOK
  <2> QED
    BY <2>1, <2>2, <2>3, <2>4 DEF ReplyTypeOK, ReplyShape
<1>3. CASE Read
  <2>1. UNCHANGED <<reply, written>> /\ Whole(reply)' = Whole(reply)
        /\ reading' \subseteq Members \cup Keys
    BY <1>3, ReadTypes DEF Read, Whole
  <2> QED
    BY <2>1 DEF ReplyTypeOK, ReplyShape
<1>4. CASE UNCHANGED replyVars
  BY <1>4 DEF replyVars, ReplyTypeOK, ReplyShape, Whole
<1> QED
  BY <1>1, <1>2, <1>3, <1>4 DEF ReplyNext

LEMMA ReplyTyped == ReplySpec => []ReplyTypeOK
<1>1. ReplyInit => ReplyTypeOK /\ ReplyShape
  <2>1. Whole(Silence) = <<>>
    BY DEF Whole, Silence, Nothing
  <2>2. Silence.object = Nothing
    BY DEF Silence
  <2> QED
    BY <2>1, <2>2 DEF ReplyInit, ReplyTypeOK, ReplyShape
<1> QED
  BY <1>1, ReplyTypesStep, PTL DEF ReplySpec

-----------------------------------------------------------------------------
(* The services side by side.                                              *)

sumVars == <<service, deliveryVars, newsVars, ladderVars, liqVars, logVars,
             replyVars, replayVars>>

(* Every service behaves in the sum as it does alone. *)
LEMMA EachAlone ==
    SumSpec => /\ DeliverySpec /\ NewsSpec /\ LadderSpec /\ LiqSpec
               /\ LogSpec /\ ReplySpec /\ ReplaySpec
<1>1. SumInit => /\ DeliveryInit /\ NewsInit /\ LadderInit /\ LiqInit
                 /\ LogInit /\ ReplyInit /\ ReplayInit
  BY DEF SumInit
<1>2. [SumNext]_sumVars => /\ [DeliveryNext]_deliveryVars /\ [NewsNext]_newsVars
                           /\ [LadderNext]_ladderVars /\ [LiqNext]_liqVars
                           /\ [LogNext]_logVars /\ [ReplyNext]_replyVars
                           /\ [ReplayNext]_replayVars
  BY Zenon DEF SumNext, sumVars, DeliveryMoves, NewsMoves, LadderMoves, LiquidationMoves,
               LogMoves, ReplyMoves, ReplayMoves
<1>3. SumSpec <=> SumInit /\ [][SumNext]_sumVars
  BY DEF SumSpec, sumVars
<1> QED
  BY <1>1, <1>2, <1>3, PTL DEF DeliverySpec, NewsSpec, LadderSpec, LiqSpec, LogSpec,
                               ReplySpec, ReplaySpec

(* In every run of the services, for any of their constants, every variable *)
(* of each keeps its type.                                                  *)
THEOREM ServicesTypes == DecidesSoundly => (SumSpec => []ServicesTypeOK)
<1> SUFFICES ASSUME DecidesSoundly PROVE SumSpec => []ServicesTypeOK
  OBVIOUS
<1>1. ReplaySpec => []ReplayTypeOK
  BY ReplayTypes
<1>2. /\ DeliveryTypeOK /\ NewsTypeOK /\ LadderTypeOK /\ LiqTypeOK /\ LogTypeOK
      /\ ReplyTypeOK /\ ReplayTypeOK
      => ServicesTypeOK
  BY DEF ServicesTypeOK
<1> QED
  BY <1>1, <1>2, EachAlone, DeliveryTypes, NewsTyped, LadderTypes, LiqTyped, LogTyped,
     ReplyTyped, PTL

-----------------------------------------------------------------------------
(* ReplyReading: what is read from a reply.                                *)

(* A scanner goes over a text token by token. *)
ScanStep(at, n, rule, text) == IF n = 0 THEN Unscanned ELSE Scanned(rule, at[n - 1], text[n])

LEMMA ScanExists ==
    ASSUME NEW rule, NEW text, NEW N \in Nat
    PROVE  \E f : f = [n \in 0..N |-> ScanStep(f, n, rule, text)]
<1> DEFINE good(m) == \E f : f = [n \in 0..m |-> ScanStep(f, n, rule, text)]
           bad == {m \in Nat : ~good(m)}
<1>1. good(0)
  <2> DEFINE f == [n \in 0..0 |-> Unscanned]
  <2>1. \A n \in 0..0 : ScanStep(f, n, rule, text) = Unscanned
    BY DEF ScanStep
  <2>2. f = [n \in 0..0 |-> ScanStep(f, n, rule, text)]
    BY <2>1
  <2> QED
    BY <2>2
<1>2. ASSUME NEW m \in Nat, good(m) PROVE good(m + 1)
  <2>1. PICK f : f = [n \in 0..m |-> ScanStep(f, n, rule, text)]
    BY <1>2
  <2> DEFINE more == [n \in 0..m + 1 |-> ScanStep(f, n, rule, text)]
  <2>2. \A n \in 0..m : more[n] = f[n]
    <3>1. \A n \in 0..m : n \in 0..m + 1 /\ f[n] = ScanStep(f, n, rule, text)
      BY <2>1
    <3> QED
      BY <3>1
  <2> HIDE DEF more
  <2>3. \A n \in 0..m + 1 : ScanStep(f, n, rule, text) = ScanStep(more, n, rule, text)
    BY <2>2 DEF ScanStep
  <2>4. more = [n \in 0..m + 1 |-> ScanStep(more, n, rule, text)]
    BY <2>3 DEF more
  <2> QED
    BY <2>4
<1> HIDE DEF good
<1>3. bad = {}
  <2> SUFFICES ASSUME bad # {} PROVE FALSE
    OBVIOUS
  <2> DEFINE m == Min(bad)
  <2>1. m \in bad /\ \A k \in bad : m <= k
    BY LeastOf
  <2> HIDE DEF m
  <2>2. m # 0
    BY <1>1, <2>1
  <2>3. m - 1 \in Nat /\ m - 1 \notin bad
    BY <2>1, <2>2
  <2>4. good((m - 1) + 1) /\ (m - 1) + 1 = m
    BY <1>2, <2>1, <2>3
  <2> QED
    BY <2>1, <2>4
<1>4. good(N)
  BY <1>3
<1> QED
  BY <1>4 DEF good

(* Where a scanner is after a token depends on where it was before it. *)
LEMMA ScanUnfolds ==
    ASSUME NEW rule, NEW text, Len(text) \in Nat
    PROVE  /\ Scan(rule, text)[0] = Unscanned
           /\ \A n \in 1..Len(text) : Scan(rule, text)[n] = Scanned(rule, Scan(rule, text)[n - 1], text[n])
<1> DEFINE N == Len(text)
           unfolds(f) == [n \in 0..N |-> ScanStep(f, n, rule, text)]
           plain(f) == [n \in 0..Len(text) |-> IF n = 0 THEN Unscanned ELSE Scanned(rule, f[n - 1], text[n])]
           f == CHOOSE f : f = unfolds(f)
<1>1. \A h : plain(h) = unfolds(h)
  BY Zenon DEF ScanStep
<1>2. Scan(rule, text) = CHOOSE h : h = plain(h)
  BY Zenon DEF Scan
<1>3. f = unfolds(f)
  <2>1. \E h : h = unfolds(h)
    BY ScanExists
  <2> HIDE DEF unfolds
  <2> QED
    BY <2>1, Zenon
<1>4. Scan(rule, text) = f
  <2> HIDE DEF plain, unfolds
  <2>1. (CHOOSE h : h = plain(h)) = (CHOOSE h : h = unfolds(h))
    BY <1>1, Zenon
  <2> QED
    BY <1>2, <2>1, Zenon
<1> HIDE DEF f
<1>5. \A n \in 0..N : f[n] = ScanStep(f, n, rule, text)
  <2> HIDE DEF N
  <2> QED
    BY <1>3
<1>6. f[0] = Unscanned
  BY <1>5 DEF ScanStep
<1>7. \A n \in 1..N : f[n] = Scanned(rule, f[n - 1], text[n])
  BY <1>5 DEF ScanStep
<1> QED
  BY <1>4, <1>6, <1>7

(* The parser goes over a text token by token. *)
ParseStep(at, n, text) == IF n = 0 THEN Opens ELSE Parse(at[n - 1], text[n])

LEMMA ParseExists ==
    ASSUME NEW text, NEW N \in Nat
    PROVE  \E f : f = [n \in 0..N |-> ParseStep(f, n, text)]
<1> DEFINE good(m) == \E f : f = [n \in 0..m |-> ParseStep(f, n, text)]
           bad == {m \in Nat : ~good(m)}
<1>1. good(0)
  <2> DEFINE f == [n \in 0..0 |-> Opens]
  <2>1. \A n \in 0..0 : ParseStep(f, n, text) = Opens
    BY DEF ParseStep
  <2>2. f = [n \in 0..0 |-> ParseStep(f, n, text)]
    BY <2>1
  <2> QED
    BY <2>2
<1>2. ASSUME NEW m \in Nat, good(m) PROVE good(m + 1)
  <2>1. PICK f : f = [n \in 0..m |-> ParseStep(f, n, text)]
    BY <1>2
  <2> DEFINE more == [n \in 0..m + 1 |-> ParseStep(f, n, text)]
  <2>2. \A n \in 0..m : more[n] = f[n]
    <3>1. \A n \in 0..m : n \in 0..m + 1 /\ f[n] = ParseStep(f, n, text)
      BY <2>1
    <3> QED
      BY <3>1
  <2> HIDE DEF more
  <2>3. \A n \in 0..m + 1 : ParseStep(f, n, text) = ParseStep(more, n, text)
    BY <2>2 DEF ParseStep
  <2>4. more = [n \in 0..m + 1 |-> ParseStep(more, n, text)]
    BY <2>3 DEF more
  <2> QED
    BY <2>4
<1> HIDE DEF good
<1>3. bad = {}
  <2> SUFFICES ASSUME bad # {} PROVE FALSE
    OBVIOUS
  <2> DEFINE m == Min(bad)
  <2>1. m \in bad /\ \A k \in bad : m <= k
    BY LeastOf
  <2> HIDE DEF m
  <2>2. m # 0
    BY <1>1, <2>1
  <2>3. m - 1 \in Nat /\ m - 1 \notin bad
    BY <2>1, <2>2
  <2>4. good((m - 1) + 1) /\ (m - 1) + 1 = m
    BY <1>2, <2>1, <2>3
  <2> QED
    BY <2>1, <2>4
<1>4. good(N)
  BY <1>3
<1> QED
  BY <1>4 DEF good

(* Where the parser is after a token depends on where it was before it. *)
LEMMA ParseUnfolds ==
    ASSUME NEW text, Len(text) \in Nat
    PROVE  /\ Parsed(text)[0] = Opens
           /\ \A n \in 1..Len(text) : Parsed(text)[n] = Parse(Parsed(text)[n - 1], text[n])
<1> DEFINE N == Len(text)
           unfolds(f) == [n \in 0..N |-> ParseStep(f, n, text)]
           plain(f) == [n \in 0..Len(text) |-> IF n = 0 THEN Opens ELSE Parse(f[n - 1], text[n])]
           f == CHOOSE f : f = unfolds(f)
<1>1. \A h : plain(h) = unfolds(h)
  BY Zenon DEF ParseStep
<1>2. Parsed(text) = CHOOSE h : h = plain(h)
  BY Zenon DEF Parsed
<1>3. f = unfolds(f)
  <2>1. \E h : h = unfolds(h)
    BY ParseExists
  <2> HIDE DEF unfolds
  <2> QED
    BY <2>1, Zenon
<1>4. Parsed(text) = f
  <2> HIDE DEF plain, unfolds
  <2>1. (CHOOSE h : h = plain(h)) = (CHOOSE h : h = unfolds(h))
    BY <1>1, Zenon
  <2> QED
    BY <1>2, <2>1, Zenon
<1> HIDE DEF f
<1>5. \A n \in 0..N : f[n] = ParseStep(f, n, text)
  <2> HIDE DEF N
  <2> QED
    BY <1>3
<1>6. f[0] = Opens
  BY <1>5 DEF ParseStep
<1>7. \A n \in 1..N : f[n] = Parse(f[n - 1], text[n])
  BY <1>5 DEF ParseStep
<1> QED
  BY <1>4, <1>6, <1>7

(* The fences are taken out token by token. *)
StripStep(at, n, text) == IF n = 0 THEN <<>> ELSE Stripped(at[n - 1], text[n])

LEMMA StripExists ==
    ASSUME NEW text, NEW N \in Nat
    PROVE  \E f : f = [n \in 0..N |-> StripStep(f, n, text)]
<1> DEFINE good(m) == \E f : f = [n \in 0..m |-> StripStep(f, n, text)]
           bad == {m \in Nat : ~good(m)}
<1>1. good(0)
  <2> DEFINE f == [n \in 0..0 |-> <<>>]
  <2>1. \A n \in 0..0 : StripStep(f, n, text) = <<>>
    BY DEF StripStep
  <2>2. f = [n \in 0..0 |-> StripStep(f, n, text)]
    BY <2>1
  <2> QED
    BY <2>2
<1>2. ASSUME NEW m \in Nat, good(m) PROVE good(m + 1)
  <2>1. PICK f : f = [n \in 0..m |-> StripStep(f, n, text)]
    BY <1>2
  <2> DEFINE more == [n \in 0..m + 1 |-> StripStep(f, n, text)]
  <2>2. \A n \in 0..m : more[n] = f[n]
    <3>1. \A n \in 0..m : n \in 0..m + 1 /\ f[n] = StripStep(f, n, text)
      BY <2>1
    <3> QED
      BY <3>1
  <2> HIDE DEF more
  <2>3. \A n \in 0..m + 1 : StripStep(f, n, text) = StripStep(more, n, text)
    BY <2>2 DEF StripStep
  <2>4. more = [n \in 0..m + 1 |-> StripStep(more, n, text)]
    BY <2>3 DEF more
  <2> QED
    BY <2>4
<1> HIDE DEF good
<1>3. bad = {}
  <2> SUFFICES ASSUME bad # {} PROVE FALSE
    OBVIOUS
  <2> DEFINE m == Min(bad)
  <2>1. m \in bad /\ \A k \in bad : m <= k
    BY LeastOf
  <2> HIDE DEF m
  <2>2. m # 0
    BY <1>1, <2>1
  <2>3. m - 1 \in Nat /\ m - 1 \notin bad
    BY <2>1, <2>2
  <2>4. good((m - 1) + 1) /\ (m - 1) + 1 = m
    BY <1>2, <2>1, <2>3
  <2> QED
    BY <2>1, <2>4
<1>4. good(N)
  BY <1>3
<1> QED
  BY <1>4 DEF good

(* What is left after a token depends on what was left before it. *)
LEMMA StripUnfolds ==
    ASSUME NEW text, Len(text) \in Nat
    PROVE  /\ Stripping(text)[0] = <<>>
           /\ \A n \in 1..Len(text) : Stripping(text)[n] = Stripped(Stripping(text)[n - 1], text[n])
<1> DEFINE N == Len(text)
           unfolds(f) == [n \in 0..N |-> StripStep(f, n, text)]
           plain(f) == [n \in 0..Len(text) |-> IF n = 0 THEN <<>> ELSE Stripped(f[n - 1], text[n])]
           f == CHOOSE f : f = unfolds(f)
<1>1. \A h : plain(h) = unfolds(h)
  BY Zenon DEF StripStep
<1>2. Stripping(text) = CHOOSE h : h = plain(h)
  BY Zenon DEF Stripping
<1>3. f = unfolds(f)
  <2>1. \E h : h = unfolds(h)
    BY StripExists
  <2> HIDE DEF unfolds
  <2> QED
    BY <2>1, Zenon
<1>4. Stripping(text) = f
  <2> HIDE DEF plain, unfolds
  <2>1. (CHOOSE h : h = plain(h)) = (CHOOSE h : h = unfolds(h))
    BY <1>1, Zenon
  <2> QED
    BY <1>2, <2>1, Zenon
<1> HIDE DEF f
<1>5. \A n \in 0..N : f[n] = StripStep(f, n, text)
  <2> HIDE DEF N
  <2> QED
    BY <1>3
<1>6. f[0] = <<>>
  BY <1>5 DEF StripStep
<1>7. \A n \in 1..N : f[n] = Stripped(f[n - 1], text[n])
  BY <1>5 DEF StripStep
<1> QED
  BY <1>4, <1>6, <1>7

(* From token p on, a text goes on with k tokens of another. *)
Continued(text, p, other, k) ==
    /\ Len(text) \in Nat /\ Len(other) \in Nat /\ p \in Nat /\ k \in Nat
    /\ p + k <= Len(text) /\ k <= Len(other)
    /\ \A i \in 1..k : text[p + i] = other[i]

(* A scanner that is back where it started goes on as from the start. *)
LEMMA ScanGoesOn ==
    ASSUME NEW rule, NEW text, NEW other, NEW p, NEW k, Continued(text, p, other, k),
           Scan(rule, text)[p] = Unscanned
    PROVE  \A i \in 0..k : Scan(rule, text)[p + i] = Scan(rule, other)[i]
<1> DEFINE a == Scan(rule, text)
           b == Scan(rule, other)
           bad == {i \in 0..k : a[p + i] # b[i]}
<1>1. Len(text) \in Nat /\ Len(other) \in Nat /\ p \in Nat /\ k \in Nat
      /\ p + k <= Len(text) /\ k <= Len(other)
  BY DEF Continued
<1>2. \A i \in 1..k : text[p + i] = other[i]
  BY DEF Continued
<1>3. b[0] = Unscanned /\ \A n \in 1..Len(other) : b[n] = Scanned(rule, b[n - 1], other[n])
  BY <1>1, ScanUnfolds
<1>4. \A n \in 1..Len(text) : a[n] = Scanned(rule, a[n - 1], text[n])
  BY <1>1, ScanUnfolds
<1>5. a[p] = Unscanned
  OBVIOUS
<1> HIDE DEF a, b
<1>6. bad = {}
  <2> SUFFICES ASSUME bad # {} PROVE FALSE
    OBVIOUS
  <2> DEFINE m == Min(bad)
  <2>1. m \in bad /\ \A i \in bad : m <= i
    <3>1. bad \in SUBSET Nat
      BY <1>1
    <3> HIDE DEF bad
    <3> QED
      BY <3>1, LeastOf
  <2> HIDE DEF m
  <2>2. m \in 0..k /\ a[p + m] # b[m]
    BY <2>1
  <2>3. m # 0
    BY <1>1, <1>3, <1>5, <2>2
  <2>4. m - 1 \in 0..k /\ m - 1 \notin bad
    BY <1>1, <2>1, <2>2, <2>3
  <2>5. a[p + (m - 1)] = b[m - 1] /\ text[p + m] = other[m]
    BY <1>1, <1>2, <2>2, <2>3, <2>4
  <2>6. b[m] = Scanned(rule, b[m - 1], other[m])
    BY <1>1, <1>3, <2>2, <2>3
  <2>7. p + m \in 1..Len(text) /\ (p + m) - 1 = p + (m - 1)
    BY <1>1, <2>2, <2>3
  <2>8. a[p + m] = Scanned(rule, a[p + (m - 1)], text[p + m])
    BY <1>4, <2>7
  <2> QED
    BY <2>2, <2>5, <2>6, <2>8
<1> QED
  BY <1>6 DEF a, b

(* Texts that begin alike are parsed alike as far as that. *)
LEMMA ParseAlike ==
    ASSUME NEW text, NEW other, NEW k, Continued(text, 0, other, k)
    PROVE  \A i \in 0..k : Parsed(text)[i] = Parsed(other)[i]
<1> DEFINE a == Parsed(text)
           b == Parsed(other)
           bad == {i \in 0..k : a[i] # b[i]}
<1>1. Len(text) \in Nat /\ Len(other) \in Nat /\ k \in Nat
      /\ k <= Len(text) /\ k <= Len(other)
  BY DEF Continued
<1>2. \A i \in 1..k : text[i] = other[i]
  BY <1>1 DEF Continued
<1>3. b[0] = Opens /\ \A n \in 1..Len(other) : b[n] = Parse(b[n - 1], other[n])
  BY <1>1, ParseUnfolds
<1>4. a[0] = Opens /\ \A n \in 1..Len(text) : a[n] = Parse(a[n - 1], text[n])
  BY <1>1, ParseUnfolds
<1> HIDE DEF a, b
<1>6. bad = {}
  <2> SUFFICES ASSUME bad # {} PROVE FALSE
    OBVIOUS
  <2> DEFINE m == Min(bad)
  <2>1. m \in bad /\ \A i \in bad : m <= i
    <3>1. bad \in SUBSET Nat
      BY <1>1
    <3> HIDE DEF bad
    <3> QED
      BY <3>1, LeastOf
  <2> HIDE DEF m
  <2>2. m \in 0..k /\ a[m] # b[m]
    BY <2>1
  <2>3. m # 0
    BY <1>3, <1>4, <2>2
  <2>4. m - 1 \in 0..k /\ m - 1 \notin bad
    BY <1>1, <2>1, <2>2, <2>3
  <2>5. a[m - 1] = b[m - 1] /\ text[m] = other[m]
    BY <1>1, <1>2, <2>2, <2>3, <2>4
  <2>6. b[m] = Parse(b[m - 1], other[m]) /\ a[m] = Parse(a[m - 1], text[m])
    BY <1>1, <1>3, <1>4, <2>2, <2>3
  <2> QED
    BY <2>2, <2>5, <2>6
<1> QED
  BY <1>6 DEF a, b

(* What is left of the beginning and of the rest of a text, one after the *)
(* other, is what is left of it.                                          *)
LEMMA StripTypes ==
    ASSUME NEW S, NEW text \in Seq(S)
    PROVE  \A n \in 0..Len(text) : Stripping(text)[n] \in Seq(S)
<1> DEFINE a == Stripping(text)
           bad == {n \in 0..Len(text) : a[n] \notin Seq(S)}
<1>1. Len(text) \in Nat /\ \A n \in 1..Len(text) : text[n] \in S
  OBVIOUS
<1>2. a[0] = <<>> /\ \A n \in 1..Len(text) : a[n] = Stripped(a[n - 1], text[n])
  BY <1>1, StripUnfolds
<1> HIDE DEF a
<1>3. bad = {}
  <2> SUFFICES ASSUME bad # {} PROVE FALSE
    OBVIOUS
  <2> DEFINE m == Min(bad)
  <2>1. m \in bad /\ \A i \in bad : m <= i
    <3>1. bad \in SUBSET Nat
      BY <1>1
    <3> HIDE DEF bad
    <3> QED
      BY <3>1, LeastOf
  <2> HIDE DEF m
  <2>2. m \in 0..Len(text) /\ a[m] \notin Seq(S)
    BY <2>1
  <2>3. m # 0
    <3>1. <<>> \in Seq(S)
      OBVIOUS
    <3> QED
      BY <1>2, <2>2, <3>1
  <2>4. m - 1 \in 0..Len(text) /\ m - 1 \notin bad
    BY <1>1, <2>1, <2>2, <2>3
  <2>5. a[m - 1] \in Seq(S) /\ text[m] \in S
    BY <1>1, <2>2, <2>3, <2>4
  <2>6. a[m] = Stripped(a[m - 1], text[m])
    BY <1>2, <2>2, <2>3
  <2> QED
    BY <2>2, <2>5, <2>6 DEF Stripped
<1> QED
  BY <1>3 DEF a

\* One text and another after it.
Joined(x, y) == x \o y

LEMMA JoinedLater ==
    ASSUME NEW S, NEW x \in Seq(S), NEW y \in Seq(S), NEW e \in S
    PROVE  Stripped(Joined(x, y), e) = Joined(x, Stripped(y, e))
<1>1. Append(x \o y, e) = x \o Append(y, e)
  OBVIOUS
<1>2. CASE e = "f"
  BY <1>2 DEF Stripped
<1>3. CASE e # "f"
  BY <1>1, <1>3 DEF Stripped, Joined
<1> QED
  BY <1>2, <1>3

LEMMA JoinedNothing ==
    ASSUME NEW S, NEW x \in Seq(S)
    PROVE  Joined(x, <<>>) = x
BY DEF Joined

LEMMA StripConcat ==
    ASSUME NEW S, NEW u \in Seq(S), NEW v \in Seq(S)
    PROVE  Strip(Joined(u, v)) = Joined(Strip(u), Strip(v))
<1> DEFINE w == u \o v
           a == Stripping(u)
           b == Stripping(v)
           c == Stripping(w)
           p == Len(u)
           q == Len(v)
           want(n) == IF n <= p THEN a[n] ELSE Joined(a[p], b[n - p])
           bad == {n \in 0..p + q : c[n] # want(n)}
<1>1. p \in Nat /\ q \in Nat /\ Len(w) = p + q
  OBVIOUS
<1>2. /\ \A n \in 1..p : w[n] = u[n]
      /\ \A n \in 1..q : w[p + n] = v[n]
  OBVIOUS
<1>3. a[0] = <<>> /\ \A n \in 1..p : a[n] = Stripped(a[n - 1], u[n])
  BY <1>1, StripUnfolds
<1>4. b[0] = <<>> /\ \A n \in 1..q : b[n] = Stripped(b[n - 1], v[n])
  BY <1>1, StripUnfolds
<1>5. c[0] = <<>> /\ \A n \in 1..p + q : c[n] = Stripped(c[n - 1], w[n])
  <2> HIDE DEF w, p, q
  <2> QED
    BY <1>1, StripUnfolds
<1>6. a[p] \in Seq(S) /\ \A n \in 0..q : b[n] \in Seq(S)
  BY StripTypes
<1>7. v \in Seq(S)
  OBVIOUS
<1> HIDE DEF a, b, c, w, p, q
<1>8. /\ \A n \in 0..p : want(n) = a[n]
      /\ \A n \in 1..q : want(p + n) = Joined(a[p], b[n])
  <2>1. \A n \in 1..q : (p + n) - p = n /\ ~ (p + n <= p)
    BY <1>1
  <2>2. \A n \in 0..p : n <= p
    BY <1>1
  <2> QED
    BY <2>1, <2>2
<1>9. want(p) = Joined(a[p], b[0])
  <2>1. Joined(a[p], <<>>) = a[p]
    BY <1>6, JoinedNothing
  <2> QED
    BY <1>1, <1>4, <1>8, <2>1
<1>10. \A n \in 0..q : want(p + n) = Joined(a[p], b[n])
  <2> HIDE DEF want
  <2>1. p + 0 = p /\ \A n \in 0..q : n = 0 \/ n \in 1..q
    BY <1>1
  <2> QED
    BY <1>8, <1>9, <2>1
<1> HIDE DEF want
<1>11. bad = {}
  <2> SUFFICES ASSUME bad # {} PROVE FALSE
    OBVIOUS
  <2> DEFINE m == Min(bad)
  <2>1. m \in bad /\ \A i \in bad : m <= i
    <3>1. bad \in SUBSET Nat
      BY <1>1
    <3> HIDE DEF bad
    <3> QED
      BY <3>1, LeastOf
  <2> HIDE DEF m
  <2>2. m \in 0..p + q /\ c[m] # want(m)
    BY <2>1
  <2>3. m # 0
    BY <1>1, <1>3, <1>5, <1>8, <2>2
  <2>4. m - 1 \in 0..p + q /\ m - 1 \notin bad
    BY <1>1, <2>1, <2>2, <2>3
  <2>5. c[m - 1] = want(m - 1) /\ c[m] = Stripped(c[m - 1], w[m])
    BY <1>1, <1>5, <2>2, <2>3, <2>4
  <2>6. CASE m <= p
    <3>1. c[m - 1] = a[m - 1] /\ w[m] = u[m] /\ want(m) = a[m]
      BY <1>1, <1>2, <1>8, <2>2, <2>3, <2>5, <2>6
    <3>2. a[m] = Stripped(a[m - 1], u[m])
      BY <1>1, <1>3, <2>2, <2>3, <2>6
    <3> QED
      BY <2>2, <2>5, <3>1, <3>2
  <2>7. CASE m > p
    <3> HIDE DEF bad
    <3>1. PICK n \in 1..q : m = p + n
      <4>1. m - p \in 1..q /\ m = p + (m - p)
        BY <1>1, <2>2, <2>7
      <4> QED
        BY <4>1
    <3>2. w[m] = v[n] /\ b[n] = Stripped(b[n - 1], v[n])
      BY <1>2, <1>4, <3>1
    <3>3. m - 1 = p + (n - 1) /\ n - 1 \in 0..q
      BY <1>1, <3>1
    <3>4. c[m - 1] = Joined(a[p], b[n - 1]) /\ want(m) = Joined(a[p], b[n])
      BY <1>8, <1>10, <2>5, <3>1, <3>3
    <3>5. b[n - 1] \in Seq(S)
      BY <1>6, <3>3
    <3>6. v[n] \in S
      BY <1>7 DEF q
    <3>7. Stripped(Joined(a[p], b[n - 1]), v[n]) = Joined(a[p], Stripped(b[n - 1], v[n]))
      BY <1>6, <3>5, <3>6, JoinedLater
    <3> QED
      BY <2>2, <2>5, <3>2, <3>4, <3>7
  <2> QED
    BY <1>1, <2>2, <2>6, <2>7
<1>12. c[p + q] = want(p + q)
  BY <1>1, <1>11
<1>13. want(p + q) = Joined(a[p], b[q])
  <2>1. q \in 0..q
    BY <1>1
  <2> QED
    BY <1>10, <2>1
<1>14. c[Len(w)] = Joined(a[Len(u)], b[Len(v)])
  BY <1>1, <1>12, <1>13 DEF p, q
<1> QED
  BY <1>14, Zenon DEF a, b, c, w, Strip, Joined

(* A text without a fence stays as it is. *)
LEMMA StripPlain ==
    ASSUME NEW S, NEW v \in Seq(S), \A i \in 1..Len(v) : v[i] # "f"
    PROVE  Strip(v) = v
<1> DEFINE b == Stripping(v)
           q == Len(v)
           bad == {n \in 0..q : b[n] # SubSeq(v, 1, n)}
<1>1. q \in Nat /\ b[0] = <<>> /\ \A n \in 1..q : b[n] = Stripped(b[n - 1], v[n])
  BY StripUnfolds
<1>2. SubSeq(v, 1, 0) = <<>> /\ SubSeq(v, 1, q) = v
  OBVIOUS
<1>3. \A n \in 1..q : SubSeq(v, 1, n) = Append(SubSeq(v, 1, n - 1), v[n])
  OBVIOUS
<1> HIDE DEF b
<1>4. bad = {}
  <2> SUFFICES ASSUME bad # {} PROVE FALSE
    OBVIOUS
  <2> DEFINE m == Min(bad)
  <2>1. m \in bad /\ \A i \in bad : m <= i
    <3>1. bad \in SUBSET Nat
      BY <1>1
    <3> HIDE DEF bad
    <3> QED
      BY <3>1, LeastOf
  <2> HIDE DEF m
  <2>2. m \in 0..q /\ b[m] # SubSeq(v, 1, m)
    BY <2>1
  <2>3. m # 0
    BY <1>1, <1>2, <2>2
  <2>4. m - 1 \in 0..q /\ m - 1 \notin bad
    BY <1>1, <2>1, <2>2, <2>3
  <2>5. b[m] = Append(b[m - 1], v[m])
    <3>1. m \in 1..Len(v) /\ m \in 1..q
      BY <1>1, <2>2, <2>3
    <3>2. v[m] # "f" /\ b[m] = Stripped(b[m - 1], v[m])
      BY <1>1, <3>1
    <3> QED
      BY <3>2 DEF Stripped
  <2>6. b[m - 1] = SubSeq(v, 1, m - 1)
    BY <2>4
  <2> QED
    BY <1>1, <1>3, <2>2, <2>3, <2>5, <2>6
<1>5. b[q] = SubSeq(v, 1, q)
  BY <1>1, <1>4
<1>6. Strip(v) = b[q]
  BY Zenon DEF Strip, b, q
<1> QED
  BY <1>2, <1>5, <1>6

-----------------------------------------------------------------------------
(* What a parser and a scanner make of the same object.                    *)

LEMMA Tokens ==
    /\ LBrace # RBrace /\ LBrace # LBracket /\ LBrace # RBracket /\ LBrace # Comma
    /\ RBrace # LBracket /\ RBrace # RBracket /\ RBrace # Comma
    /\ LBracket # RBracket /\ LBracket # Comma /\ RBracket # Comma
    /\ \A t \in {LBrace, RBrace, LBracket, RBracket, Comma} :
          t \notin {"q", "b", "f", "none"} \cup Members \cup Keys
<1>1. /\ LBrace # RBrace /\ LBrace # LBracket /\ LBrace # RBracket /\ LBrace # Comma
      /\ RBrace # LBracket /\ RBrace # RBracket /\ RBrace # Comma
      /\ LBracket # RBracket /\ LBracket # Comma /\ RBracket # Comma
  BY Zenon DEF LBrace, RBrace, LBracket, RBracket, Comma
<1>2. \A t \in {LBrace, RBrace, LBracket, RBracket, Comma} :
        t \notin {"q", "b", "f", "none"} \cup Members \cup Keys
  BY Zenon DEF LBrace, RBrace, LBracket, RBracket, Comma, Members, Keys
<1> QED
  BY <1>1, <1>2

\* How many braces are open.
Braces(open) == Cardinality({i \in 1..Len(open) : open[i] = LBrace})

LEMMA BracesTypes ==
    ASSUME NEW S, NEW open \in Seq(S)
    PROVE  /\ Braces(open) \in Nat
           /\ open # <<>> /\ open[1] = LBrace => Braces(open) >= 1
<1> DEFINE N == Len(open)
           now == {i \in 1..N : open[i] = LBrace}
<1>1. N \in Nat /\ (open # <<>> => N # 0)
  OBVIOUS
<1> HIDE DEF N
<1>2. IsFiniteSet(now)
  <2>1. now \subseteq 1..N
    OBVIOUS
  <2>2. IsFiniteSet(1..N)
    BY <1>1, FS_Interval
  <2> HIDE DEF now
  <2>3. IsFiniteSet(now)
    BY <2>1, <2>2, FS_Subset
  <2> QED
    BY <2>1, <2>3
<1>3. ASSUME open # <<>>, open[1] = LBrace PROVE 1 \in now
  BY <1>1, <1>3
<1>4. Braces(open) = Cardinality(now)
  BY DEF Braces, N
<1> HIDE DEF now
<1>5. Cardinality(now) \in Nat /\ (Cardinality(now) = 0 <=> now = {})
  BY <1>2, FS_CardinalityType, FS_EmptySet
<1> QED
  BY <1>3, <1>4, <1>5

LEMMA BracesAppend ==
    ASSUME NEW S, NEW open \in Seq(S), NEW t \in S
    PROVE  Braces(Append(open, t)) = Braces(open) + (IF t = LBrace THEN 1 ELSE 0)
<1> DEFINE N == Len(open)
           longer == Append(open, t)
           now == {i \in 1..N : open[i] = LBrace}
           new == {i \in 1..N + 1 : longer[i] = LBrace}
<1>1. /\ N \in Nat /\ Len(longer) = N + 1 /\ longer[N + 1] = t
      /\ \A i \in 1..N : longer[i] = open[i]
  OBVIOUS
<1>2. Braces(open) = Cardinality(now) /\ Braces(longer) = Cardinality(new)
  BY <1>1 DEF Braces
<1> HIDE DEF N, longer
<1>3. IsFiniteSet(now) /\ N + 1 \notin now
  <2>1. now \subseteq 1..N /\ N + 1 \notin 1..N
    BY <1>1
  <2>2. IsFiniteSet(1..N)
    BY <1>1, FS_Interval
  <2> HIDE DEF now
  <2>3. IsFiniteSet(now)
    BY <2>1, <2>2, FS_Subset
  <2> QED
    BY <2>1, <2>3
<1>4. new = IF t = LBrace THEN now \cup {N + 1} ELSE now
  BY <1>1
<1> HIDE DEF now, new
<1>5. Cardinality(now \cup {N + 1}) = Cardinality(now) + 1
      /\ Cardinality(now) \in Nat
  BY <1>3, FS_AddElement, FS_CardinalityType
<1> QED
  BY <1>2, <1>4, <1>5 DEF longer

\* What the parser does with a token.
Outcome(open, want, t, q) ==
    \/ q = Bad
    \/ want = "escaped" /\ q = Parser(open, "string")
    \/ want = "string" /\ t = "b" /\ q = Parser(open, "escaped")
    \/ want = "string" /\ t = "q" /\ q = Closed(open)
    \/ want = "string" /\ t \notin {"b", "q"} /\ q = Parser(open, "string")
    \/ /\ want \in {"value", "first", "item", "after"}
       /\ \/ t = "q" /\ q = Parser(open, "string")
          \/ t \in {LBrace, LBracket} /\ q = Parser(Append(open, t), "first")
          \/ /\ t \in Members \cup Keys \cup {Comma}
             /\ \E now \in {"after", "value", "item"} : q = Parser(open, now)
          \/ /\ open # <<>> /\ <<Last(open), t>> \in Closing
             /\ q = Closed(Front(open))

LEMMA ParseCases ==
    ASSUME NEW open, NEW want, NEW t
    PROVE  Outcome(open, want, t, Parse(Parser(open, want), t))
<1> DEFINE p == Parser(open, want)
           q == Parse(p, t)
           within == IF p.open = <<>> THEN "none" ELSE Last(p.open)
           item == p.want \in {"first", "item"}
           value == p.want = "value" \/ (item /\ within = LBracket)
           member == <<within, t>> \in Member
           key == <<within, t>> \in Key
           closing == <<within, t>> \in Closing
<1>1. p.open = open /\ p.want = want
  BY DEF Parser
<1> HIDE DEF p
<1> DEFINE escaped == p.want = "escaped"
           slash == p.want = "string" /\ t = "b"
           quoted == p.want = "string" /\ t = "q"
           plain == p.want = "string" /\ t \notin {"b", "q"}
           begins == value /\ t = "q"
           opens == value /\ t \in {LBrace, LBracket}
           comma == p.want = "after" /\ t = Comma
           closes == p.want \in {"first", "after"} /\ closing
           x1 == Parser(p.open, "string")
           x2 == Parser(p.open, "escaped")
           x3 == Closed(p.open)
           x4 == Parser(Append(p.open, t), "first")
           x5 == Parser(p.open, "after")
           x6 == Parser(p.open, "value")
           x7 == Parser(p.open, "item")
           x8 == Closed(Front(p.open))
<1>0. q = CASE escaped -> x1 [] slash -> x2 [] quoted -> x3 [] plain -> p
            [] begins -> x1 [] opens -> x4 [] item /\ member -> x5 [] item /\ key -> x6
            [] comma -> x7 [] closes -> x8 [] OTHER -> Bad
  BY Zenon DEF Parse
<1>1a. /\ escaped \in BOOLEAN /\ slash \in BOOLEAN /\ quoted \in BOOLEAN /\ plain \in BOOLEAN
       /\ begins \in BOOLEAN /\ opens \in BOOLEAN /\ item \in BOOLEAN /\ member \in BOOLEAN
       /\ key \in BOOLEAN /\ comma \in BOOLEAN /\ closes \in BOOLEAN
  OBVIOUS
<1>2. \/ q = Bad
      \/ escaped /\ q = x1
      \/ slash /\ q = x2
      \/ quoted /\ q = x3
      \/ plain /\ q = p
      \/ begins /\ q = x1
      \/ opens /\ q = x4
      \/ item /\ member /\ q = x5
      \/ item /\ key /\ q = x6
      \/ comma /\ q = x7
      \/ closes /\ q = x8
  <2> HIDE DEF escaped, slash, quoted, plain, begins, opens, item, member, key, comma, closes,
               x1, x2, x3, x4, x5, x6, x7, x8, q
  <2> QED
    BY <1>0, <1>1a, SMT
<1> HIDE DEF q
<1>3. member \/ key => t \in Members \cup Keys
  <2> HIDE DEF within
  <2> QED
    BY Zenon DEF Member, Key
<1>4. closing => open # <<>> /\ <<Last(open), t>> \in Closing
  <2>1. "none" \notin {LBrace, LBracket}
    BY Tokens
  <2>2. closing => within \in {LBrace, LBracket}
    <3> HIDE DEF within
    <3> QED
      BY Zenon DEF Closing
  <2>3. CASE open = <<>>
    BY <1>1, <2>1, <2>2, <2>3
  <2>4. CASE open # <<>>
    BY <1>1, <2>4, Zenon
  <2> QED
    BY <2>3, <2>4
<1>5. (item => want \in {"value", "first", "item", "after"})
      /\ (value => want \in {"value", "first", "item", "after"})
      /\ (want = "after" => want \in {"value", "first", "item", "after"})
      /\ (want \in {"first", "after"} => want \in {"value", "first", "item", "after"})
  BY <1>1
<1> HIDE DEF member, key, closing, value, item, within
<1>6. /\ t = Comma => t \in Members \cup Keys \cup {Comma}
      /\ member \/ key => t \in Members \cup Keys \cup {Comma}
  BY <1>3
<1>7. p = Parser(open, want)
  BY DEF p
<1>8. (want = "string" => p = Parser(open, "string"))
  BY <1>7
<1>9. \A now \in {"after", "value", "item"} :
        q = Parser(open, now) => \E n \in {"after", "value", "item"} : q = Parser(open, n)
  BY Zenon
<1>10. q = Parser(open, "after") \/ q = Parser(open, "value") \/ q = Parser(open, "item")
       => \E n \in {"after", "value", "item"} : q = Parser(open, n)
  BY <1>9
<1>11. Outcome(open, want, t, q)
  BY <1>1, <1>2, <1>4, <1>5, <1>6, <1>8, <1>10, Zenon DEF Outcome
<1> QED
  BY <1>11 DEF q, p

LEMMA BracesNone == Braces(<<>>) = 0
<1>1. {i \in 1..Len(<<>>) : <<>>[i] = LBrace} = {}
  OBVIOUS
<1>2. Cardinality({}) = 0
  BY FS_EmptySet
<1> QED
  BY <1>1, <1>2, Zenon DEF Braces

LEMMA AfterCases ==
    ASSUME NEW t
    PROVE  /\ After("out", t) = IF t = "q" THEN "in" ELSE "out"
           /\ After("esc", t) = "in"
           /\ After("in", "b") = "esc" /\ After("in", "q") = "out"
           /\ t \notin {"b", "q"} => After("in", t) = "in"
<1>1. After("out", t) = IF t = "q" THEN "in" ELSE "out"
  BY Zenon DEF After
<1>2. After("esc", t) = "in"
  BY Zenon DEF After
<1>3. After("in", "b") = "esc" /\ After("in", "q") = "out"
  BY Zenon DEF After
<1>4. t \notin {"b", "q"} => After("in", t) = "in"
  <2> SUFFICES ASSUME t # "b", t # "q" PROVE After("in", t) = "in"
    OBVIOUS
  <2> QED
    BY Zenon DEF After
<1> QED
  BY <1>1, <1>2, <1>3, <1>4

LEMMA ScannedCases ==
    ASSUME NEW s, NEW t
    PROVE  /\ Scanned(Trusting, s, t).mode = After(s.mode, t)
           /\ s.mode # "out" => Scanned(Trusting, s, t).depth = s.depth
           /\ s.mode = "out" /\ t = LBrace => Scanned(Trusting, s, t).depth = s.depth + 1
           /\ s.mode = "out" /\ t = RBrace /\ s.depth # 0
              => Scanned(Trusting, s, t).depth = s.depth - 1
           /\ s.mode = "out" /\ t # LBrace /\ t # RBrace
              => Scanned(Trusting, s, t).depth = s.depth
<1> DEFINE d == s.depth
           n == Scanned(Trusting, s, t)
           next == CASE t \in {LBrace} -> d + 1
                     [] t \in {RBrace} /\ (TRUE => d # 0) -> d - 1
                     [] OTHER -> d
<1>1. /\ Trusting.opens = {LBrace} /\ Trusting.closes = {RBrace} /\ Trusting.floored = TRUE
      /\ Trusting.quotes = TRUE
  BY Zenon DEF Trusting, Spanning
<1>2. n.mode = After(s.mode, t)
  <2>1. n.mode = IF Trusting.quotes THEN After(s.mode, t) ELSE s.mode
    BY Zenon DEF Scanned
  <2> QED
    BY <1>1, <2>1, Zenon
<1>3. n.depth = IF s.mode # "out" THEN d ELSE next
  <2>1. n.depth
        = IF s.mode # "out" THEN s.depth
          ELSE CASE t \in Trusting.opens -> s.depth + 1
                 [] t \in Trusting.closes /\ (Trusting.floored => s.depth # 0) -> s.depth - 1
                 [] OTHER -> s.depth
    BY Zenon DEF Scanned
  <2> QED
    BY <1>1, <2>1, Zenon
<1>4. LBrace # RBrace
  BY Tokens
<1>5. t = LBrace => next = d + 1
  <2> SUFFICES ASSUME t = LBrace PROVE next = d + 1
    OBVIOUS
  <2>1. t \in {LBrace} /\ t \notin {RBrace}
    BY <1>4
  <2> QED
    BY <2>1, Zenon
<1>6. t = RBrace /\ d # 0 => next = d - 1
  <2> SUFFICES ASSUME t = RBrace, d # 0 PROVE next = d - 1
    OBVIOUS
  <2>1. t \in {RBrace} /\ t \notin {LBrace}
    BY <1>4
  <2> QED
    BY <2>1, Zenon
<1>7. t # LBrace /\ t # RBrace => next = d
  <2> SUFFICES ASSUME t # LBrace, t # RBrace PROVE next = d
    OBVIOUS
  <2>1. t \notin {RBrace} /\ t \notin {LBrace}
    OBVIOUS
  <2> QED
    BY <2>1, Zenon
<1> HIDE DEF next, n
<1> QED
  BY <1>2, <1>3, <1>5, <1>6, <1>7 DEF n

Openers == {LBrace, LBracket}
Wants == {"value", "first", "item", "after", "string", "escaped"}
Within == {"value", "first", "item", "after"}

ModeOf(want) == IF want = "string" THEN "in" ELSE IF want = "escaped" THEN "esc" ELSE "out"

\* What is open is an object, perhaps with objects and lists in it.
InObject(open) == open \in Seq(Openers) /\ open # <<>> /\ open[1] = LBrace

\* The parser is within a string where the scan is, and as many braces are open
\* for the one as for the other.
Agree(p, s) ==
    \/ \E open, want : /\ p = Parser(open, want) /\ InObject(open) /\ want \in Wants
                       /\ s.mode = ModeOf(want) /\ s.depth = Braces(open)
    \/ p = Parser(<<>>, "done") /\ s.mode = "out" /\ s.depth = 0

LEMMA StillAgree ==
    ASSUME NEW open, InObject(open), NEW want \in Wants, NEW s,
           s.mode = ModeOf(want), s.depth = Braces(open)
    PROVE  Agree(Parser(open, want), s)
BY Zenon DEF Agree

LEMMA ModesOf ==
    /\ ModeOf("string") = "in" /\ ModeOf("escaped") = "esc"
    /\ \A want \in Within : ModeOf(want) = "out" /\ want \in Wants
    /\ "string" \in Wants /\ "escaped" \in Wants
BY DEF ModeOf, Wants, Within

LEMMA FrontShape ==
    ASSUME NEW S, NEW open \in Seq(S), open # <<>>
    PROVE  /\ Front(open) \in Seq(S) /\ Last(open) \in S
           /\ Append(Front(open), Last(open)) = open
           /\ Front(open) # <<>> => Front(open)[1] = open[1]
<1> DEFINE f == SubSeq(open, 1, Len(open) - 1)
           e == open[Len(open)]
<1>1. f \in Seq(S) /\ e \in S /\ Append(f, e) = open /\ (f # <<>> => f[1] = open[1])
  OBVIOUS
<1>2. Front(open) = f /\ Last(open) = e
  BY DEF Front, Last
<1> HIDE DEF f, e
<1> QED
  BY <1>1, <1>2

\* A value at the top level is the last.
LEMMA DoneIsLast ==
    ASSUME NEW t
    PROVE  Parse(Parser(<<>>, "done"), t) = Bad
<1> DEFINE q == Parse(Parser(<<>>, "done"), t)
<1>1. Outcome(<<>>, "done", t, q)
  BY ParseCases
<1>2. "done" \notin {"escaped", "string", "value", "first", "item", "after"}
  OBVIOUS
<1> QED
  BY <1>1, <1>2, Zenon DEF Outcome

LEMMA AgreeNext ==
    ASSUME NEW p, NEW s, NEW t, Agree(p, s), Parse(p, t) # Bad
    PROVE  Agree(Parse(p, t), Scanned(Trusting, s, t))
<1>1. PICK open, want : /\ p = Parser(open, want) /\ InObject(open) /\ want \in Wants
                        /\ s.mode = ModeOf(want) /\ s.depth = Braces(open)
  BY DoneIsLast, Zenon DEF Agree
<1> DEFINE q == Parse(p, t)
           n == Scanned(Trusting, s, t)
           b == Braces(open)
<1>2. Outcome(open, want, t, q) /\ q # Bad
  BY <1>1, ParseCases
<1>3. open \in Seq(Openers) /\ open # <<>> /\ open[1] = LBrace
  BY <1>1 DEF InObject
<1>4. b \in Nat /\ b >= 1
  BY <1>3, BracesTypes
<1>5. n.mode = After(s.mode, t)
  BY ScannedCases
<1>6. s.mode # "out" => n.depth = b
  BY <1>1, ScannedCases
<1>7. s.mode = "out" => /\ t = LBrace => n.depth = b + 1
                        /\ t = RBrace => n.depth = b - 1
                        /\ t # LBrace /\ t # RBrace => n.depth = b
  <2> HIDE DEF n, b
  <2>1. s.depth = b /\ b # 0
    BY <1>1, <1>4 DEF b
  <2> QED
    BY <2>1, ScannedCases DEF n
<1> SUFFICES Agree(q, n)
  OBVIOUS
<1> HIDE DEF q, n, b
<1>8. CASE want = "escaped" /\ q = Parser(open, "string")
  <2>1. s.mode = "esc"
    BY <1>1, <1>8, ModesOf
  <2>2. n.mode = "in" /\ n.depth = b
    BY <1>5, <1>6, <2>1, AfterCases
  <2>3. Agree(Parser(open, "string"), n)
    BY <1>1, <2>2, ModesOf, StillAgree, Zenon DEF b
  <2> QED
    BY <1>8, <2>3, Zenon
<1>9. CASE want = "string" /\ t = "b" /\ q = Parser(open, "escaped")
  <2>1. s.mode = "in"
    BY <1>1, <1>9, ModesOf
  <2>2. n.mode = "esc" /\ n.depth = b
    BY <1>5, <1>6, <1>9, <2>1, AfterCases
  <2>3. Agree(Parser(open, "escaped"), n)
    BY <1>1, <2>2, ModesOf, StillAgree, Zenon DEF b
  <2> QED
    BY <1>9, <2>3, Zenon
<1>10. CASE want = "string" /\ t = "q" /\ q = Closed(open)
  <2>1. s.mode = "in"
    BY <1>1, <1>10, ModesOf
  <2>2. n.mode = "out" /\ n.depth = b
    BY <1>5, <1>6, <1>10, <2>1, AfterCases
  <2>3. q = Parser(open, "after") /\ "after" \in Within
    BY <1>3, <1>10 DEF Closed, Within
  <2>4. Agree(Parser(open, "after"), n)
    BY <1>1, <2>2, <2>3, ModesOf, StillAgree, Zenon DEF b
  <2> QED
    BY <2>3, <2>4, Zenon
<1>11. CASE want = "string" /\ t \notin {"b", "q"} /\ q = Parser(open, "string")
  <2>1. s.mode = "in"
    BY <1>1, <1>11, ModesOf
  <2>2. n.mode = "in" /\ n.depth = b
    BY <1>5, <1>6, <1>11, <2>1, AfterCases
  <2>3. Agree(Parser(open, "string"), n)
    BY <1>1, <2>2, ModesOf, StillAgree, Zenon DEF b
  <2> QED
    BY <1>11, <2>3, Zenon
<1>12. want \in Within => s.mode = "out" /\ n.mode = IF t = "q" THEN "in" ELSE "out"
  <2> SUFFICES ASSUME want \in Within
               PROVE  s.mode = "out" /\ n.mode = IF t = "q" THEN "in" ELSE "out"
    OBVIOUS
  <2>1. s.mode = "out"
    BY <1>1, ModesOf
  <2> QED
    BY <1>5, <2>1, AfterCases
<1>13. CASE want \in Within /\ t = "q" /\ q = Parser(open, "string")
  <2>1. t # LBrace /\ t # RBrace
    BY <1>13, Tokens
  <2>2. n.mode = "in" /\ n.depth = b
    BY <1>7, <1>12, <1>13, <2>1
  <2>3. Agree(Parser(open, "string"), n)
    BY <1>1, <2>2, ModesOf, StillAgree, Zenon DEF b
  <2> QED
    BY <1>13, <2>3, Zenon
<1>14. CASE want \in Within /\ t \in Openers /\ q = Parser(Append(open, t), "first")
  <2> DEFINE more == Append(open, t)
  <2>1. s.mode = "out" /\ n.mode = "out"
    <3>1. t # "q"
      BY <1>14, Tokens DEF Openers
    <3> QED
      BY <1>12, <1>14, <3>1
  <2>2. InObject(more)
    <3>1. more \in Seq(Openers) /\ more # <<>> /\ more[1] = LBrace
      BY <1>3, <1>14
    <3> QED
      BY <3>1 DEF InObject
  <2>3. Braces(more) = b + (IF t = LBrace THEN 1 ELSE 0)
    BY <1>3, <1>14, BracesAppend DEF b
  <2>4. n.depth = Braces(more)
    <3>1. CASE t = LBrace
      BY <1>7, <2>1, <2>3, <3>1
    <3>2. CASE t = LBracket
      <4>1. t # LBrace /\ t # RBrace
        BY <3>2, Tokens
      <4> QED
        BY <1>4, <1>7, <2>1, <2>3, <4>1
    <3> QED
      BY <1>14, <3>1, <3>2 DEF Openers
  <2> HIDE DEF more
  <2>5. q = Parser(more, "first") /\ "first" \in Within
    BY <1>14 DEF more, Within
  <2>6. Agree(Parser(more, "first"), n)
    BY <2>1, <2>2, <2>4, <2>5, ModesOf, StillAgree, Zenon
  <2> QED
    BY <2>5, <2>6, Zenon
<1>15. CASE /\ want \in Within /\ t \in Members \cup Keys \cup {Comma}
            /\ \E now \in {"after", "value", "item"} : q = Parser(open, now)
  <2>1. PICK now \in {"after", "value", "item"} : q = Parser(open, now)
    BY <1>15
  <2>2. t # LBrace /\ t # RBrace /\ t # "q"
    <3>1. "q" \notin Members \cup Keys
      BY Zenon DEF Members, Keys
    <3> QED
      BY <1>15, <3>1, Tokens
  <2>3. n.mode = "out" /\ n.depth = b
    BY <1>7, <1>12, <1>15, <2>2
  <2>4. now \in Within
    BY DEF Within
  <2>5. Agree(Parser(open, now), n)
    BY <1>1, <2>3, <2>4, ModesOf, StillAgree, Zenon DEF b
  <2> QED
    BY <2>1, <2>5, Zenon
<1>16. CASE /\ want \in Within /\ <<Last(open), t>> \in Closing
            /\ q = Closed(Front(open))
  <2> DEFINE f == Front(open)
             e == Last(open)
  <2>1. f \in Seq(Openers) /\ e \in Openers /\ Append(f, e) = open /\ (f # <<>> => f[1] = open[1])
    BY <1>3, FrontShape
  <2>2. (e = LBrace /\ t = RBrace) \/ (e = LBracket /\ t = RBracket)
    BY <1>16, Zenon DEF Closing
  <2>3. q = Parser(f, IF f = <<>> THEN "done" ELSE "after")
    BY <1>16, Zenon DEF Closed
  <2> HIDE DEF f, e
  <2>4. b = Braces(f) + (IF e = LBrace THEN 1 ELSE 0) /\ Braces(f) \in Nat
    <3>1. Braces(Append(f, e)) = Braces(f) + (IF e = LBrace THEN 1 ELSE 0)
      BY <2>1, BracesAppend
    <3>2. Braces(f) \in Nat
      BY <2>1, BracesTypes
    <3> QED
      BY <2>1, <3>1, <3>2 DEF b
  <2>5. s.mode = "out" /\ n.mode = "out"
    <3>1. t # "q"
      BY <2>2, Tokens
    <3> QED
      BY <1>12, <1>16, <3>1
  <2>6. n.depth = Braces(f)
    <3>1. CASE e = LBrace /\ t = RBrace
      <4>1. n.depth = b - 1
        BY <1>7, <2>5, <3>1
      <4> QED
        BY <2>4, <3>1, <4>1
    <3>2. CASE e = LBracket /\ t = RBracket
      <4>1. t # LBrace /\ t # RBrace /\ e # LBrace
        BY <3>2, Tokens
      <4> QED
        BY <1>7, <2>4, <2>5, <4>1
    <3> QED
      BY <2>2, <3>1, <3>2
  <2>7. CASE f = <<>>
    <3>1. q = Parser(<<>>, "done")
      BY <2>3, <2>7
    <3>2. n.depth = 0
      BY <2>6, <2>7, BracesNone
    <3> QED
      BY <2>5, <3>1, <3>2, Zenon DEF Agree
  <2>8. CASE f # <<>>
    <3>1. q = Parser(f, "after") /\ "after" \in Within
      BY <2>3, <2>8 DEF Within
    <3>2. InObject(f)
      BY <1>3, <2>1, <2>8 DEF InObject
    <3>3. Agree(Parser(f, "after"), n)
      BY <2>5, <2>6, <3>1, <3>2, ModesOf, StillAgree, Zenon
    <3> QED
      BY <3>1, <3>3, Zenon
  <2> QED
    BY <2>7, <2>8
<1>17. want \in Within <=> want \in {"value", "first", "item", "after"}
  BY DEF Within
<1>18. t \in Openers <=> t \in {LBrace, LBracket}
  BY DEF Openers
<1> QED
  BY <1>2, <1>8, <1>9, <1>10, <1>11, <1>13, <1>14, <1>15, <1>16, <1>17, <1>18, Zenon DEF Outcome

-----------------------------------------------------------------------------
(* What a cut or surrounded reply is read as.                              *)

(* The parser wants nothing after a value: more is an error, for good. *)
LEMMA OverIsOver ==
    ASSUME NEW p, NEW t, p.want \in {"done", "bad"}
    PROVE  Parse(p, t) = Bad
<1>1. CASE p.want = "done"
  BY <1>1, Zenon DEF Parse
<1>2. CASE p.want = "bad"
  BY <1>2, Zenon DEF Parse
<1> QED
  BY <1>1, <1>2

LEMMA NeverTwice ==
    ASSUME NEW text, NEW k, Len(text) \in Nat, k \in 0..Len(text) - 1,
           Parsed(text)[k].want \in {"done", "bad"}
    PROVE  Parsed(text)[Len(text)].want = "bad"
<1> DEFINE N == Len(text)
           a == Parsed(text)
           bad == {i \in k + 1..N : a[i].want # "bad"}
<1>1. N \in Nat /\ k \in 0..N - 1
  OBVIOUS
<1>2. \A n \in 1..N : a[n] = Parse(a[n - 1], text[n])
  BY <1>1, ParseUnfolds
<1>3. a[k].want \in {"done", "bad"}
  OBVIOUS
<1> HIDE DEF a, N
<1>4. Bad.want = "bad"
  BY DEF Bad, Parser
<1>5. bad = {}
  <2> SUFFICES ASSUME bad # {} PROVE FALSE
    OBVIOUS
  <2> DEFINE m == Min(bad)
  <2>1. m \in bad /\ \A i \in bad : m <= i
    <3>1. bad \in SUBSET Nat
      BY <1>1
    <3> HIDE DEF bad
    <3> QED
      BY <3>1, LeastOf
  <2> HIDE DEF m
  <2>2. m \in k + 1..N /\ a[m].want # "bad"
    BY <2>1
  <2>3. m - 1 = k \/ m - 1 \in k + 1..N
    BY <1>1, <2>2
  <2>4. m - 1 \notin bad
    BY <1>1, <2>1, <2>2
  <2>5. a[m - 1].want \in {"done", "bad"}
    BY <1>3, <2>3, <2>4
  <2>6. m \in 1..N
    BY <1>1, <2>2
  <2>7. a[m] = Parse(a[m - 1], text[m])
    BY <1>2, <2>6
  <2>8. a[m] = Bad
    BY <2>5, <2>7, OverIsOver
  <2> QED
    BY <1>4, <2>2, <2>8
<1>6. a[N].want = "bad"
  BY <1>1, <1>5
<1> QED
  BY <1>6 DEF a, N

\* The first m tokens.
Cut(text, m) == SubSeq(text, 1, m)

LEMMA CutContinues ==
    ASSUME NEW S, NEW text \in Seq(S), NEW m \in 0..Len(text)
    PROVE  /\ Len(Cut(text, m)) = m
           /\ Cut(text, m) \in Seq(S)
           /\ \A i \in 1..m : Cut(text, m)[i] = text[i]
           /\ Continued(Cut(text, m), 0, text, m)
           /\ Continued(text, 0, Cut(text, m), m)
<1>1. /\ Len(Cut(text, m)) = m /\ Cut(text, m) \in Seq(S)
      /\ \A i \in 1..m : Cut(text, m)[i] = text[i]
  BY DEF Cut
<1>2. \A i \in 1..m : 0 + i = i
  OBVIOUS
<1> QED
  BY <1>1, <1>2 DEF Continued

(* No object is whole before its end. *)
LEMMA NotBeforeItsEnd ==
    ASSUME NEW S, NEW text \in Seq(S), Loads(text), NEW m \in 0..Len(text) - 1
    PROVE  ~Loads(Cut(text, m))
<1> SUFFICES ASSUME Loads(Cut(text, m)) PROVE FALSE
  OBVIOUS
<1>1. Len(Cut(text, m)) = m /\ Continued(text, 0, Cut(text, m), m)
  BY CutContinues
<1>2. Parsed(Cut(text, m))[m].want = "done"
  BY <1>1 DEF Loads
<1>3. \A i \in 0..m : Parsed(text)[i] = Parsed(Cut(text, m))[i]
  BY <1>1, ParseAlike
<1>4. Parsed(text)[m].want = "done"
  BY <1>2, <1>3
<1>5. Parsed(text)[Len(text)].want = "bad"
  BY <1>4, NeverTwice
<1> QED
  BY <1>5 DEF Loads

(* Texts that begin alike are scanned alike as far as that. *)
LEMMA ScanAlike ==
    ASSUME NEW rule, NEW text, NEW other, NEW k, Continued(text, 0, other, k)
    PROVE  \A i \in 0..k : Scan(rule, text)[i] = Scan(rule, other)[i]
<1>1. Len(text) \in Nat /\ k \in Nat
  BY DEF Continued
<1>2. Scan(rule, text)[0] = Unscanned
  BY <1>1, ScanUnfolds
<1>3. \A i \in 0..k : Scan(rule, text)[0 + i] = Scan(rule, other)[i]
  BY <1>2, ScanGoesOn
<1>4. \A i \in 0..k : 0 + i = i
  BY <1>1
<1> QED
  BY <1>3, <1>4

\* Nothing is open when the value is complete, and something before.
LEMMA AgreeDepth ==
    ASSUME NEW p, NEW s, Agree(p, s)
    PROVE  s.depth = 0 <=> p.want = "done"
<1>1. CASE p = Parser(<<>>, "done") /\ s.mode = "out" /\ s.depth = 0
  BY <1>1 DEF Parser
<1>2. ASSUME NEW open, NEW want, p = Parser(open, want), InObject(open), want \in Wants,
             s.depth = Braces(open)
      PROVE  s.depth = 0 <=> p.want = "done"
  <2>1. p.want = want /\ want # "done"
    BY <1>2 DEF Parser, Wants
  <2>2. open \in Seq(Openers) /\ open # <<>> /\ open[1] = LBrace
    BY <1>2 DEF InObject
  <2>3. Braces(open) \in Nat /\ Braces(open) >= 1
    BY <2>2, BracesTypes
  <2> QED
    BY <1>2, <2>1, <2>3
<1> QED
  BY <1>1, <1>2, Zenon DEF Agree

LEMMA AgreeFirst ==
    Agree(Parse(Opens, LBrace), Scanned(Trusting, Unscanned, LBrace))
<1> DEFINE q == Parse(Opens, LBrace)
           n == Scanned(Trusting, Unscanned, LBrace)
           one == <<LBrace>>
<1>1. Unscanned.mode = "out" /\ Unscanned.depth = 0
  BY DEF Unscanned
<1>2. n.mode = "out"
  <2>1. n.mode = After("out", LBrace)
    BY <1>1, ScannedCases
  <2>2. LBrace # "q"
    BY Tokens
  <2> HIDE DEF n
  <2> QED
    BY <2>1, <2>2, AfterCases
<1>3. n.depth = 1
  <2> DEFINE d == Unscanned.depth
  <2>1. n.depth = d + 1
    BY <1>1, ScannedCases
  <2>2. d = 0
    BY <1>1
  <2> HIDE DEF n, d
  <2> QED
    BY <2>1, <2>2
<1>4. q = Parser(one, "first")
  <2>1. Opens.open = <<>> /\ Opens.want = "value"
    BY DEF Opens, Parser
  <2>2. LBrace # "q" /\ LBrace \in {LBrace, LBracket}
    BY Tokens
  <2>3. one = Append(<<>>, LBrace)
    OBVIOUS
  <2>4. "value" \notin {"escaped", "string", "first", "item", "after"}
    OBVIOUS
  <2> HIDE DEF one
  <2> QED
    BY <2>1, <2>2, <2>3, <2>4, Zenon DEF Parse
<1>5. InObject(one)
  <2>1. one \in Seq(Openers) /\ one # <<>> /\ one[1] = LBrace
    BY DEF Openers
  <2> QED
    BY <2>1 DEF InObject
<1>6. Braces(one) = 1
  <2>1. LBrace \in Openers /\ <<>> \in Seq(Openers) /\ one = Append(<<>>, LBrace)
    BY DEF Openers
  <2>2. Braces(Append(<<>>, LBrace)) = Braces(<<>>) + (IF LBrace = LBrace THEN 1 ELSE 0)
    BY <2>1, BracesAppend
  <2> QED
    BY <2>1, <2>2, BracesNone
<1>7. "first" \in Within
  BY DEF Within
<1> HIDE DEF q, n, one
<1>8. Agree(Parser(one, "first"), n)
  BY <1>2, <1>3, <1>5, <1>6, <1>7, ModesOf, StillAgree, Zenon
<1> QED
  BY <1>4, <1>8, Zenon DEF q, n

\* An object begins with its brace, which is closed at its end and not before.
PairsUp(o) == \A n \in 1..Len(o) : Scan(Trusting, o)[n].depth = 0 <=> n = Len(o)

(* What loads and begins with a brace is one object: the scan that trusts  *)
(* quotes closes that brace at its end and nowhere before.                 *)
LEMMA LoadsPairsUp ==
    ASSUME NEW S, NEW o \in Seq(S), Loads(o), o[1] = LBrace
    PROVE  PairsUp(o)
<1> DEFINE N == Len(o)
           a == Parsed(o)
           c == Scan(Trusting, o)
           bad == {n \in 1..N : ~Agree(a[n], c[n])}
<1>1. N \in Nat /\ Len(o) \in Nat
  OBVIOUS
<1>2. a[0] = Opens /\ \A n \in 1..N : a[n] = Parse(a[n - 1], o[n])
  BY <1>1, ParseUnfolds
<1>3. c[0] = Unscanned /\ \A n \in 1..N : c[n] = Scanned(Trusting, c[n - 1], o[n])
  BY <1>1, ScanUnfolds
<1>4. a[N].want = "done"
  BY DEF Loads
<1>5. ASSUME NEW n \in 0..N - 1 PROVE a[n].want \notin {"done", "bad"}
  <2> SUFFICES ASSUME a[n].want \in {"done", "bad"} PROVE FALSE
    OBVIOUS
  <2>1. a[N].want = "bad"
    BY <1>1, NeverTwice
  <2> HIDE DEF a
  <2> QED
    BY <1>4, <2>1
<1>6. o[1] = LBrace
  OBVIOUS
<1> HIDE DEF N, a, c
<1>7. ASSUME NEW n \in 1..N PROVE a[n] # Bad
  <2>1. Bad.want = "bad"
    BY DEF Bad, Parser
  <2>2. n = N \/ n \in 0..N - 1
    BY <1>1
  <2> QED
    BY <1>4, <1>5, <2>1, <2>2
<1>8. bad = {}
  <2> SUFFICES ASSUME bad # {} PROVE FALSE
    OBVIOUS
  <2> DEFINE m == Min(bad)
  <2>1. m \in bad /\ \A i \in bad : m <= i
    <3>1. bad \in SUBSET Nat
      BY <1>1
    <3> HIDE DEF bad
    <3> QED
      BY <3>1, LeastOf
  <2> HIDE DEF m
  <2>2. m \in 1..N /\ ~Agree(a[m], c[m])
    BY <2>1
  <2>3. a[m] = Parse(a[m - 1], o[m]) /\ c[m] = Scanned(Trusting, c[m - 1], o[m])
    BY <1>2, <1>3, <2>2
  <2>4. CASE m = 1
    <3>1. m - 1 = 0
      BY <2>4
    <3>2. a[m] = Parse(Opens, LBrace) /\ c[m] = Scanned(Trusting, Unscanned, LBrace)
      BY <1>2, <1>3, <1>6, <2>3, <2>4, <3>1
    <3> QED
      BY <2>2, <3>2, AgreeFirst
  <2>5. CASE m # 1
    <3> DEFINE p == a[m - 1]
               s == c[m - 1]
    <3>1. m - 1 \in 1..N /\ m - 1 \notin bad
      BY <1>1, <2>1, <2>2, <2>5
    <3>2. Agree(p, s)
      BY <3>1
    <3>3. Parse(p, o[m]) # Bad
      BY <1>7, <2>2, <2>3
    <3>4. a[m] = Parse(p, o[m]) /\ c[m] = Scanned(Trusting, s, o[m])
      BY <2>3
    <3> HIDE DEF p, s
    <3>5. Agree(Parse(p, o[m]), Scanned(Trusting, s, o[m]))
      BY <3>2, <3>3, AgreeNext
    <3> QED
      BY <2>2, <3>4, <3>5
  <2> QED
    BY <2>4, <2>5
<1>9. ASSUME NEW n \in 1..N PROVE c[n].depth = 0 <=> n = N
  <2>1. Agree(a[n], c[n])
    BY <1>8
  <2>2. c[n].depth = 0 <=> a[n].want = "done"
    BY <2>1, AgreeDepth
  <2>3. n # N => n \in 0..N - 1
    BY <1>1
  <2> QED
    BY <1>4, <1>5, <2>2, <2>3
<1> QED
  BY <1>9, Zenon DEF PairsUp, N, c

LEMMA SameSlice ==
    ASSUME NEW S, NEW u \in Seq(S), NEW b \in Seq(S),
           NEW n \in Nat, NEW m \in Nat, 1 <= n, n <= m, m <= Len(u), m <= Len(b),
           \A i \in 1..m : u[i] = b[i]
    PROVE  SubSeq(u, n, m) = SubSeq(b, n, m)
<1> DEFINE x == SubSeq(u, n, m)
           y == SubSeq(b, n, m)
           k == m - n + 1
<1>1. x \in Seq(S) /\ Len(x) = k /\ \A i \in 1..k : x[i] = u[n + i - 1]
  OBVIOUS
<1>2. y \in Seq(S) /\ Len(y) = k /\ \A i \in 1..k : y[i] = b[n + i - 1]
  OBVIOUS
<1>3. \A i \in 1..k : u[n + i - 1] = b[n + i - 1]
  <2>1. \A i \in 1..k : n + i - 1 \in 1..m
    OBVIOUS
  <2> QED
    BY <2>1
<1> HIDE DEF x, y, k
<1>4. \A i \in 1..k : x[i] = y[i]
  BY <1>1, <1>2, <1>3
<1>5. x = y
  BY <1>1, <1>2, <1>4
<1> QED
  BY <1>5 DEF x, y

\* Where the brackets are closed that are open at token n.
Ends(at, n, last) == {e \in n..last : at[e].depth = 0}

LEMMA JsonAtEnds ==
    ASSUME NEW text, NEW at, NEW n
    PROVE  JsonAt(text, at, n) = JsonOf(text, n, Ends(at, n, Len(text)))
BY Zenon DEF JsonAt, Ends

(* What is held before a place where the scan is back at the start is *)
(* held whatever follows.                                             *)
LEMMA HeldBefore ==
    ASSUME NEW S, NEW u \in Seq(S), NEW b \in Seq(S), Continued(u, 0, b, Len(b)),
           NEW rule, Scan(rule, b)[Len(b)] = Unscanned,
           NEW n \in Holding(u, Scan(rule, u)), n <= Len(b)
    PROVE  n \in Holding(b, Scan(rule, b))
<1> DEFINE a == Scan(rule, u)
           c == Scan(rule, b)
           p == Len(b)
           q == Len(u)
           E == Ends(a, n, q)
           F == Ends(c, n, p)
<1>1. p \in Nat /\ q \in Nat /\ p <= q /\ \A i \in 1..p : u[i] = b[i]
  <2>1. \A i \in 1..Len(b) : u[0 + i] = b[i]
    BY DEF Continued
  <2>2. \A i \in 1..Len(b) : 0 + i = i
    OBVIOUS
  <2> QED
    BY <2>1, <2>2 DEF Continued
<1>2. \A i \in 0..p : a[i] = c[i]
  BY ScanAlike
<1>3. n \in 1..p /\ a[n].depth = 1 /\ a[n - 1].depth = 0
      /\ JsonAt(u, a, n) \notin {<<>>, <<LBrace, RBrace>>}
  BY <1>1 DEF Holding, Starts
<1>4. c[p].depth = 0
  BY DEF Unscanned
<1> HIDE DEF a, c
<1>5. c[n].depth = 1 /\ c[n - 1].depth = 0
  <2>1. n \in 0..p /\ n - 1 \in 0..p
    BY <1>1, <1>3
  <2> QED
    BY <1>2, <1>3, <2>1
<1>6. Min(E) = Min(F) /\ Min(F) \in n..p /\ E # {} /\ F # {}
  <2>1. p \in F /\ F \subseteq E /\ E \in SUBSET Nat /\ F \in SUBSET Nat
    BY <1>1, <1>2, <1>3, <1>4 DEF Ends
  <2>2. \A e \in E : e <= p => e \in F
    BY <1>1, <1>2, <1>3, <1>4 DEF Ends
  <2>3. \A e \in F : e \in n..p
    BY DEF Ends
  <2> HIDE DEF E, F
  <2> DEFINE x == Min(E)
             y == Min(F)
  <2>4. x \in E /\ \A e \in E : x <= e
    BY <2>1, LeastOf
  <2>5. y \in F /\ \A e \in F : y <= e
    BY <2>1, LeastOf
  <2> HIDE DEF x, y
  <2>6. x <= y /\ y <= p /\ x \in Nat /\ y \in Nat /\ p \in Nat
    BY <1>1, <2>1, <2>3, <2>4, <2>5
  <2>7. y <= x
    BY <2>2, <2>4, <2>5, <2>6
  <2>8. x = y
    BY <2>6, <2>7
  <2> QED
    BY <2>1, <2>3, <2>5, <2>8 DEF x, y
<1>7. JsonOf(u, n, E) = JsonOf(b, n, F)
  <2> DEFINE m == Min(F)
  <2> HIDE DEF E, F
  <2>1. m \in n..p
    BY <1>6
  <2> HIDE DEF m
  <2>2. SubSeq(u, n, m) = SubSeq(b, n, m)
    <3>1. n \in Nat /\ m \in Nat /\ 1 <= n /\ n <= m /\ m <= Len(u) /\ m <= Len(b)
          /\ \A i \in 1..m : u[i] = b[i]
      BY <1>1, <1>3, <2>1
    <3> HIDE DEF p, q
    <3> QED
      BY <3>1, SameSlice
  <2>3. JsonOf(u, n, E) = IfLoads(SubSeq(u, n, m)) /\ JsonOf(b, n, F) = IfLoads(SubSeq(b, n, m))
    BY <1>6, Zenon DEF JsonOf, m
  <2> QED
    BY <2>2, <2>3
<1>8. JsonAt(u, a, n) = JsonAt(b, c, n)
  <2> HIDE DEF E, F
  <2>1. JsonAt(u, a, n) = JsonOf(u, n, E) /\ JsonAt(b, c, n) = JsonOf(b, n, F)
    BY JsonAtEnds, Zenon DEF E, F, p, q
  <2> QED
    BY <1>7, <2>1
<1>9. n \in Holding(b, c)
  BY <1>3, <1>5, <1>8 DEF Holding, Starts
<1> QED
  BY <1>9 DEF c

LEMMA SliceIs ==
    ASSUME NEW S, NEW u \in Seq(S), NEW o \in Seq(S), NEW p, NEW m, Continued(u, p, o, m)
    PROVE  SubSeq(u, p + 1, p + m) = Cut(o, m)
<1>0. /\ p \in Nat /\ m \in 0..Len(o) /\ p + m <= Len(u)
      /\ \A i \in 1..m : u[p + i] = o[i]
  BY DEF Continued
<1> DEFINE x == SubSeq(u, p + 1, p + m)
           y == SubSeq(o, 1, m)
<1>1. x \in Seq(S) /\ y \in Seq(S) /\ Len(x) = m /\ Len(y) = m
  BY <1>0
<1>2. \A i \in 1..m : x[i] = u[p + i] /\ y[i] = o[i]
  BY <1>0
<1>3. \A i \in 1..m : x[i] = y[i]
  BY <1>0, <1>2
<1> HIDE DEF x, y
<1>4. x = y
  BY <1>1, <1>3
<1> QED
  BY <1>4 DEF x, y, Cut

LEMMA ContinuedLess ==
    ASSUME NEW u, NEW p, NEW o, NEW m, NEW k, Continued(u, p, o, m), k \in 0..m
    PROVE  Continued(u, p, o, k)
<1>1. m \in Nat /\ \A i \in 1..m : u[p + i] = o[i]
  BY DEF Continued
<1>2. ASSUME NEW i \in 1..k PROVE u[p + i] = o[i]
  <2>1. i \in 1..m
    BY <1>1
  <2> QED
    BY <1>1, <2>1, Zenon
<1>3. /\ Len(u) \in Nat /\ Len(o) \in Nat /\ p \in Nat /\ k \in Nat
      /\ p + k <= Len(u) /\ k <= Len(o)
  BY DEF Continued
<1> QED
  BY <1>2, <1>3, Zenon DEF Continued

LEMMA CutWhole ==
    ASSUME NEW S, NEW o \in Seq(S)
    PROVE  Cut(o, Len(o)) = o
BY DEF Cut

(* The tokens of an object that is read are those of the text from its *)
(* start on, and perhaps a brace to close it.                          *)
LEMMA KeptTokens ==
    ASSUME NEW R, NEW chunk \in Seq(R), NEW ends \in SUBSET (1..Len(chunk))
    PROVE  KeptUpTo(chunk, ends) \in Seq(R \cup {RBrace})
<1>1. CASE ends = {}
  <2>1. <<>> \in Seq(R \cup {RBrace})
    OBVIOUS
  <2> QED
    BY <1>1, <2>1 DEF KeptUpTo
<1>2. CASE ends # {}
  <2> DEFINE m == Max(ends)
  <2>1. m \in 1..Len(chunk)
    <3>1. ends \in SUBSET Nat /\ Len(chunk) \in Nat /\ \A x \in ends : x <= Len(chunk)
      OBVIOUS
    <3>2. Max(ends) \in ends
      BY <1>2, <3>1, GreatestOf
    <3> QED
      BY <3>2
  <2> HIDE DEF m
  <2>2. SubSeq(chunk, 1, m) \in Seq(R)
    BY <2>1
  <2>3. SubSeq(chunk, 1, m) \o <<RBrace>> \in Seq(R \cup {RBrace})
    <3> DEFINE x == SubSeq(chunk, 1, m)
    <3>1. x \in Seq(R)
      BY <2>2
    <3> HIDE DEF x
    <3>2. x \o <<RBrace>> \in Seq(R \cup {RBrace})
      BY <3>1
    <3> QED
      BY <3>2 DEF x
  <2>4. KeptUpTo(chunk, ends) = SubSeq(chunk, 1, m) \o <<RBrace>>
    BY <1>2, Zenon DEF KeptUpTo, m
  <2> QED
    BY <2>3, <2>4
<1> QED
  BY <1>1, <1>2

LEMMA JsonTokens ==
    ASSUME NEW S, NEW u \in Seq(S), NEW at, NEW n \in 1..Len(u), NEW R,
           \A j \in n..Len(u) : u[j] \in R
    PROVE  JsonAt(u, at, n) \in Seq(R \cup {RBrace})
<1> DEFINE E == Ends(at, n, Len(u))
           rest == SubSeq(u, n, Len(u))
           Q == R \cup {RBrace}
<1>1. <<>> \in Seq(Q) /\ Seq(R) \subseteq Seq(Q)
  OBVIOUS
<1>2. \A x \in Seq(Q) : IfLoads(x) \in Seq(Q)
  BY <1>1 DEF IfLoads
<1>3. \A m \in n..Len(u) : SubSeq(u, n, m) \in Seq(R)
  OBVIOUS
<1>4. CASE E # {}
  <2> DEFINE m == Min(E)
  <2>1. E \in SUBSET Nat /\ \A e \in E : e \in n..Len(u)
    BY DEF Ends
  <2>2. m \in n..Len(u)
    <3> HIDE DEF E
    <3> QED
      BY <1>4, <2>1, LeastOf
  <2> HIDE DEF m
  <2>3. JsonOf(u, n, E) = IfLoads(SubSeq(u, n, m))
    <3> HIDE DEF E
    <3> QED
      BY <1>4, Zenon DEF JsonOf, m
  <2> HIDE DEF E, Q
  <2>4. SubSeq(u, n, m) \in Seq(Q)
    BY <1>1, <1>3, <2>2
  <2>5. IfLoads(SubSeq(u, n, m)) \in Seq(Q)
    BY <1>2, <2>4
  <2> QED
    BY <2>3, <2>5, JsonAtEnds DEF E, Q
<1>5. CASE E = {}
  <2>1. rest \in Seq(R) /\ rest \in Seq(Q)
    <3>1. Len(u) \in n..Len(u)
      OBVIOUS
    <3> HIDE DEF Q
    <3> QED
      BY <1>1, <1>3, <3>1
  <2>2. Repaired(rest) \in Seq(Q)
    <3> DEFINE z == Scan(Repairing, rest)
               closes == {k \in DOMAIN rest : z[k].depth = 1 /\ z[k - 1].depth = 2}
    <3>1. closes \subseteq 1..Len(rest)
      BY <2>1
    <3>2. Repaired(rest) = KeptUpTo(rest, closes)
      BY Zenon DEF Repaired
    <3> HIDE DEF closes, rest
    <3>3. KeptUpTo(rest, closes) \in Seq(Q)
      BY <2>1, <3>1, KeptTokens
    <3> QED
      BY <3>2, <3>3
  <2>3. JsonOf(u, n, {}) = IF Loads(rest) THEN rest ELSE IfLoads(Repaired(rest))
    BY Zenon DEF JsonOf
  <2> HIDE DEF E, Q, rest
  <2>4. IfLoads(Repaired(rest)) \in Seq(Q)
    BY <1>2, <2>2
  <2>5. JsonOf(u, n, E) \in Seq(Q)
    BY <1>5, <2>1, <2>3, <2>4
  <2> QED
    BY <2>5, JsonAtEnds DEF E, Q
<1> QED
  BY <1>4, <1>5

\* An object that holds something.
IsObject(o) == Loads(o) /\ o[1] = LBrace /\ o # <<LBrace, RBrace>>

\* A text that goes on, after prose b in which nothing is found, with the first
\* m tokens of o.
Behind(u, b, o, m, rule) ==
    /\ Continued(u, 0, b, Len(b)) /\ Continued(u, Len(b), o, m)
    /\ Scan(rule, b)[Len(b)] = Unscanned /\ Holding(b, Scan(rule, b)) = {}

LEMMA ObjectShape ==
    ASSUME NEW S, NEW o \in Seq(S), IsObject(o)
    PROVE  /\ Len(o) \in Nat /\ Len(o) >= 2
           /\ \A rule \in {Trusting, Ignoring} :
                 Scan(rule, o)[0] = Unscanned /\ Scan(rule, o)[1].depth = 1
<1> DEFINE q == Len(o)
<1>1. q \in Nat
  OBVIOUS
<1>2. q # 0
  <2> SUFFICES ASSUME q = 0 PROVE FALSE
    OBVIOUS
  <2>1. Parsed(o)[0] = Opens
    BY <1>1, ParseUnfolds
  <2>2. Parsed(o)[0].want = "done"
    BY DEF IsObject, Loads
  <2>3. Opens.want = "value"
    BY DEF Opens, Parser
  <2> QED
    BY <2>1, <2>2, <2>3
<1>3. ASSUME NEW rule \in {Trusting, Ignoring}
      PROVE  Scan(rule, o)[0] = Unscanned /\ Scan(rule, o)[1].depth = 1
  <2> DEFINE a == Scan(rule, o)
  <2>1. a[0] = Unscanned /\ \A n \in 1..q : a[n] = Scanned(rule, a[n - 1], o[n])
    BY <1>1, ScanUnfolds
  <2> HIDE DEF a, q
  <2>2. a[1] = Scanned(rule, a[0], o[1])
    <3>1. 1 \in 1..q /\ 1 - 1 = 0
      BY <1>1, <1>2
    <3> QED
      BY <2>1, <3>1
  <2>3. o[1] = LBrace
    BY DEF IsObject
  <2>4. LBrace \in rule.opens
    BY DEF Spanning, Trusting, Ignoring
  <2>5. LBrace \notin rule.closes
    <3>1. rule.closes = {RBrace}
      BY DEF Spanning, Trusting, Ignoring
    <3> QED
      BY <3>1, Tokens
  <2>6. Unscanned.mode = "out" /\ Unscanned.depth = 0
    BY DEF Unscanned
  <2>7. Scanned(rule, Unscanned, LBrace).depth
        = CASE LBrace \in rule.opens -> 0 + 1
            [] LBrace \in rule.closes /\ (rule.floored => 0 # 0) -> 0 - 1
            [] OTHER -> 0
    BY <2>6, Zenon DEF Scanned
  <2>8. Scanned(rule, Unscanned, LBrace).depth = 0 + 1
    BY <2>4, <2>5, <2>7, Zenon
  <2> QED
    BY <2>1, <2>2, <2>3, <2>8 DEF a
<1>4. q # 1
  <2> SUFFICES ASSUME q = 1 PROVE FALSE
    OBVIOUS
  <2> DEFINE depth == Scan(Trusting, o)[1].depth
  <2>1. depth = 1
    BY <1>3
  <2>2. depth = 0
    <3>1. PairsUp(o)
      BY LoadsPairsUp DEF IsObject
    <3> QED
      BY <3>1 DEF PairsUp
  <2> HIDE DEF depth
  <2> QED
    BY <2>1, <2>2
<1>5. q >= 2
  <2> HIDE DEF q
  <2> QED
    BY <1>1, <1>2, <1>4
<1> QED
  BY <1>1, <1>3, <1>5, Zenon DEF q

LEMMA ScannedBehind ==
    ASSUME NEW u, NEW b, NEW o, NEW m, NEW rule, Behind(u, b, o, m, rule)
    PROVE  /\ Scan(rule, u)[Len(b)] = Unscanned
           /\ \A i \in 0..m : Scan(rule, u)[Len(b) + i] = Scan(rule, o)[i]
<1>1. Len(b) \in Nat /\ Continued(u, 0, b, Len(b)) /\ Continued(u, Len(b), o, m)
  BY DEF Behind, Continued
<1>2. \A i \in 0..Len(b) : Scan(rule, u)[i] = Scan(rule, b)[i]
  BY <1>1, ScanAlike
<1>3. Scan(rule, u)[Len(b)] = Unscanned
  BY <1>1, <1>2 DEF Behind
<1> QED
  BY <1>1, <1>3, ScanGoesOn

LEMMA HeldBehind ==
    ASSUME NEW S, NEW u \in Seq(S), NEW b \in Seq(S), NEW o, NEW m, NEW rule,
           Behind(u, b, o, m, rule)
    PROVE  \A n \in Holding(u, Scan(rule, u)) : n > Len(b) /\ n \in 1..Len(u)
<1> SUFFICES ASSUME NEW n \in Holding(u, Scan(rule, u))
             PROVE  n > Len(b) /\ n \in 1..Len(u)
  OBVIOUS
<1>1. n \in 1..Len(u)
  BY DEF Holding, Starts
<1>2. ASSUME n <= Len(b) PROVE FALSE
  <2>1. Continued(u, 0, b, Len(b)) /\ Scan(rule, b)[Len(b)] = Unscanned
    BY DEF Behind
  <2>2. n \in Holding(b, Scan(rule, b))
    BY <1>2, <2>1, HeldBefore
  <2> QED
    BY <2>2 DEF Behind
<1> QED
  BY <1>1, <1>2

(* A whole object is found, whatever follows it, if it looks like a verdict *)
(* or no signal or decision follows it.                                     *)
LEMMA WholeFound ==
    ASSUME NEW S, NEW u \in Seq(S), NEW b \in Seq(S), NEW o \in Seq(S), IsObject(o),
           Behind(u, b, o, Len(o), Trusting),
           IsVerdictObject(o) \/ \A j \in Len(b) + Len(o) + 1..Len(u) : u[j] \notin {"L", "S", "D"}
    PROVE  FoundIn(u) = o
<1> DEFINE a == Scan(Trusting, u)
           c == Scan(Trusting, o)
           p == Len(b)
           q == Len(o)
           E == Ends(a, p + 1, Len(u))
           held == Holding(u, a)
           verdicts == Verdicts(u, a)
<1>1. /\ p \in Nat /\ q \in Nat /\ q >= 2 /\ Len(u) \in Nat /\ p + q <= Len(u)
      /\ \A i \in 1..q : u[p + i] = o[i]
  BY ObjectShape DEF Behind, Continued
<1>2. a[p].depth = 0 /\ \A i \in 0..q : a[p + i] = c[i]
  BY ScannedBehind DEF Unscanned
<1>3. c[1].depth = 1 /\ \A i \in 1..q : c[i].depth = 0 <=> i = q
  <2>1. c[1].depth = 1
    BY ObjectShape
  <2>2. \A i \in 1..q : c[i].depth = 0 <=> i = q
    BY LoadsPairsUp DEF IsObject, PairsUp
  <2> QED
    BY <2>1, <2>2
<1>4. \A n \in held : n > p /\ n \in 1..Len(u)
  BY HeldBehind
<1>5. SubSeq(u, p + 1, p + q) = o
  <2>1. Continued(u, p, o, q)
    BY DEF Behind
  <2> HIDE DEF p, q
  <2>2. SubSeq(u, p + 1, p + q) = Cut(o, q)
    BY <2>1, SliceIs
  <2> QED
    BY <2>2, CutWhole DEF q
<1>6. held \subseteq DOMAIN u /\ \A n \in held : a[n].depth = 1 /\ a[n - 1].depth = 0
  BY DEF Holding, Starts
<1>7. \A n : n \in held <=> /\ n \in 1..Len(u) /\ a[n].depth = 1 /\ a[n - 1].depth = 0
                             /\ JsonAt(u, a, n) \notin {<<>>, <<LBrace, RBrace>>}
  BY DEF Holding, Starts
<1>8. \A n : n \in verdicts <=> n \in held /\ IsVerdictObject(JsonAt(u, a, n))
  BY DEF Verdicts
<1>9. Loads(o) /\ o # <<LBrace, RBrace>> /\ o # <<>>
  BY <1>1 DEF IsObject
<1>10. E # {} /\ Min(E) = p + q
  <2> HIDE DEF a, c, p, q
  <2>1. \A i \in 1..q : a[p + i].depth = 0 <=> i = q
    <3> SUFFICES ASSUME NEW i \in 1..q PROVE a[p + i].depth = 0 <=> i = q
      OBVIOUS
    <3>1. i \in 0..q
      BY <1>1
    <3>2. a[p + i] = c[i]
      BY <1>2, <3>1
    <3>3. c[i].depth = 0 <=> i = q
      BY <1>3
    <3> QED
      BY <3>2, <3>3
  <2>2. p + q \in E /\ E \in SUBSET Nat
    BY <1>1, <2>1 DEF Ends
  <2>3. \A e \in E : e >= p + q
    <3> SUFFICES ASSUME NEW e \in E, e < p + q PROVE FALSE
      BY <1>1 DEF Ends
    <3>1. e \in p + 1..Len(u) /\ a[e].depth = 0
      BY DEF Ends
    <3>2. e - p \in 1..q /\ p + (e - p) = e /\ e - p # q
      BY <1>1, <3>1
    <3> QED
      BY <2>1, <3>1, <3>2
  <2> DEFINE x == Min(E)
  <2> HIDE DEF E
  <2>4. x \in E /\ \A e \in E : x <= e
    BY <2>2, LeastOf
  <2> HIDE DEF x
  <2>5. x = p + q
    <3>1. x \in Nat /\ x >= p + q /\ x <= p + q /\ p + q \in Nat
      BY <1>1, <2>2, <2>3, <2>4
    <3> QED
      BY <3>1
  <2> QED
    BY <2>2, <2>5 DEF x
<1>11. JsonAt(u, a, p + 1) = o
  <2> DEFINE x == Min(E)
  <2> HIDE DEF E, a
  <2>1. JsonOf(u, p + 1, E) = IfLoads(SubSeq(u, p + 1, x))
    BY <1>10, Zenon DEF JsonOf
  <2>2. IfLoads(SubSeq(u, p + 1, x)) = IfLoads(o)
    BY <1>5, <1>10
  <2>3. IfLoads(o) = o
    BY <1>9 DEF IfLoads
  <2>4. JsonAt(u, a, p + 1) = JsonOf(u, p + 1, E)
    BY JsonAtEnds, Zenon DEF E
  <2> QED
    BY <2>1, <2>2, <2>3, <2>4
<1> HIDE DEF a, c, E, p, q, held, verdicts
<1>12. p + 1 \in held
  <2>1. p + 1 \in 1..Len(u) /\ (p + 1) - 1 = p /\ 1 \in 0..q
    BY <1>1
  <2>2. a[p + 1].depth = 1 /\ a[(p + 1) - 1].depth = 0
    BY <1>2, <1>3, <2>1
  <2> QED
    BY <1>7, <1>9, <1>11, <2>1, <2>2
<1>13. ASSUME NEW T, T \subseteq held, p + 1 \in T PROVE Min(T) = p + 1
  <2> DEFINE x == Min(T)
  <2>1. T \in SUBSET Nat /\ T # {}
    BY <1>4, <1>13
  <2>2. x \in T /\ \A e \in T : x <= e
    BY <2>1, LeastOf
  <2> HIDE DEF x
  <2>3. x \in Nat /\ x > p /\ x <= p + 1
    BY <1>4, <1>13, <2>1, <2>2
  <2>4. x = p + 1
    BY <1>1, <2>3
  <2> QED
    BY <2>4 DEF x
<1>14. CASE IsVerdictObject(o)
  <2>1. p + 1 \in verdicts /\ verdicts \subseteq held
    BY <1>8, <1>11, <1>12, <1>14
  <2>2. Min(verdicts) = p + 1
    BY <1>13, <2>1
  <2>3. Found(u, a) = JsonAt(u, a, Min(verdicts))
    BY <2>1, Zenon DEF Found, verdicts
  <2>4. FoundIn(u) = Found(u, a)
    BY <1>12, Zenon DEF FoundIn, held, a
  <2> QED
    BY <1>11, <2>2, <2>3, <2>4
<1>15. CASE ~IsVerdictObject(o)
  <2>1. verdicts = {}
    <3> SUFFICES ASSUME NEW n \in verdicts PROVE FALSE
      OBVIOUS
    <3>1. n \in held /\ IsVerdictObject(JsonAt(u, a, n))
      BY <1>8
    <3>2. n # p + 1
      BY <1>11, <1>15, <3>1
    <3>3. n \in 1..Len(u) /\ n > p + 1 /\ a[n - 1].depth = 0
      BY <1>1, <1>4, <1>7, <3>1, <3>2
    <3>4. n > p + q
      <4> SUFFICES ASSUME n <= p + q PROVE FALSE
        BY <1>1, <3>3
      <4> DEFINE i == (n - 1) - p
      <4>1. i \in 1..q /\ i # q /\ p + i = n - 1 /\ i \in 0..q
        BY <1>1, <3>3
      <4> HIDE DEF i
      <4> QED
        BY <1>2, <1>3, <3>3, <4>1
    <3> DEFINE R == {u[j] : j \in n..Len(u)}
               x == JsonAt(u, a, n)
    <3>5. \A r \in R : r \notin {"L", "S", "D"}
      <4>1. \A j \in n..Len(u) : j \in p + q + 1..Len(u)
        BY <1>1, <3>3, <3>4
      <4>2. \A j \in p + q + 1..Len(u) : u[j] \notin {"L", "S", "D"}
        BY <1>15 DEF p, q
      <4> QED
        BY <4>1, <4>2
    <3>6. x \in Seq(R \cup {RBrace})
      <4>1. \A j \in n..Len(u) : u[j] \in R
        OBVIOUS
      <4> HIDE DEF R
      <4> QED
        BY <3>3, <4>1, JsonTokens
    <3>7. RBrace \notin {"L", "S", "D"}
      BY Zenon DEF RBrace
    <3> HIDE DEF R
    <3>8. \A k \in DOMAIN x : x[k] \in R \cup {RBrace}
      <4> HIDE DEF x
      <4> QED
        BY <3>6
    <3> HIDE DEF x
    <3>9. \A y \in TopMembers(x) : \E k \in DOMAIN x : y = x[k]
      BY DEF TopMembers, TopLevel
    <3>10. TopMembers(x) \cap {"L", "S", "D"} = {}
      BY <3>5, <3>7, <3>8, <3>9
    <3> QED
      BY <3>1, <3>10 DEF x, IsVerdictObject
  <2>2. Min(held) = p + 1
    BY <1>12, <1>13
  <2>3. Found(u, a) = JsonAt(u, a, Min(held))
    BY <1>12, <2>1, Zenon DEF Found, verdicts, held
  <2>4. FoundIn(u) = Found(u, a)
    BY <1>12, Zenon DEF FoundIn, held, a
  <2> QED
    BY <1>11, <2>2, <2>3, <2>4
<1> QED
  BY <1>14, <1>15

(* The scan that trusts quotes begins only one object in an object. *)
LEMMA OneStart ==
    ASSUME NEW S, NEW o \in Seq(S), IsObject(o), NEW m \in 0..Len(o)
    PROVE  Starts(o, Scan(Trusting, o)) \cap 2..m = {}
<1> DEFINE c == Scan(Trusting, o)
           q == Len(o)
<1>1. \A i \in 1..q : c[i].depth = 0 <=> i = q
  BY LoadsPairsUp DEF IsObject, PairsUp
<1>2. q \in Nat /\ m \in 0..q
  OBVIOUS
<1> SUFFICES ASSUME NEW n \in Starts(o, c), n \in 2..m PROVE FALSE
  OBVIOUS
<1>3. c[n - 1].depth = 0
  BY DEF Starts
<1> HIDE DEF c, q
<1>4. n - 1 \in 1..q /\ n - 1 # q
  BY <1>2
<1> QED
  BY <1>1, <1>3, <1>4

(* Of an object that is cut nothing is found, or what can be repaired of it. *)
LEMMA CutFound ==
    ASSUME NEW S, NEW u \in Seq(S), NEW b \in Seq(S), NEW o \in Seq(S), IsObject(o),
           NEW m \in 1..Len(o) - 1, Len(u) = Len(b) + m,
           NEW rule \in {Trusting, Ignoring}, Behind(u, b, o, m, rule),
           Starts(o, Scan(rule, o)) \cap 2..m = {}
    PROVE  Found(u, Scan(rule, u)) \in {<<>>, Repaired(Cut(o, m))}
<1> DEFINE a == Scan(rule, u)
           c == Scan(rule, o)
           p == Len(b)
           q == Len(o)
           E == Ends(a, p + 1, Len(u))
           held == Holding(u, a)
           verdicts == Verdicts(u, a)
<1>1. /\ p \in Nat /\ q \in Nat /\ Len(u) = p + m /\ m \in 1..q - 1
      /\ \A i \in 1..m : u[p + i] = o[i]
  BY DEF Behind, Continued
<1>2. \A i \in 0..m : a[p + i] = c[i]
  BY ScannedBehind
<1>3. \A i \in 2..m : ~(c[i].depth = 1 /\ c[i - 1].depth = 0)
  <2> SUFFICES ASSUME NEW i \in 2..m, c[i].depth = 1, c[i - 1].depth = 0 PROVE FALSE
    OBVIOUS
  <2>1. i \in DOMAIN o
    BY <1>1
  <2>2. i \in Starts(o, c)
    BY <2>1, Zenon DEF Starts
  <2> HIDE DEF c
  <2> QED
    BY <2>2 DEF c
<1>4. \A n \in held : n > p /\ n \in 1..Len(u)
  BY HeldBehind
<1>5. \A n \in held : a[n].depth = 1 /\ a[n - 1].depth = 0
  BY DEF Holding, Starts
<1>6. verdicts \subseteq held
  BY DEF Verdicts
<1>7. ASSUME NEW k \in 1..m
      PROVE  SubSeq(u, p + 1, p + k) = Cut(o, k) /\ ~Loads(Cut(o, k))
  <2>1. k \in 0..Len(o) /\ k \in 0..Len(o) - 1 /\ p + k <= Len(u)
    BY <1>1
  <2>2. SubSeq(u, p + 1, p + k) = Cut(o, k)
    <3>1. Continued(u, p, o, m) /\ k \in 0..m
      BY <1>1 DEF Behind
    <3> HIDE DEF p
    <3>2. Continued(u, p, o, k)
      BY <3>1, ContinuedLess
    <3> QED
      BY <3>2, SliceIs
  <2>3. Loads(o)
    BY DEF IsObject
  <2>4. ~Loads(Cut(o, k))
    BY <2>1, <2>3, NotBeforeItsEnd
  <2> QED
    BY <2>2, <2>4
<1> HIDE DEF a, c, E, p, q, held, verdicts
<1>8. \A n \in held : n = p + 1
  <2> SUFFICES ASSUME NEW n \in held, n # p + 1 PROVE FALSE
    OBVIOUS
  <2>1. n > p /\ n \in 1..p + m
    BY <1>1, <1>4
  <2> DEFINE i == n - p
  <2>2. i \in 2..m /\ i \in 0..m /\ i - 1 \in 0..m /\ p + i = n /\ p + (i - 1) = n - 1
    BY <1>1, <2>1
  <2> HIDE DEF i
  <2>3. a[n] = c[i] /\ a[n - 1] = c[i - 1]
    BY <1>2, <2>2
  <2> QED
    BY <1>3, <1>5, <2>2, <2>3
<1>9. JsonAt(u, a, p + 1) \in {<<>>, Repaired(Cut(o, m))}
  <2>1. JsonAt(u, a, p + 1) = JsonOf(u, p + 1, E)
    BY JsonAtEnds, Zenon DEF E
  <2>2. CASE E = {}
    <3>1. JsonOf(u, p + 1, {}) = LET rest == SubSeq(u, p + 1, Len(u))
                                 IN IF Loads(rest) THEN rest ELSE IfLoads(Repaired(rest))
      BY Zenon DEF JsonOf
    <3>2. SubSeq(u, p + 1, Len(u)) = Cut(o, m) /\ ~Loads(Cut(o, m))
      BY <1>1, <1>7
    <3>3. JsonOf(u, p + 1, {}) = IfLoads(Repaired(Cut(o, m)))
      BY <3>1, <3>2, Zenon
    <3>4. IfLoads(Repaired(Cut(o, m))) \in {<<>>, Repaired(Cut(o, m))}
      BY Zenon DEF IfLoads
    <3> QED
      BY <2>1, <2>2, <3>3, <3>4
  <2>3. CASE E # {}
    <3> DEFINE e == Min(E)
    <3>1. e \in p + 1..p + m
      <4>1. E \in SUBSET Nat /\ E \subseteq p + 1..p + m
        BY <1>1 DEF E, Ends
      <4> QED
        BY <2>3, <4>1, LeastOf
    <3> HIDE DEF e
    <3> DEFINE k == e - p
    <3>2. k \in 1..m /\ p + k = e
      BY <1>1, <3>1
    <3> HIDE DEF k
    <3>3. SubSeq(u, p + 1, e) = Cut(o, k) /\ ~Loads(Cut(o, k))
      BY <1>7, <3>2
    <3>4. JsonOf(u, p + 1, E) = IfLoads(SubSeq(u, p + 1, e))
      BY <2>3, Zenon DEF JsonOf, e
    <3>5. IfLoads(Cut(o, k)) = <<>>
      BY <3>3, Zenon DEF IfLoads
    <3> QED
      BY <2>1, <3>3, <3>4, <3>5
  <2> QED
    BY <2>2, <2>3
<1>10. ASSUME NEW T, T \subseteq held, T # {} PROVE Min(T) = p + 1
  <2>1. T \in SUBSET Nat
    BY <1>4, <1>10
  <2>2. Min(T) \in T
    BY <1>10, <2>1, LeastOf
  <2> QED
    BY <1>8, <1>10, <2>2
<1>11. Found(u, a) \in {<<>>, JsonAt(u, a, p + 1)}
  <2>1. CASE verdicts # {}
    <3>1. Found(u, a) = JsonAt(u, a, Min(verdicts))
      BY <2>1, Zenon DEF Found, verdicts
    <3>2. Min(verdicts) = p + 1
      BY <1>6, <1>10, <2>1
    <3> QED
      BY <3>1, <3>2
  <2>2. CASE verdicts = {} /\ held # {}
    <3>1. Found(u, a) = JsonAt(u, a, Min(held))
      BY <2>2, Zenon DEF Found, verdicts, held
    <3>2. Min(held) = p + 1
      BY <1>10, <2>2
    <3> QED
      BY <3>1, <3>2
  <2>3. CASE verdicts = {} /\ held = {}
    <3>1. Found(u, a) = <<>>
      BY <2>3, Zenon DEF Found, verdicts, held
    <3> QED
      BY <3>1
  <2> QED
    BY <2>1, <2>2, <2>3
<1>12. Found(u, a) \in {<<>>, Repaired(Cut(o, m))}
  BY <1>9, <1>11
<1> QED
  BY <1>12 DEF a

\* What is left of an object by a repair that keeps k tokens of it.
Mended(o, k) == Cut(o, k) \o <<RBrace>>

Wider(S) == S \cup {RBrace}

IsMended(S, o, k, x) ==
    /\ Len(x) = k + 1 /\ x[k + 1] = RBrace
    /\ x \in Seq(Wider(S)) /\ o \in Seq(Wider(S))
    /\ \A i \in 1..k : x[i] = o[i]
    /\ Continued(x, 0, o, k)

LEMMA MendedShape ==
    ASSUME NEW S, NEW o \in Seq(S), NEW k \in 1..Len(o)
    PROVE  IsMended(S, o, k, Mended(o, k))
<1> DEFINE Q == Wider(S)
           x == Cut(o, k)
<1>1. x \in Seq(S) /\ Len(x) = k /\ \A i \in 1..k : x[i] = o[i]
  <2>1. k \in 0..Len(o)
    OBVIOUS
  <2> QED
    BY <2>1, CutContinues
<1>2. o \in Seq(Q)
  BY DEF Wider
<1> HIDE DEF x
<1>3. x \in Seq(Q) /\ <<RBrace>> \in Seq(Q)
  BY <1>1 DEF Wider
<1> HIDE DEF Q
<1>4. /\ Len(x \o <<RBrace>>) = k + 1 /\ x \o <<RBrace>> \in Seq(Q)
      /\ (x \o <<RBrace>>)[k + 1] = RBrace
      /\ \A i \in 1..k : (x \o <<RBrace>>)[i] = x[i]
  BY <1>1, <1>3
<1>5. /\ Len(Mended(o, k)) = k + 1 /\ Mended(o, k) \in Seq(Q)
      /\ Mended(o, k)[k + 1] = RBrace
      /\ \A i \in 1..k : Mended(o, k)[i] = o[i]
  BY <1>1, <1>4, Zenon DEF Mended, x
<1>6. \A i \in 1..k : 0 + i = i
  OBVIOUS
<1>7. Continued(Mended(o, k), 0, o, k)
  BY <1>5, <1>6 DEF Continued
<1> QED
  BY <1>2, <1>5, <1>7, Zenon DEF Q, IsMended

LEMMA RepairedIs ==
    ASSUME NEW S, NEW o \in Seq(S), NEW m \in 0..Len(o)
    PROVE  \/ Repaired(Cut(o, m)) = <<>>
           \/ \E k \in 1..m : /\ Repaired(Cut(o, m)) = Mended(o, k)
                              /\ Scan(Repairing, o)[k].depth = 1
<1> DEFINE x == Cut(o, m)
           y == Scan(Repairing, x)
           z == Scan(Repairing, o)
           ends == {n \in DOMAIN x : y[n].depth = 1 /\ y[n - 1].depth = 2}
           k == Max(ends)
<1>1. Len(x) = m /\ x \in Seq(S) /\ Continued(x, 0, o, m)
  BY CutContinues
<1>2. \A i \in 0..m : y[i] = z[i]
  BY <1>1, ScanAlike
<1>3. Repaired(x) = KeptUpTo(x, ends)
  BY Zenon DEF Repaired
<1>4. ends \in SUBSET Nat /\ \A n \in ends : n \in 1..m /\ y[n].depth = 1
  BY <1>1
<1> HIDE DEF y, ends, x
<1>5. CASE ends = {}
  <2>1. Repaired(x) = <<>>
    BY <1>3, <1>5 DEF KeptUpTo
  <2> QED
    BY <2>1 DEF x
<1>6. CASE ends # {}
  <2>1. k \in ends
    <3>1. m \in Nat /\ \A n \in ends : n <= m
      BY <1>4
    <3> QED
      BY <1>4, <1>6, <3>1, GreatestOf
  <2>2. Repaired(x) = SubSeq(x, 1, k) \o <<RBrace>>
    BY <1>3, <1>6, Zenon DEF KeptUpTo
  <2> HIDE DEF k
  <2>3. k \in 1..m /\ z[k].depth = 1
    BY <1>2, <1>4, <2>1
  <2>4. SubSeq(x, 1, k) = Cut(o, k)
    <3>1. \A i \in 1..m : x[i] = o[i]
      BY CutContinues DEF x
    <3>2. 1 <= k /\ k <= Len(x) /\ k <= Len(o) /\ k \in Nat /\ \A i \in 1..k : x[i] = o[i]
      BY <1>1, <2>3, <3>1
    <3> QED
      BY <1>1, <3>2, SameSlice DEF Cut
  <2>5. Repaired(x) = Mended(o, k)
    BY <2>2, <2>4 DEF Mended
  <2> QED
    BY <2>3, <2>5 DEF x, z
<1> QED
  BY <1>5, <1>6

(* What a repair keeps is scanned as before, and the brace that it adds is *)
(* no member.                                                              *)
LEMMA MendedTop ==
    ASSUME NEW S, NEW o \in Seq(S), NEW k \in 1..Len(o), Scan(Repairing, o)[k].depth = 1
    PROVE  /\ \A i \in 0..k : Scan(Repairing, Mended(o, k))[i] = Scan(Repairing, o)[i]
           /\ \A n : n \in TopLevel(Mended(o, k), Scan(Repairing, Mended(o, k)))
                     <=> n \in TopLevel(o, Scan(Repairing, o)) /\ n <= k
           /\ TopMembers(Mended(o, k)) \subseteq TopMembers(o)
<1> DEFINE x == Mended(o, k)
           y == Scan(Repairing, x)
           z == Scan(Repairing, o)
<1>1. Len(x) = k + 1 /\ x[k + 1] = RBrace /\ (\A i \in 1..k : x[i] = o[i])
      /\ Continued(x, 0, o, k) /\ DOMAIN x = 1..k + 1
  <2>1. IsMended(S, o, k, x)
    BY MendedShape
  <2> HIDE DEF x
  <2> QED
    BY <2>1 DEF IsMended
<1>2. \A i \in 0..k : y[i] = z[i]
  <2> HIDE DEF x
  <2> QED
    BY <1>1, ScanAlike
<1>3. y[k + 1] = Scanned(Repairing, y[k], RBrace)
  <2> HIDE DEF x
  <2>1. \A n \in 1..Len(x) : y[n] = Scanned(Repairing, y[n - 1], x[n])
    BY <1>1, ScanUnfolds
  <2>2. k + 1 \in 1..Len(x) /\ (k + 1) - 1 = k
    BY <1>1
  <2> QED
    BY <1>1, <2>1, <2>2
<1>4. z[k].depth = 1 /\ k \in 1..Len(o) /\ Len(o) \in Nat /\ DOMAIN o = 1..Len(o)
  OBVIOUS
<1>5. /\ \A n : n \in TopLevel(x, y) <=> n \in DOMAIN x /\ y[n - 1].mode = "out" /\ y[n].depth = 1
      /\ \A n : n \in TopLevel(o, z) <=> n \in DOMAIN o /\ z[n - 1].mode = "out" /\ z[n].depth = 1
  BY DEF TopLevel
<1>6. /\ \A v \in TopMembers(x) : \E n \in TopLevel(x, y) : v = x[n]
      /\ \A n \in TopLevel(o, z) : o[n] \in TopMembers(o)
  BY DEF TopMembers
<1> HIDE DEF x, y, z
<1>7. y[k].mode = "out" => y[k + 1].depth = 0
  <2> SUFFICES ASSUME y[k].mode = "out" PROVE y[k + 1].depth = 0
    OBVIOUS
  <2>1. y[k].depth = 1
    BY <1>2, <1>4
  <2>2. /\ RBrace \notin Repairing.opens /\ RBrace \in Repairing.closes
        /\ Repairing.floored = FALSE
    <3>1. /\ Repairing.opens = {LBrace, LBracket} /\ Repairing.closes = {RBrace, RBracket}
          /\ Repairing.floored = FALSE
      BY Zenon DEF Repairing
    <3> QED
      BY <3>1, Tokens
  <2>3. Scanned(Repairing, y[k], RBrace).depth
        = CASE RBrace \in Repairing.opens -> 1 + 1
            [] RBrace \in Repairing.closes /\ (Repairing.floored => 1 # 0) -> 1 - 1
            [] OTHER -> 1
    BY <2>1, Zenon DEF Scanned
  <2>4. Scanned(Repairing, y[k], RBrace).depth = 1 - 1
    BY <2>2, <2>3, Zenon
  <2> QED
    BY <1>3, <2>4
<1>8. ASSUME NEW n PROVE n \in TopLevel(x, y) <=> n \in TopLevel(o, z) /\ n <= k
  <2>1. CASE n \in 1..k
    <3>1. n \in 1..k + 1 /\ n \in 1..Len(o) /\ n - 1 \in 0..k /\ n \in 0..k /\ n <= k
      BY <1>4, <2>1
    <3> QED
      BY <1>1, <1>2, <1>4, <1>5, <3>1
  <2>2. CASE n = k + 1
    <3>1. ~ (n <= k) /\ n - 1 = k
      BY <1>4, <2>2
    <3>2. ~ (y[n - 1].mode = "out" /\ y[n].depth = 1)
      BY <1>7, <2>2, <3>1
    <3> QED
      BY <1>5, <3>1, <3>2
  <2>3. CASE n \notin 1..k + 1
    <3>1. n \in 1..Len(o) => ~ (n <= k)
      BY <1>4, <2>3
    <3> QED
      BY <1>1, <1>4, <1>5, <2>3, <3>1
  <2>4. n \in 1..k \/ n = k + 1 \/ n \notin 1..k + 1
    BY <1>4
  <2> QED
    BY <2>1, <2>2, <2>3, <2>4
<1>9. TopMembers(x) \subseteq TopMembers(o)
  <2> SUFFICES ASSUME NEW v \in TopMembers(x) PROVE v \in TopMembers(o)
    OBVIOUS
  <2>1. PICK n \in TopLevel(x, y) : v = x[n]
    BY <1>6
  <2>2. n \in TopLevel(o, z) /\ n <= k
    BY <1>8
  <2>3. n \in 1..k
    BY <1>4, <1>5, <2>2
  <2>4. v = o[n]
    BY <1>1, <2>1, <2>3
  <2> QED
    BY <1>6, <2>2, <2>4
<1>10. TopMembers(x) \subseteq TopMembers(o)
       /\ (\A n : n \in TopLevel(x, y) <=> n \in TopLevel(o, z) /\ n <= k)
       /\ \A i \in 0..k : y[i] = z[i]
  BY <1>2, <1>8, <1>9
<1> QED
  BY <1>10, Zenon DEF x, y, z

LEMMA NothingRead == \A kind : ReadAs(kind, <<>>) = {}
<1> DEFINE at == Scan(Repairing, <<>>)
<1>1. \A z : TopLevel(<<>>, z) = {}
  BY DEF TopLevel
<1>2. TopMembers(<<>>) = {}
  BY <1>1 DEF TopMembers
<1>3. Envelopes(<<>>, at) = {}
  BY <1>1 DEF Envelopes
<1>4. Unwrapped(<<>>) = <<>>
  BY <1>3, Zenon DEF Unwrapped, UnwrappedAt
<1>5. ParseVerdict(<<>>) = {}
  BY <1>2, <1>4 DEF ParseVerdict, VerdictOf
<1>6. Validate(<<>>) = {}
  BY <1>2 DEF Validate
<1> QED
  BY <1>5, <1>6, Zenon DEF ReadAs

(* A repair adds nothing to the analysis of an event. *)
LEMMA ValidateMended ==
    ASSUME NEW S, NEW o \in Seq(S), NEW k \in 1..Len(o), Scan(Repairing, o)[k].depth = 1
    PROVE  Validate(Mended(o, k)) \subseteq Validate(o)
<1> DEFINE x == Mended(o, k)
           y == Scan(Repairing, x)
           z == Scan(Repairing, o)
<1>1. Len(x) = k + 1 /\ x[k + 1] = RBrace /\ \A i \in 1..k : x[i] = o[i]
  <2>1. IsMended(S, o, k, x)
    BY MendedShape
  <2> HIDE DEF x
  <2> QED
    BY <2>1 DEF IsMended
<1>2. /\ \A n : n \in TopLevel(x, y) <=> n \in TopLevel(o, z) /\ n <= k
      /\ TopMembers(x) \subseteq TopMembers(o)
  BY MendedTop
<1>3. TopLevel(o, z) \subseteq 1..Len(o) /\ k \in 1..Len(o) /\ Len(o) \in Nat
  BY DEF TopLevel
<1> HIDE DEF x, y, z
<1>4. HasHorizons(x, y) => HasHorizons(o, z)
  <2> SUFFICES ASSUME HasHorizons(x, y) PROVE HasHorizons(o, z)
    OBVIOUS
  <2>1. PICK n \in TopLevel(x, y) : x[n] = "h" /\ x[n + 1] = LBrace /\ x[n + 2] = "m"
    BY Zenon DEF HasHorizons
  <2>2. n \in TopLevel(o, z) /\ n \in 1..k
    BY <1>2, <1>3
  <2>3. RBrace # LBrace /\ RBrace # "m"
    <3>1. RBrace # "m"
      BY Zenon DEF RBrace
    <3> QED
      BY <3>1, Tokens
  <2>4. n + 1 # k + 1 /\ n + 2 # k + 1
    BY <1>1, <2>1, <2>3
  <2>5. n + 1 \in 1..k /\ n + 2 \in 1..k
    BY <1>3, <2>2, <2>4
  <2>6. o[n] = "h" /\ o[n + 1] = LBrace /\ o[n + 2] = "m"
    BY <1>1, <2>1, <2>2, <2>5
  <2> QED
    BY <2>2, <2>6, Zenon DEF HasHorizons
<1>5. Validate(x) \subseteq Validate(o)
  <2>1. CASE {"s", "i"} \subseteq TopMembers(x) /\ HasHorizons(x, y)
    <3>1. {"s", "i"} \subseteq TopMembers(o) /\ HasHorizons(o, z)
      BY <1>2, <1>4, <2>1
    <3>2. Validate(o) = TopMembers(o) \cap {"s", "i", "h", "r"}
      BY <3>1, Zenon DEF Validate, z
    <3>3. Validate(x) = TopMembers(x) \cap {"s", "i", "h", "r"}
      BY <2>1, Zenon DEF Validate, y
    <3> QED
      BY <1>2, <3>2, <3>3
  <2>2. CASE ~ ({"s", "i"} \subseteq TopMembers(x) /\ HasHorizons(x, y))
    <3>1. Validate(x) = {}
      BY <2>2, Zenon DEF Validate, y
    <3> QED
      BY <3>1
  <2> QED
    BY <2>1, <2>2
<1> QED
  BY <1>5 DEF x

(* An envelope is the same in an object and in what is kept of it. *)
LEMMA SameInner ==
    ASSUME NEW x, NEW y, NEW o, NEW z, NEW k \in Nat, NEW n \in Nat,
           Len(x) \in Nat, Len(o) \in Nat, k <= Len(x), k <= Len(o), n + 2 <= k,
           z[k].depth = 1, \A i \in 0..k : y[i] = z[i]
    PROVE  Inner(x, y, n) = Inner(o, z, n) /\ \A i \in Inner(x, y, n) : i < k /\ i \in n + 2..k
<1> DEFINE X == {j \in n + 2..Len(x) : y[j].depth = 1}
           Z == {j \in n + 2..Len(o) : z[j].depth = 1}
           a == Min(X)
           b == Min(Z)
<1>1. \A j \in n + 2..k : y[j] = z[j]
  OBVIOUS
<1>2. k \in X /\ k \in Z
  BY <1>1
<1>3. X \in SUBSET Nat /\ Z \in SUBSET Nat /\ \A j : j <= k => (j \in X <=> j \in Z)
  BY <1>1
<1>4. Inner(x, y, n) = n + 2..a - 1 /\ Inner(o, z, n) = n + 2..b - 1
  BY Zenon DEF Inner
<1>5. \A j \in X : j >= n + 2
  OBVIOUS
<1> HIDE DEF X, Z
<1>6. a \in X /\ \A j \in X : a <= j
  BY <1>2, <1>3, LeastOf
<1>7. b \in Z /\ \A j \in Z : b <= j
  BY <1>2, <1>3, LeastOf
<1> HIDE DEF a, b
<1>8. a <= k /\ b <= k /\ a \in Nat /\ b \in Nat
  BY <1>2, <1>3, <1>6, <1>7
<1>9. a = b
  <2>1. a \in Z /\ b \in X
    BY <1>3, <1>6, <1>7, <1>8
  <2>2. a <= b /\ b <= a
    BY <1>6, <1>7, <2>1
  <2> QED
    BY <1>8, <2>2
<1>10. \A i \in n + 2..a - 1 : i < k /\ i \in n + 2..k
  BY <1>8
<1> QED
  BY <1>4, <1>9, <1>10

(* The list in an envelope is a level deeper than the envelope. *)
LEMMA Deeper ==
    ASSUME NEW x, Len(x) \in Nat, NEW n \in Nat, n + 1 <= Len(x),
           n \in TopLevel(x, Scan(Repairing, x)), x[n] = "e", x[n + 1] = LBracket
    PROVE  Scan(Repairing, x)[n + 1].depth = 2
<1> DEFINE y == Scan(Repairing, x)
           q == Len(x)
<1>1. q \in Nat /\ n + 1 <= q
  OBVIOUS
<1>2. \A i \in 1..q : y[i] = Scanned(Repairing, y[i - 1], x[i])
  BY ScanUnfolds
<1>3. n \in DOMAIN x /\ y[n - 1].mode = "out" /\ y[n].depth = 1
  BY DEF TopLevel
<1>4. n # 0
  <2> SUFFICES ASSUME n = 0 PROVE FALSE
    OBVIOUS
  <2>1. y[0] = Unscanned
    BY ScanUnfolds
  <2>2. Unscanned.depth = 0
    BY DEF Unscanned
  <2> DEFINE d == y[0].depth
  <2>3. d = 0
    BY <2>1, <2>2
  <2>4. d = 1
    BY <1>3
  <2> HIDE DEF d
  <2> QED
    BY <2>3, <2>4
<1> HIDE DEF y, q
<1>5. n \in 1..q /\ n + 1 \in 1..q /\ (n + 1) - 1 = n
  BY <1>1, <1>4
<1>6. y[n] = Scanned(Repairing, y[n - 1], "e") /\ y[n + 1] = Scanned(Repairing, y[n], LBracket)
  BY <1>2, <1>5
<1>7. y[n].mode = "out"
  <2>1. Repairing.quotes = TRUE
    BY Zenon DEF Repairing
  <2>2. Scanned(Repairing, y[n - 1], "e").mode = After("out", "e")
    BY <1>3, <2>1, Zenon DEF Scanned
  <2>3. After("out", "e") = "out"
    BY Zenon DEF After
  <2> QED
    BY <1>6, <2>2, <2>3
<1>8. Scanned(Repairing, y[n], LBracket).depth
        = CASE LBracket \in Repairing.opens -> 1 + 1
            [] LBracket \in Repairing.closes /\ (Repairing.floored => 1 # 0) -> 1 - 1
            [] OTHER -> 1
  BY <1>3, <1>7, Zenon DEF Scanned
<1>9. LBracket \in Repairing.opens /\ LBracket \notin Repairing.closes
  <2>1. Repairing.opens = {LBrace, LBracket} /\ Repairing.closes = {RBrace, RBracket}
    BY Zenon DEF Repairing
  <2> QED
    BY <2>1, Tokens
<1>10. Scanned(Repairing, y[n], LBracket).depth = 1 + 1
  BY <1>8, <1>9, Zenon
<1>11. y[n + 1].depth = 2
  BY <1>6, <1>10
<1> QED
  BY <1>11 DEF y

(* A repair adds nothing to a verdict, unless it is in an envelope that *)
(* has a signal of its own.                                             *)
LEMMA VerdictMended ==
    ASSUME NEW S, NEW o \in Seq(S), NEW k \in 1..Len(o), Scan(Repairing, o)[k].depth = 1,
           TopMembers(o) \cap {"L", "S"} = {} \/ "e" \notin TopMembers(o)
    PROVE  ParseVerdict(Mended(o, k)) \subseteq ParseVerdict(o)
<1> DEFINE x == Mended(o, k)
           y == Scan(Repairing, x)
           z == Scan(Repairing, o)
           loneX == Envelopes(x, y)
           loneO == Envelopes(o, z)
<1>1. Len(x) = k + 1 /\ x[k + 1] = RBrace /\ (\A i \in 1..k : x[i] = o[i])
      /\ x \in Seq(Wider(S)) /\ o \in Seq(Wider(S))
  <2>1. IsMended(S, o, k, x)
    BY MendedShape
  <2> HIDE DEF x
  <2> QED
    BY <2>1 DEF IsMended
<1>2. /\ \A n : n \in TopLevel(x, y) <=> n \in TopLevel(o, z) /\ n <= k
      /\ TopMembers(x) \subseteq TopMembers(o)
  BY MendedTop
<1>3. TopLevel(o, z) \subseteq 1..Len(o) /\ k \in 1..Len(o) /\ Len(o) \in Nat /\ k \in Nat
  BY DEF TopLevel
<1>4. z[k].depth = 1 /\ \A i \in 0..k : y[i] = z[i]
  BY MendedTop
<1>5. /\ \A n \in TopLevel(o, z) : o[n] \in TopMembers(o)
      /\ \A n : n \in loneX <=> n \in TopLevel(x, y) /\ HoldsOne(x, y, n)
      /\ \A n : n \in loneO <=> n \in TopLevel(o, z) /\ HoldsOne(o, z, n)
  BY DEF TopMembers, Envelopes
<1>6. ASSUME NEW n, n \in TopLevel(x, y), x[n] = "e", x[n + 1] = LBracket
      PROVE  n \in 1..k /\ n + 2 <= k
  <2>1. n \in TopLevel(o, z) /\ n \in 1..k
    <3> HIDE DEF x, y, z
    <3> QED
      BY <1>2, <1>3, <1>6
  <2>2. n + 1 # k + 1
    <3> HIDE DEF x, y, z
    <3>1. LBracket # RBrace
      BY Tokens
    <3> QED
      BY <1>1, <1>6, <3>1
  <2>3. n + 1 <= k
    BY <1>3, <2>1, <2>2
  <2>4. y[n + 1].depth = 2
    <3> HIDE DEF x
    <3>1. Len(x) \in Nat /\ n \in Nat /\ n + 1 <= Len(x)
      BY <1>1, <1>3, <2>1, <2>3
    <3> QED
      BY <1>6, <3>1, Deeper
  <2> HIDE DEF x, y, z
  <2>5. y[k].depth = 1
    <3>1. k \in 0..k
      BY <1>3
    <3> QED
      BY <1>4, <3>1
  <2>6. n + 1 # k
    <3> DEFINE d == y[k].depth
    <3>1. d = 1
      BY <2>5
    <3>2. n + 1 = k => d = 2
      BY <2>4
    <3> HIDE DEF d
    <3> QED
      BY <3>1, <3>2
  <2> QED
    BY <1>3, <2>1, <2>3, <2>6
<1> HIDE DEF x, y, z, loneX, loneO
<1>7. ASSUME NEW n \in 1..k, n + 2 <= k
      PROVE  /\ HoldsOne(x, y, n) <=> HoldsOne(o, z, n)
             /\ Inner(x, y, n) = Inner(o, z, n)
             /\ \A i \in Inner(x, y, n) : i < k /\ i \in n + 2..k
  <2>1. Inner(x, y, n) = Inner(o, z, n) /\ \A i \in Inner(x, y, n) : i < k /\ i \in n + 2..k
    <3>1. n \in Nat /\ Len(x) \in Nat /\ k <= Len(x) /\ k <= Len(o)
      BY <1>1, <1>3
    <3> QED
      BY <1>3, <1>4, <1>7, <3>1, SameInner
  <2>2. x[n] = o[n] /\ x[n + 1] = o[n + 1]
    <3>1. n + 1 \in 1..k
      BY <1>3, <1>7
    <3> QED
      BY <1>1, <3>1
  <2> DEFINE J == Inner(o, z, n)
  <2>3. \A i \in J : y[i] = z[i]
    <3>1. \A i \in J : i \in n + 2..k
      BY <2>1
    <3>2. \A i \in J : i \in 0..k
      <4> HIDE DEF J
      <4> QED
        BY <1>3, <3>1
    <3> HIDE DEF J
    <3> QED
      BY <1>4, <3>2
  <2> HIDE DEF J
  <2>4. {i \in J : y[i].depth = 2} = {i \in J : z[i].depth = 2}
    BY <2>3
  <2>5. HoldsOne(x, y, n) <=> HoldsOne(o, z, n)
    BY <2>1, <2>2, <2>4, Zenon DEF HoldsOne, J
  <2> QED
    BY <2>1, <2>5
<1>8. ASSUME NEW n \in loneX PROVE n \in loneO /\ n \in 1..k /\ n + 2 <= k
  <2>1. n \in TopLevel(x, y) /\ HoldsOne(x, y, n) /\ x[n] = "e" /\ x[n + 1] = LBracket
    BY <1>5, Zenon DEF HoldsOne
  <2>2. n \in 1..k /\ n + 2 <= k
    BY <1>6, <2>1
  <2> QED
    BY <1>2, <1>5, <1>7, <2>1, <2>2
<1>9. Unwrapped(x) = UnwrappedAt(x, y) /\ Unwrapped(o) = UnwrappedAt(o, z)
  BY Zenon DEF Unwrapped, y, z
<1>10. CASE loneX # {}
  <2> DEFINE a == Min(loneX)
             b == Min(loneO)
             J == Inner(x, y, a)
             last == Max(J)
  <2>1. loneX \in SUBSET Nat /\ loneO \in SUBSET Nat /\ loneX \subseteq loneO
    BY <1>3, <1>5, <1>8
  <2>2. a \in loneX /\ \A e \in loneX : a <= e
    BY <1>10, <2>1, LeastOf
  <2>3. b \in loneO /\ \A e \in loneO : b <= e
    BY <1>10, <2>1, LeastOf
  <2> HIDE DEF a, b
  <2>4. a \in loneO /\ a \in 1..k /\ a + 2 <= k
    BY <1>8, <2>2
  <2>5. b \in loneX
    <3>1. b \in Nat /\ b <= a /\ b \in TopLevel(o, z) /\ HoldsOne(o, z, b)
      BY <1>5, <2>1, <2>3, <2>4
    <3>2. b \in 1..k /\ b + 2 <= k
      BY <1>3, <2>4, <3>1
    <3>3. b \in TopLevel(x, y) /\ HoldsOne(x, y, b)
      BY <1>2, <1>7, <3>1, <3>2
    <3> QED
      BY <1>5, <3>3
  <2>6. a = b
    <3>1. a <= b /\ b <= a /\ a \in Nat /\ b \in Nat
      BY <2>1, <2>2, <2>3, <2>4, <2>5
    <3> QED
      BY <3>1
  <2>7. J = Inner(o, z, a) /\ \A i \in J : i < k /\ i \in a + 2..k
    BY <1>7, <2>4
  <2>8. J # {}
    <3>1. HoldsOne(x, y, a)
      BY <1>5, <2>2
    <3> QED
      BY <3>1, Zenon DEF HoldsOne
  <2> HIDE DEF J
  <2>9. last \in a + 2..k
    <3>1. J \in SUBSET Nat /\ \A i \in J : i <= k
      BY <1>3, <2>4, <2>7
    <3>2. last \in J
      BY <1>3, <2>8, <3>1, GreatestOf
    <3> HIDE DEF last
    <3> QED
      BY <2>7, <3>2
  <2>10. UnwrappedAt(x, y) = SubSeq(x, a + 2, last)
    BY <1>10, Zenon DEF UnwrappedAt, a, J, loneX
  <2>11. UnwrappedAt(o, z) = SubSeq(o, a + 2, last)
    <3>1. loneO # {}
      BY <2>4
    <3>2. UnwrappedAt(o, z) = SubSeq(o, b + 2, Max(Inner(o, z, b)))
      BY <3>1, Zenon DEF UnwrappedAt, b, loneO
    <3> QED
      BY <2>6, <2>7, <3>2
  <2> HIDE DEF last
  <2>12. SubSeq(x, a + 2, last) = SubSeq(o, a + 2, last)
    <3> DEFINE first == a + 2
    <3>1. first \in Nat /\ last \in Nat /\ 1 <= first /\ first <= last
          /\ last <= Len(x) /\ last <= Len(o) /\ \A i \in 1..last : x[i] = o[i]
      BY <1>1, <1>3, <2>4, <2>9
    <3> HIDE DEF first
    <3>2. SubSeq(x, first, last) = SubSeq(o, first, last)
      BY <1>1, <3>1, SameSlice
    <3> QED
      BY <3>2 DEF first
  <2>13. ParseVerdict(x) = ParseVerdict(o)
    BY <1>9, <2>10, <2>11, <2>12, Zenon DEF ParseVerdict
  <2> QED
    BY <2>13 DEF x
<1>11. CASE loneX = {}
  <2>1. UnwrappedAt(x, y) = x
    BY <1>11, Zenon DEF UnwrappedAt, loneX
  <2>2. ParseVerdict(x) = VerdictOf(TopMembers(x))
    BY <1>9, <2>1, Zenon DEF ParseVerdict
  <2>3. CASE loneO = {}
    <3>1. UnwrappedAt(o, z) = o
      BY <2>3, Zenon DEF UnwrappedAt, loneO
    <3>2. ParseVerdict(o) = VerdictOf(TopMembers(o))
      BY <1>9, <3>1, Zenon DEF ParseVerdict
    <3> DEFINE X == TopMembers(x)
               O == TopMembers(o)
    <3>3. X \subseteq O
      BY <1>2
    <3> HIDE DEF X, O
    <3>4. VerdictOf(X) \subseteq VerdictOf(O)
      BY <3>3 DEF VerdictOf
    <3> QED
      BY <2>2, <3>2, <3>4 DEF X, O, x
  <2>4. CASE loneO # {}
    <3>1. PICK n \in loneO : TRUE
      BY <2>4
    <3>2. n \in TopLevel(o, z) /\ o[n] = "e"
      BY <1>5, Zenon DEF HoldsOne
    <3>3. TopMembers(o) \cap {"L", "S"} = {}
      BY <1>5, <3>2
    <3>4. TopMembers(x) \cap {"L", "S"} = {}
      BY <1>2, <3>3
    <3>5. VerdictOf(TopMembers(x)) = {}
      BY <3>4, Zenon DEF VerdictOf
    <3> QED
      BY <2>2, <3>5 DEF x
  <2> QED
    BY <2>3, <2>4
<1> QED
  BY <1>10, <1>11

(* Where nothing is found, nothing is held. *)
LEMMA FoundHeld ==
    ASSUME NEW text, NEW at, Len(text) \in Nat, DOMAIN text = 1..Len(text),
           Holding(text, at) # {}
    PROVE  Found(text, at) # <<>>
<1> DEFINE held == Holding(text, at)
           verdicts == Verdicts(text, at)
<1>1. held \in SUBSET Nat /\ verdicts \subseteq held
  <2>1. held \subseteq DOMAIN text /\ verdicts \subseteq held
    BY DEF Holding, Starts, Verdicts
  <2> HIDE DEF held, verdicts
  <2>2. \A n \in held : n \in 1..Len(text)
    BY <2>1
  <2> QED
    BY <2>1, <2>2
<1>2. \A n \in held : JsonAt(text, at, n) # <<>>
  BY DEF Holding
<1> HIDE DEF held, verdicts
<1>3. CASE verdicts # {}
  <2>1. Found(text, at) = JsonAt(text, at, Min(verdicts))
    BY <1>3, Zenon DEF Found, verdicts
  <2>2. Min(verdicts) \in held
    BY <1>1, <1>3, LeastOf
  <2> QED
    BY <1>2, <2>1, <2>2
<1>4. CASE verdicts = {}
  <2>1. held # {}
    BY DEF held
  <2>2. Found(text, at) = JsonAt(text, at, Min(held))
    BY <1>4, <2>1, Zenon DEF Found, verdicts, held
  <2>3. Min(held) \in held
    BY <1>1, <2>1, LeastOf
  <2> QED
    BY <1>2, <2>2, <2>3
<1> QED
  BY <1>3, <1>4

LEMMA NothingHeld ==
    ASSUME NEW text, Len(text) \in Nat, DOMAIN text = 1..Len(text), FoundIn(text) = <<>>
    PROVE  /\ Holding(text, Scan(Trusting, text)) = {}
           /\ Holding(text, Scan(Ignoring, text)) = {}
<1>1. Holding(text, Scan(Trusting, text)) = {}
  <2> SUFFICES ASSUME Holding(text, Scan(Trusting, text)) # {} PROVE FALSE
    OBVIOUS
  <2>1. FoundIn(text) = Found(text, Scan(Trusting, text))
    BY Zenon DEF FoundIn
  <2> QED
    BY <2>1, FoundHeld
<1>2. FoundIn(text) = Found(text, Scan(Ignoring, text))
  BY <1>1, Zenon DEF FoundIn
<1> QED
  BY <1>1, <1>2, FoundHeld

IsJoined(S, x, y, w) ==
    /\ w \in Seq(S) /\ Len(w) = Len(x) + Len(y)
    /\ \A i \in 1..Len(x) : w[i] = x[i]
    /\ \A i \in 1..Len(y) : w[Len(x) + i] = y[i]

LEMMA JoinedShape ==
    ASSUME NEW S, NEW x \in Seq(S), NEW y \in Seq(S)
    PROVE  IsJoined(S, x, y, Joined(x, y))
BY DEF IsJoined, Joined

\* A text without its fences stands behind prose without its fences.
LEMMA IsBehind ==
    ASSUME NEW S, NEW b \in Seq(S), NEW v \in Seq(S), NEW o \in Seq(S), NEW m \in 0..Len(o),
           m <= Len(v), \A i \in 1..m : v[i] = o[i], NEW rule,
           Scan(rule, b)[Len(b)] = Unscanned, Holding(b, Scan(rule, b)) = {}
    PROVE  Behind(Joined(b, v), b, o, m, rule)
<1> DEFINE u == Joined(b, v)
<1>1. IsJoined(S, b, v, u)
  BY JoinedShape
<1> HIDE DEF u
<1>2. /\ Len(u) \in Nat /\ Len(b) \in Nat /\ Len(o) \in Nat /\ Len(v) \in Nat /\ m \in Nat
      /\ Len(u) = Len(b) + Len(v)
  BY <1>1 DEF IsJoined
<1>3. \A i \in 1..Len(b) : u[0 + i] = b[i]
  <2>1. \A i \in 1..Len(b) : 0 + i = i
    BY <1>2
  <2> QED
    BY <1>1, <2>1 DEF IsJoined
<1>4. \A i \in 1..m : u[Len(b) + i] = o[i]
  <2>1. \A i \in 1..m : i \in 1..Len(v)
    BY <1>2
  <2>2. \A i \in 1..Len(v) : u[Len(b) + i] = v[i]
    BY <1>1 DEF IsJoined
  <2> QED
    BY <2>1, <2>2
<1>5. Continued(u, 0, b, Len(b)) /\ Continued(u, Len(b), o, m)
  BY <1>2, <1>3, <1>4 DEF Continued
<1> QED
  BY <1>5 DEF Behind, u

\* A reply is its prose, its object and what follows it.
IsAll(S, b, o, t, all) ==
    /\ all \in Seq(S) /\ Len(all) = Len(b) + Len(o) + Len(t)
    /\ \A i \in 1..Len(b) : all[i] = b[i]
    /\ \A i \in 1..Len(o) : all[Len(b) + i] = o[i]
    /\ \A i \in 1..Len(t) : all[Len(b) + Len(o) + i] = t[i]

\* The text is what a model wrote of a reply by its token w.
IsText(b, o, t, w, text) ==
    /\ w <= Len(b) => text = Cut(b, w)
    /\ w > Len(b) /\ w <= Len(b) + Len(o) => text = Joined(b, Cut(o, w - Len(b)))
    /\ w >= Len(b) + Len(o)
       => text = Joined(b, Joined(o, Cut(t, w - Len(b) - Len(o))))

LEMMA TextIs ==
    ASSUME NEW S, NEW b \in Seq(S), NEW o \in Seq(S), NEW t \in Seq(S),
           NEW all, IsAll(S, b, o, t, all), NEW w \in 0..Len(all)
    PROVE  IsText(b, o, t, w, Cut(all, w))
<1> DEFINE text == Cut(all, w)
           p == Len(b)
           q == Len(o)
           r == Len(t)
<1>1. /\ p \in Nat /\ q \in Nat /\ r \in Nat /\ all \in Seq(S) /\ Len(all) = p + q + r
      /\ \A i \in 1..p : all[i] = b[i]
      /\ \A i \in 1..q : all[p + i] = o[i]
      /\ \A i \in 1..r : all[p + q + i] = t[i]
  <2>1. p \in Nat /\ q \in Nat /\ r \in Nat
    OBVIOUS
  <2>2. /\ all \in Seq(S) /\ Len(all) = p + q + r
        /\ \A i \in 1..p : all[i] = b[i]
        /\ \A i \in 1..q : all[p + i] = o[i]
        /\ \A i \in 1..r : all[p + q + i] = t[i]
    BY Zenon DEF IsAll
  <2> QED
    BY <2>1, <2>2, Zenon
<1>2. w \in 0..p + q + r
  BY <1>1
<1> HIDE DEF p, q, r
<1>3. text \in Seq(S) /\ Len(text) = w /\ \A i \in 1..w : text[i] = all[i]
  BY <1>1, CutContinues
<1> HIDE DEF text
<1>4. ASSUME w <= p PROVE text = Cut(b, w)
  <2> DEFINE y == Cut(b, w)
  <2>1. y \in Seq(S) /\ Len(y) = w /\ \A i \in 1..w : y[i] = b[i]
    <3>1. w \in 0..Len(b)
      BY <1>1, <1>2, <1>4 DEF p
    <3> QED
      BY <3>1, CutContinues
  <2> HIDE DEF y
  <2>2. ASSUME NEW i \in 1..w PROVE text[i] = y[i]
    <3>1. i \in 1..p
      BY <1>1, <1>2, <1>4
    <3>2. text[i] = all[i] /\ all[i] = b[i] /\ y[i] = b[i]
      BY <1>1, <1>3, <2>1, <3>1
    <3> QED
      BY <3>2
  <2>3. text = y
    BY <1>3, <2>1, <2>2
  <2> QED
    BY <2>3 DEF y
<1>5. ASSUME w > p, w <= p + q PROVE text = Joined(b, Cut(o, w - p))
  <2> DEFINE m == w - p
             y == Cut(o, m)
             z == Joined(b, y)
  <2>1. m \in 0..q /\ w = p + m
    BY <1>1, <1>2, <1>5
  <2> HIDE DEF m
  <2>2. y \in Seq(S) /\ Len(y) = m /\ \A i \in 1..m : y[i] = o[i]
    <3>1. m \in 0..Len(o)
      BY <2>1 DEF q
    <3> QED
      BY <3>1, CutContinues
  <2> HIDE DEF y
  <2>3. IsJoined(S, b, y, z)
    BY <2>2, JoinedShape
  <2> HIDE DEF z
  <2>4. z \in Seq(S) /\ Len(z) = p + m /\ (\A i \in 1..p : z[i] = b[i])
        /\ \A i \in 1..m : z[p + i] = y[i]
    BY <2>2, <2>3 DEF IsJoined, p
  <2>5. \A i \in 1..w : text[i] = z[i]
    <3> SUFFICES ASSUME NEW i \in 1..w PROVE text[i] = z[i]
      OBVIOUS
    <3>1. CASE i <= p
      BY <1>1, <1>2, <1>3, <2>4, <3>1
    <3>2. CASE i > p
      <4> DEFINE j == i - p
      <4>1. j \in 1..m /\ j \in 1..q /\ i = p + j
        BY <1>1, <2>1, <3>2
      <4> HIDE DEF j
      <4> QED
        BY <1>1, <1>3, <2>2, <2>4, <4>1
    <3> QED
      BY <1>1, <3>1, <3>2
  <2>6. text = z
    BY <1>3, <2>1, <2>4, <2>5
  <2> QED
    BY <2>6 DEF z, y, m
<1>6. ASSUME w >= p + q PROVE text = Joined(b, Joined(o, Cut(t, w - p - q)))
  <2> DEFINE m == w - p - q
             y == Cut(t, m)
             x == Joined(o, y)
             z == Joined(b, x)
  <2>1. m \in 0..r /\ w = p + q + m
    BY <1>1, <1>2, <1>6
  <2> HIDE DEF m
  <2>2. y \in Seq(S) /\ Len(y) = m /\ \A i \in 1..m : y[i] = t[i]
    <3>1. m \in 0..Len(t)
      BY <2>1 DEF r
    <3> QED
      BY <3>1, CutContinues
  <2> HIDE DEF y
  <2>3. IsJoined(S, o, y, x)
    BY <2>2, JoinedShape
  <2> HIDE DEF x
  <2>4. x \in Seq(S) /\ Len(x) = q + m /\ (\A i \in 1..q : x[i] = o[i])
        /\ \A i \in 1..m : x[q + i] = y[i]
    BY <2>2, <2>3 DEF IsJoined, q
  <2>5. IsJoined(S, b, x, z)
    BY <2>4, JoinedShape
  <2> HIDE DEF z
  <2>6. z \in Seq(S) /\ Len(z) = p + (q + m) /\ (\A i \in 1..p : z[i] = b[i])
        /\ \A i \in 1..q + m : z[p + i] = x[i]
    BY <2>4, <2>5 DEF IsJoined, p
  <2>7. \A i \in 1..w : text[i] = z[i]
    <3> SUFFICES ASSUME NEW i \in 1..w PROVE text[i] = z[i]
      OBVIOUS
    <3>1. CASE i <= p
      BY <1>1, <1>2, <1>3, <2>6, <3>1
    <3>2. CASE i > p /\ i <= p + q
      <4> DEFINE j == i - p
      <4>1. j \in 1..q + m /\ j \in 1..q /\ i = p + j
        BY <1>1, <2>1, <3>2
      <4> HIDE DEF j
      <4> QED
        BY <1>1, <1>3, <2>4, <2>6, <4>1
    <3>3. CASE i > p + q
      <4> DEFINE j == i - (p + q)
      <4>1. j \in 1..m /\ j \in 1..r /\ i = p + q + j /\ q + j \in 1..q + m /\ i = p + (q + j)
        BY <1>1, <2>1, <3>3
      <4> HIDE DEF j
      <4>2. z[i] = x[q + j] /\ x[q + j] = t[j]
        BY <2>2, <2>4, <2>6, <4>1
      <4>3. all[i] = t[j] /\ text[i] = all[i]
        BY <1>1, <1>3, <4>1
      <4> QED
        BY <4>2, <4>3
    <3> QED
      BY <1>1, <3>1, <3>2, <3>3
  <2>8. text = z
    BY <1>1, <1>3, <2>1, <2>6, <2>7
  <2> QED
    BY <2>8 DEF z, x, y, m
<1> QED
  BY <1>4, <1>5, <1>6 DEF p, q, text, IsText

\* After the prose the scan is back where it started.
BackAtStart(prose, rule) == Scan(rule, Strip(prose))[Len(Strip(prose))] = Unscanned

\* Nothing is found in the prose, wherever it is cut.
Harmless(prose) ==
    BackAtStart(prose, Trusting) /\ \A k \in 0..Len(prose) : Extracted(Cut(prose, k)) = <<>>

\* Within the first m tokens of an object, the scan that ignores quotes takes
\* nothing else for an object: where a brace in a string closed it, no other
\* brace follows that opens one.
StartsOnce(o, m) == Starts(o, Scan(Ignoring, o)) \cap 2..m = {}

\* None of the exceptions of NothingElseRead: nothing is found in the prose; the
\* object loads, and means what the reader makes of it alone; no envelope has a
\* signal of its own; no signal follows what does not look like a verdict; and
\* where the object is cut, ignoring quotes leads to no other object.
Straight(r, w) ==
    /\ Harmless(r.before)
    /\ IsObject(r.object.text) /\ \A i \in 1..Len(r.object.text) : r.object.text[i] # "f"
    /\ r.object.means = ReadAs(r.object.kind, r.object.text)
    /\ TopMembers(r.object.text) \cap {"L", "S"} = {} \/ "e" \notin TopMembers(r.object.text)
    /\ \/ IsVerdictObject(r.object.text)
       \/ \A j \in 1..Len(r.after) : r.after[j] \notin {"L", "S", "D"}
    /\ w < Len(r.before) + Len(r.object.text)
       => BackAtStart(r.before, Ignoring) /\ StartsOnce(r.object.text, w - Len(r.before))

LEMMA TextOver ==
    ASSUME NEW S, NEW T, NEW text \in Seq(S), \A i \in 1..Len(text) : text[i] \in T
    PROVE  text \in Seq(T)
OBVIOUS

LEMMA StripText ==
    ASSUME NEW S, NEW text \in Seq(S)
    PROVE  Strip(text) \in Seq(S)
<1>1. Len(text) \in Nat /\ Len(text) \in 0..Len(text)
  OBVIOUS
<1>2. Stripping(text)[Len(text)] \in Seq(S)
  BY <1>1, StripTypes
<1> QED
  BY <1>2 DEF Strip

(* What is read of a cut object is what is read of it, or less. *)
LEMMA LessRead ==
    ASSUME NEW S, NEW o \in Seq(S), NEW m \in 0..Len(o), NEW kind,
           TopMembers(o) \cap {"L", "S"} = {} \/ "e" \notin TopMembers(o),
           NEW x \in {<<>>, Repaired(Cut(o, m))}
    PROVE  ReadAs(kind, x) \subseteq ReadAs(kind, o)
<1>1. CASE x = <<>>
  <2>1. ReadAs(kind, x) = {}
    BY <1>1, NothingRead
  <2> QED
    BY <2>1
<1>2. CASE x # <<>>
  <2>1. x = Repaired(Cut(o, m))
    BY <1>2
  <2>2. PICK k \in 1..m : x = Mended(o, k) /\ Scan(Repairing, o)[k].depth = 1
    BY <1>2, <2>1, RepairedIs
  <2>3. k \in 1..Len(o)
    OBVIOUS
  <2>4. ParseVerdict(x) \subseteq ParseVerdict(o)
    BY <2>2, <2>3, VerdictMended
  <2>5. Validate(x) \subseteq Validate(o)
    BY <2>2, <2>3, ValidateMended
  <2>6. CASE kind = "verdict"
    <3>1. ReadAs(kind, x) = ParseVerdict(x) /\ ReadAs(kind, o) = ParseVerdict(o)
      BY <2>6, Zenon DEF ReadAs
    <3> QED
      BY <2>4, <3>1
  <2>7. CASE kind # "verdict"
    <3>1. ReadAs(kind, x) = Validate(x) /\ ReadAs(kind, o) = Validate(o)
      BY <2>7, Zenon DEF ReadAs
    <3> QED
      BY <2>5, <3>1
  <2> QED
    BY <2>6, <2>7
<1> QED
  BY <1>1, <1>2

(* What is read of a straight reply: nothing before its object begins, no *)
(* more than the object means while it is cut, and all of it when it is   *)
(* complete.                                                              *)
LEMMA StraightRead ==
    ASSUME NEW r, NEW S, r.before \in Seq(S), r.object.text \in Seq(S), r.after \in Seq(S),
           NEW w \in 0..Len(Whole(r)), Straight(r, w)
    PROVE  LET x == ReadAs(r.object.kind, Extracted(SubSeq(Whole(r), 1, w))) IN
           /\ x \subseteq r.object.means
           /\ w = Len(Whole(r)) => x = r.object.means
<1> DEFINE before == r.before
           o == r.object.text
           after == r.after
           kind == r.object.kind
           text == SubSeq(Whole(r), 1, w)
           p == Len(before)
           q == Len(o)
           b == Strip(before)
           m == w - p
           j == w - p - q
<1>1. before \in Seq(S) /\ o \in Seq(S) /\ after \in Seq(S)
  OBVIOUS
<1>2. /\ Harmless(before) /\ IsObject(o) /\ (\A i \in 1..q : o[i] # "f")
      /\ r.object.means = ReadAs(kind, o)
      /\ (TopMembers(o) \cap {"L", "S"} = {} \/ "e" \notin TopMembers(o))
      /\ (IsVerdictObject(o) \/ \A i \in 1..Len(after) : after[i] \notin {"L", "S", "D"})
      /\ (w < p + q => StartsOnce(o, m) /\ BackAtStart(before, Ignoring))
  BY Zenon DEF Straight
<1>3. IsText(before, o, after, w, text) /\ Len(Whole(r)) = p + q + Len(after)
  <2> DEFINE all == Whole(r)
  <2>1. all = before \o o \o after
    BY Zenon DEF Whole
  <2>2. text = Cut(all, w) /\ w \in 0..Len(all)
    BY DEF Cut
  <2> HIDE DEF all, before, o, after, text
  <2>3. IsAll(S, before, o, after, all)
    BY <1>1, <2>1 DEF IsAll
  <2>4. IsText(before, o, after, w, Cut(all, w))
    BY <1>1, <2>2, <2>3, TextIs
  <2>5. Len(all) = p + q + Len(after)
    BY <2>3 DEF IsAll, p, q
  <2> QED
    BY <2>2, <2>4, <2>5 DEF all
<1>4. /\ p \in Nat /\ q \in Nat /\ q >= 2 /\ Len(after) \in Nat /\ w \in 0..p + q + Len(after)
      /\ Len(Whole(r)) = p + q + Len(after)
  <2>1. q >= 2
    BY <1>1, <1>2, ObjectShape
  <2>2. p \in Nat /\ q \in Nat /\ Len(after) \in Nat
    BY <1>1
  <2> QED
    BY <1>3, <2>1, <2>2
<1> HIDE DEF before, o, after, kind, text, p, q
<1>5. b \in Seq(S)
  BY <1>1, StripText
<1>6. /\ Scan(Trusting, b)[Len(b)] = Unscanned
      /\ BackAtStart(before, Ignoring) => Scan(Ignoring, b)[Len(b)] = Unscanned
  BY <1>2, Zenon DEF Harmless, BackAtStart
<1>7. Holding(b, Scan(Trusting, b)) = {} /\ Holding(b, Scan(Ignoring, b)) = {}
  <2>1. p \in 0..p
    BY <1>4
  <2>2. Cut(before, p) = before
    BY <1>1, CutWhole DEF p
  <2>3. Extracted(before) = <<>>
    BY <1>2, <2>1, <2>2 DEF Harmless, p
  <2>4. FoundIn(b) = <<>>
    BY <2>3 DEF Extracted
  <2> HIDE DEF b
  <2>5. Len(b) \in Nat /\ DOMAIN b = 1..Len(b)
    BY <1>5
  <2> QED
    BY <2>4, <2>5, NothingHeld
<1> HIDE DEF b
<1>8. CASE w <= p
  <2>1. Extracted(text) = <<>>
    <3>1. w \in 0..Len(before)
      BY <1>4, <1>8 DEF p
    <3> QED
      BY <1>2, <1>3, <1>8, <3>1 DEF Harmless, IsText, p
  <2>2. ReadAs(kind, Extracted(text)) = {}
    BY <2>1, NothingRead
  <2>3. w # Len(Whole(r))
    BY <1>4, <1>8
  <2> QED
    BY <2>2, <2>3 DEF kind, text
<1>9. CASE w > p /\ w < p + q
  <2> DEFINE v == Cut(o, m)
             u == Joined(b, v)
  <2>1. m \in 1..q - 1 /\ m \in 0..q
    BY <1>4, <1>9
  <2> HIDE DEF m
  <2>2. v \in Seq(S) /\ Len(v) = m /\ \A i \in 1..m : v[i] = o[i]
    BY <1>1, <2>1, CutContinues DEF q
  <2> HIDE DEF v
  <2>3. Strip(v) = v
    <3>1. \A i \in 1..Len(v) : v[i] # "f"
      BY <1>2, <1>4, <2>1, <2>2
    <3> QED
      BY <2>2, <3>1, StripPlain
  <2>4. text = Joined(before, v)
    BY <1>3, <1>4, <1>9 DEF v, m, p, q, IsText
  <2>5. Strip(text) = u
    <3>1. Strip(Joined(before, v)) = Joined(Strip(before), Strip(v))
      BY <1>1, <2>2, StripConcat
    <3> QED
      BY <2>3, <2>4, <3>1 DEF b
  <2>6. ASSUME NEW rule \in {Trusting, Ignoring}
        PROVE  Found(u, Scan(rule, u)) \in {<<>>, Repaired(v)}
    <3>1. Scan(rule, b)[Len(b)] = Unscanned /\ Holding(b, Scan(rule, b)) = {}
      BY <1>2, <1>6, <1>7, <1>9
    <3>2. Behind(u, b, o, m, rule)
      <4>1. m \in 0..Len(o) /\ m <= Len(v)
        BY <2>1, <2>2 DEF q
      <4> QED
        BY <1>1, <1>5, <2>2, <3>1, <4>1, IsBehind
    <3>3. IsJoined(S, b, v, u)
      BY <1>5, <2>2, JoinedShape
    <3>4. u \in Seq(S) /\ Len(u) = Len(b) + m
      BY <2>2, <3>3 DEF IsJoined
    <3>5. Starts(o, Scan(rule, o)) \cap 2..m = {}
      <4>1. CASE rule = Trusting
        <5>1. m \in 0..Len(o)
          BY <2>1 DEF q
        <5> QED
          BY <1>1, <1>2, <4>1, <5>1, OneStart
      <4>2. CASE rule = Ignoring
        BY <1>2, <1>9, <4>2 DEF StartsOnce
      <4> QED
        BY <4>1, <4>2
    <3> HIDE DEF u
    <3>6. m \in 1..Len(o) - 1
      BY <2>1 DEF q
    <3> QED
      BY <1>1, <1>2, <1>5, <3>2, <3>4, <3>5, <3>6, CutFound DEF v
  <2> HIDE DEF u
  <2>7. Extracted(text) \in {<<>>, Repaired(v)}
    <3>1. \/ FoundIn(u) = Found(u, Scan(Trusting, u))
          \/ FoundIn(u) = Found(u, Scan(Ignoring, u))
      BY Zenon DEF FoundIn
    <3>2. Extracted(text) = FoundIn(u)
      BY <2>5 DEF Extracted
    <3> QED
      BY <2>6, <3>1, <3>2
  <2>8. ReadAs(kind, Extracted(text)) \subseteq ReadAs(kind, o)
    BY <1>1, <1>2, <2>1, <2>7, LessRead DEF v, q
  <2>9. w # Len(Whole(r))
    BY <1>4, <1>9
  <2> QED
    BY <1>2, <2>8, <2>9 DEF kind, text
<1>10. CASE w >= p + q
  <2> DEFINE tail == Cut(after, j)
             rest == Strip(tail)
             v == Joined(o, rest)
             u == Joined(b, v)
             T == {after[i] : i \in 1..Len(after)}
  <2>1. j \in 0..Len(after)
    BY <1>4, <1>10
  <2>2. tail \in Seq(S) /\ tail \in Seq(T)
    <3> HIDE DEF j
    <3>1. after \in Seq(T)
      <4>1. \A i \in 1..Len(after) : after[i] \in T
        OBVIOUS
      <4> HIDE DEF T
      <4> QED
        BY <1>1, <4>1, TextOver
    <3> HIDE DEF T
    <3> QED
      BY <1>1, <2>1, <3>1, CutContinues
  <2>3. text = Joined(before, Joined(o, tail))
    BY <1>3, <1>4, <1>10 DEF p, q, IsText
  <2> HIDE DEF tail, T
  <2>4. rest \in Seq(S) /\ rest \in Seq(T)
    BY <2>2, StripText
  <2>5. Strip(o) = o
    BY <1>1, <1>2, StripPlain DEF q
  <2>6. Joined(o, tail) \in Seq(S)
    <3>1. IsJoined(S, o, tail, Joined(o, tail))
      BY <1>1, <2>2, JoinedShape
    <3> QED
      BY <3>1 DEF IsJoined
  <2>7. Strip(text) = u
    <3>1. Strip(Joined(o, tail)) = v
      BY <1>1, <2>2, <2>5, StripConcat
    <3>2. Strip(Joined(before, Joined(o, tail))) = Joined(b, Strip(Joined(o, tail)))
      BY <1>1, <2>6, StripConcat DEF b
    <3> QED
      BY <2>3, <3>1, <3>2
  <2> HIDE DEF rest
  <2>8. IsJoined(S, o, rest, v)
    BY <1>1, <2>4, JoinedShape
  <2> HIDE DEF v
  <2>9. v \in Seq(S) /\ Len(v) = q + Len(rest) /\ (\A i \in 1..q : v[i] = o[i])
        /\ (\A i \in 1..Len(rest) : v[q + i] = rest[i]) /\ Len(rest) \in Nat
    BY <2>4, <2>8 DEF IsJoined, q
  <2>10. Behind(u, b, o, q, Trusting)
    <3>1. q \in 0..Len(o) /\ q <= Len(v)
      BY <1>4, <2>9 DEF q
    <3> QED
      BY <1>1, <1>5, <1>6, <1>7, <2>9, <3>1, IsBehind
  <2>11. IsJoined(S, b, v, u)
    BY <1>5, <2>9, JoinedShape
  <2> HIDE DEF u
  <2>12. IsVerdictObject(o) \/ \A i \in Len(b) + q + 1..Len(u) : u[i] \notin {"L", "S", "D"}
    <3> SUFFICES ASSUME ~IsVerdictObject(o), NEW i \in Len(b) + q + 1..Len(u)
                 PROVE  u[i] \notin {"L", "S", "D"}
      OBVIOUS
    <3>1. \A t \in T : t \notin {"L", "S", "D"}
      BY <1>2 DEF T
    <3> DEFINE k == i - (Len(b) + q)
    <3>2. Len(b) \in Nat /\ Len(u) = Len(b) + Len(v)
      BY <1>5, <2>11 DEF IsJoined
    <3>3. k \in 1..Len(rest) /\ q + k \in 1..Len(v) /\ i = Len(b) + (q + k)
      BY <1>4, <2>9, <3>2
    <3> HIDE DEF k
    <3>4. u[i] = v[q + k] /\ v[q + k] = rest[k]
      BY <2>9, <2>11, <3>3 DEF IsJoined
    <3>5. rest[k] \in T
      BY <2>4, <3>3
    <3> QED
      BY <3>1, <3>4, <3>5
  <2>13. u \in Seq(S)
    BY <2>11 DEF IsJoined
  <2>14. FoundIn(u) = o
    BY <1>1, <1>2, <1>5, <2>10, <2>12, <2>13, WholeFound DEF q
  <2>15. Extracted(text) = o
    BY <2>7, <2>14 DEF Extracted
  <2> QED
    BY <1>2, <2>15 DEF kind, text
<1> QED
  BY <1>4, <1>8, <1>9, <1>10

\* What a reply was read as is what its text says.
ReadingFaithful ==
    \/ reading = Unread
    \/ reply # Silence /\ reading = ReadAs(reply.object.kind, Extracted(Text))

\* The parts of a reply are texts.
PartsShape ==
    /\ reply.before \in Seq(STRING) /\ reply.after \in Seq(STRING)
    /\ reply.object.text \in Seq(STRING)

LEMMA ReadingStep ==
    ReadingFaithful /\ PartsShape /\ [ReplyNext]_replyVars => ReadingFaithful' /\ PartsShape'
<1> SUFFICES ASSUME ReadingFaithful, PartsShape, [ReplyNext]_replyVars
             PROVE  ReadingFaithful' /\ PartsShape'
  OBVIOUS
<1>1. CASE Prompted
  <2>1. PICK o \in Objects, p \in Asides \cup Noises \cup Unclosed, t \in Tails :
          reply' = [object |-> o, before |-> p, after |-> t]
    BY <1>1, Zenon DEF Prompted
  <2>2. /\ o.text \in Seq(STRING) /\ p \in Seq(STRING) /\ t \in Seq(STRING)
    <3>1. o.text \in Seq(STRING)
      BY ReplyAssumption
    <3> QED
      BY <3>1, ReplyAssumption
  <2>3. reply'.object = o /\ reply'.before = p /\ reply'.after = t
    BY <2>1
  <2>4. reply = Silence /\ reading' = reading
    BY <1>1 DEF Prompted
  <2>5. reading' = Unread
    BY <2>4 DEF ReadingFaithful
  <2> QED
    BY <2>2, <2>3, <2>5 DEF ReadingFaithful, PartsShape
<1>2. CASE Write
  <2>1. reading = Unread /\ reading' = reading /\ reply' = reply
    BY <1>2 DEF Write
  <2> QED
    BY <2>1 DEF ReadingFaithful, PartsShape
<1>3. CASE Read
  <2>1. /\ reply # Silence /\ reply' = reply /\ written' = written
        /\ reading' = ReadAs(reply.object.kind, Extracted(Text))
    BY <1>3 DEF Read
  <2>2. Text' = Text
    BY <2>1 DEF Text
  <2>3. reading' = ReadAs(reply'.object.kind, Extracted(Text')) /\ reply' # Silence
    BY <2>1, <2>2
  <2>4. PartsShape'
    BY <2>1 DEF PartsShape
  <2> QED
    BY <2>3, <2>4 DEF ReadingFaithful
<1>4. CASE UNCHANGED replyVars
  <2>1. reply' = reply /\ written' = written /\ reading' = reading
    BY <1>4 DEF replyVars
  <2>2. Text' = Text
    BY <2>1 DEF Text
  <2> QED
    BY <2>1, <2>2 DEF ReadingFaithful, PartsShape
<1> QED
  BY <1>1, <1>2, <1>3, <1>4 DEF ReplyNext

(* A reply that none of the exceptions applies to is read as it was meant, *)
(* wherever it is cut: never more than the model said of the coin or the   *)
(* event, and all of it when it is complete (ai_decision._extract_json,    *)
(* parse_verdict and news_analysis._validate).                             *)
THEOREM ReplyReadAsMeant ==
    ReplySpec => [](Straight(reply, written) => ReadAsMeant)
<1> DEFINE faithful == ReadingFaithful /\ PartsShape
<1>1. ReplyInit => faithful
  <2>1. Silence.before = <<>> /\ Silence.after = <<>> /\ Silence.object.text = <<>>
    BY DEF Silence, Nothing
  <2>2. <<>> \in Seq(STRING)
    OBVIOUS
  <2> QED
    BY <2>1, <2>2 DEF ReplyInit, ReadingFaithful, PartsShape
<1>2. faithful /\ [ReplyNext]_replyVars => faithful'
  BY ReadingStep
<1>3. faithful /\ ReplyTypeOK => (Straight(reply, written) => ReadAsMeant)
  <2> SUFFICES ASSUME faithful, ReplyTypeOK, Straight(reply, written), reading # Unread
               PROVE  ReadAsMeant
    BY DEF ReadAsMeant, NothingElseRead, AllIsRead
  <2>1. reading = ReadAs(reply.object.kind, Extracted(Text))
    BY DEF ReadingFaithful
  <2>2. Text = SubSeq(Whole(reply), 1, written)
    BY DEF Text
  <2>3. written \in 0..Len(Whole(reply))
    BY DEF ReplyTypeOK
  <2>4. /\ reading \subseteq reply.object.means
        /\ written = Len(Whole(reply)) => reading = reply.object.means
    BY <2>1, <2>2, <2>3, StraightRead DEF PartsShape
  <2> QED
    BY <2>4 DEF ReadAsMeant, NothingElseRead, AllIsRead
<1> HIDE DEF faithful
<1>4. ReplySpec => []faithful
  BY <1>1, <1>2, PTL DEF ReplySpec
<1> QED
  BY <1>3, <1>4, ReplyTyped, PTL
=============================================================================

-------------------------- MODULE Evaluation_proofs --------------------------
(***************************************************************************)
(* What the log proves to whoever verifies it, whoever wrote to it and     *)
(* whoever edited it; and that no attack on the cart gets past the gates,  *)
(* for every catalog, every scenario and every setting of the attacks.     *)
(***************************************************************************)
EXTENDS Evaluation, PolicyEngine_proofs, SequenceTheorems

-----------------------------------------------------------------------------
(* The log among the steps of the programs that use it. *)

LogNext ==
  \/ \E w \in Writers :
       Open(w) \/ Close(w) \/ \E x : AppendRecord(w, x) \/ AppendFails(w, x)
  \/ Edit

\* Whatever the programs do, the log sees one operation of an object, an edit
\* or nothing.
LEMMA LogSteps ==
  ASSUME [Next]_vars
  PROVE  [LogNext]_logVars
<1>1. CASE Beat
  <2>1. \E x : AppendRecord(DemoWriter, x)
    BY <1>1 DEF Beat
  <2>2. QED
    BY <2>1, EvaluationAssumption DEF LogNext
<1>2. CASE StartDemo \/ BeatFails \/ Interrupted \/ PrintSummary
  <2>1. Open(DemoWriter) \/ Close(DemoWriter) \/ \E x : AppendFails(DemoWriter, x)
    BY <1>2 DEF StartDemo, BeatFails, Interrupted, PrintSummary
  <2>2. QED
    BY <2>1, EvaluationAssumption DEF LogNext
<1>3. CASE OthersOnTheLog
  BY <1>3 DEF OthersOnTheLog, LogNext
<1>4. CASE RunSafety \/ RunRevenue \/ UNCHANGED vars
  BY <1>4 DEF RunSafety, RunRevenue, vars
<1>5. QED
  BY <1>1, <1>2, <1>3, <1>4 DEF Next

-----------------------------------------------------------------------------
(* Hashes. *)

\* A digest determines what was hashed, and is not the start of a chain.
LEMMA HashInjective ==
  ASSUME NEW p, NEW x, NEW q, NEW y, HashOf(p, x) = HashOf(q, y)
  PROVE  p = q /\ x = y
  BY DEF HashOf

LEMMA HashIsNotGenesis ==
  ASSUME NEW p, NEW x
  PROVE  HashOf(p, x) # Genesis
<1>1. HashOf(p, x)[1] = "sha256" /\ Genesis[1] = "genesis"
  BY DEF HashOf, Genesis
<1>2. QED
  BY <1>1

-----------------------------------------------------------------------------
(* The inductive invariant of the log. *)

Records == {appended[k] : k \in DOMAIN appended}

\* What a line of the file can be: a record that append was called to write,
\* the same with its content altered, or no JSON.
LogLines ==
  {Torn} \cup Records \cup {[r EXCEPT !.payload = Forged] : r \in Records}

\* The hash with which one of the first n records, or the chain, ends.
Known(h, n) == h = Genesis \/ \E j \in 1..n : h = appended[j].record_hash

\* Every record continues the chain of some earlier one.
EarlierFirst ==
  \A k \in DOMAIN appended :
    /\ appended[k] = Record(appended[k].prev_hash, appended[k].payload)
    /\ Known(appended[k].prev_hash, k - 1)

LogInv ==
  /\ appended \in Seq(Records)
  /\ EarlierFirst
  /\ prev = [w \in Writers |-> prev[w]]
  /\ \A w \in Writers : prev[w] = None \/ Known(prev[w], Len(appended))
  /\ file \in Seq(LogLines)
  /\ edits \in Nat /\ failures \in Nat

\* The last line's hash is one of a record, unless the line is torn.
LEMMA LastHashKnown ==
  ASSUME LogInv, ~HasTornLine(file)
  PROVE  Known(LastHash(file), Len(appended))
<1>1. CASE file = <<>>
  BY <1>1 DEF LastHash, Known
<1>2. CASE file # <<>>
  <2> DEFINE last == file[Len(file)]
  <2>1. Len(file) \in DOMAIN file /\ last \in LogLines
    BY <1>2, EmptySeq, LenProperties, ElementOfSeq DEF LogInv
  <2>2. ~last.torn /\ LastHash(file) = last.record_hash
    BY <1>2, <2>1 DEF HasTornLine, LastHash
  <2> HIDE DEF last
  <2>3. last # Torn
    BY <2>2 DEF Torn
  <2>4. PICK k \in DOMAIN appended :
          last = appended[k] \/ last = [appended[k] EXCEPT !.payload = Forged]
    BY <2>1, <2>3 DEF LogLines, Records
  <2>5. last.record_hash = appended[k].record_hash
    <3>1. appended[k] = Record(appended[k].prev_hash, appended[k].payload)
      BY DEF LogInv, EarlierFirst
    <3> DEFINE r == appended[k]
    <3>2. "record_hash" \in DOMAIN r
      BY <3>1 DEF Record
    <3> HIDE DEF r
    <3>3. [r EXCEPT !.payload = Forged].record_hash = r.record_hash
      BY <3>2
    <3>4. QED
      BY <3>3, <2>4 DEF r
  <2>6. k \in 1..Len(appended)
    BY LenProperties DEF LogInv
  <2>7. QED
    BY <2>2, <2>5, <2>6 DEF Known
<1>3. QED
  BY <1>1, <1>2

\* Writing a line adds it, or spoils the last one.
LEMMA WithLineKeepsLines ==
  ASSUME NEW S, NEW lines \in Seq(S), NEW x \in S, Torn \in S
  PROVE  WithLine(lines, x) \in Seq(S)
<1>1. CASE ended
  BY <1>1, AppendProperties DEF WithLine
<1>2. CASE ~ended /\ lines = <<>>
  <2>1. [<<>> EXCEPT ![Len(lines)] = Torn] = <<>>
    BY EmptySeq
  <2>2. QED
    BY <1>2, <2>1, EmptySeq DEF WithLine
<1>3. CASE ~ended /\ lines # <<>>
  <2>1. Len(lines) \in 1..Len(lines)
    BY <1>3, EmptySeq, LenProperties
  <2>2. QED
    BY <1>3, <2>1, ExceptSeq DEF WithLine
<1>4. QED
  BY <1>1, <1>2, <1>3

\* A call of append, whether it returns or not.
LEMMA AppendKeepsLog ==
  ASSUME LogInv, NEW w \in Writers, NEW x, AppendRecord(w, x) \/ AppendFails(w, x)
  PROVE  LogInv'
<1> DEFINE r == Record(prev[w], x)
           n == Len(appended)
<1>1. /\ prev[w] # None /\ Known(prev[w], n)
      /\ file' \in {file, WithLine(file, Torn), WithLine(file, r)}
      /\ appended' = Append(appended, r)
      /\ \/ prev' \in {prev, [prev EXCEPT ![w] = None]}
         \/ prev' = [prev EXCEPT ![w] = r.record_hash]
      /\ edits' \in Nat /\ failures' \in Nat
  <2>1. CASE AppendRecord(w, x)
    BY <2>1 DEF AppendRecord, LogInv
  <2>2. CASE AppendFails(w, x)
    BY <2>2 DEF AppendFails, LogInv
  <2>3. QED
    BY <2>1, <2>2
<1>2. n \in Nat /\ DOMAIN appended = 1..n
  BY LenProperties DEF LogInv
<1>3. /\ appended' \in Seq(Records \cup {r})
      /\ Len(appended') = n + 1 /\ DOMAIN appended' = 1..(n + 1)
      /\ \A k \in 1..n : appended'[k] = appended[k]
      /\ appended'[n + 1] = r
  <2>1. appended \in Seq(Records \cup {r})
    BY SeqMonotonic DEF LogInv
  <2> HIDE DEF r
  <2>2. appended' \in Seq(Records \cup {r}) /\ Len(appended') = n + 1
    BY <1>1, <2>1, AppendProperties
  <2>3. QED
    BY <1>1, <1>2, <2>1, <2>2, AppendProperties, LenProperties
<1>4. Records' = Records \cup {r}
  <2> HIDE DEF r, n
  <2>1. QED
    BY <1>2, <1>3 DEF Records
<1>5. ASSUME NEW h, NEW m \in 0..n, Known(h, m)
      PROVE  Known(h, m)'
  BY <1>2, <1>3, <1>5 DEF Known
<1>6. EarlierFirst'
  <2> SUFFICES ASSUME NEW k \in DOMAIN appended'
               PROVE  /\ appended'[k] = Record(appended'[k].prev_hash, appended'[k].payload)
                      /\ Known(appended[k].prev_hash, k - 1)'
    BY DEF EarlierFirst
  <2>1. CASE k \in 1..n
    <3>1. appended'[k] = appended[k] /\ k - 1 \in 0..n
      BY <1>2, <1>3, <2>1
    <3>2. /\ appended[k] = Record(appended[k].prev_hash, appended[k].payload)
          /\ Known(appended[k].prev_hash, k - 1)
      BY <1>2, <2>1 DEF LogInv, EarlierFirst
    <3>3. QED
      BY <1>5, <3>1, <3>2
  <2>2. CASE k = n + 1
    <3>1. appended'[k] = r /\ k - 1 = n /\ n \in 0..n
      BY <1>2, <1>3, <2>2
    <3>2. r = Record(r.prev_hash, r.payload) /\ r.prev_hash = prev[w]
      BY DEF Record
    <3> HIDE DEF r, n
    <3>3. QED
      BY <1>1, <1>5, <3>1, <3>2
  <2>3. QED
    BY <1>2, <1>3, <2>1, <2>2
<1>7. ASSUME NEW v \in Writers
      PROVE  prev'[v] = None \/ Known(prev[v], Len(appended))'
  <2>1. prev'[v] \in {prev[v], None, r.record_hash}
    BY <1>1 DEF LogInv
  <2>2. CASE prev'[v] = r.record_hash
    <3>1. \E j \in 1..(n + 1) : r.record_hash = appended'[j].record_hash
      BY <1>2, <1>3
    <3>2. QED
      BY <1>3, <2>2, <3>1 DEF Known
  <2>3. CASE prev'[v] = prev[v]
    <3>1. prev[v] = None \/ Known(prev[v], n)
      BY DEF LogInv
    <3>2. \A j \in 1..n : j \in 1..(n + 1)
      BY <1>2
    <3> HIDE DEF n
    <3>3. QED
      BY <1>3, <2>3, <3>1, <3>2 DEF Known
  <2>4. QED
    BY <2>1, <2>2, <2>3
<1>8. file' \in Seq(LogLines')
  <2>1. LogLines \subseteq LogLines' /\ r \in LogLines' /\ Torn \in LogLines'
    BY <1>4 DEF LogLines, Torn
  <2>2. file \in Seq(LogLines')
    BY <2>1, SeqMonotonic DEF LogInv
  <2>3. WithLine(file, Torn) \in Seq(LogLines') /\ WithLine(file, r) \in Seq(LogLines')
    <3> HIDE DEF r
    <3> DEFINE lines == LogLines'
    <3>1. file \in Seq(lines) /\ r \in lines /\ Torn \in lines
      BY <2>1, <2>2
    <3> HIDE DEF lines
    <3>2. WithLine(file, Torn) \in Seq(lines) /\ WithLine(file, r) \in Seq(lines)
      BY <3>1, WithLineKeepsLines
    <3>3. QED
      BY <3>2 DEF lines
  <2> HIDE DEF r
  <2>4. QED
    BY <1>1, <2>2, <2>3
<1>9. appended' \in Seq(Records')
  BY <1>3, <1>4
<1>10. prev' = [v \in Writers |-> prev'[v]]
  BY <1>1 DEF LogInv
<1>11. QED
  BY <1>1, <1>6, <1>7, <1>8, <1>9, <1>10 DEF LogInv

\* An edit removes, swaps or alters lines, and adds nothing else.
LEMMA EditKeepsLines ==
  ASSUME LogInv, Edit
  PROVE  file' \in Seq(LogLines)
<1>1. PICK i \in DOMAIN file :
        \/ file' = RemoveAt(file, i)
        \/ \E j \in DOMAIN file :
             i < j /\ file' = [file EXCEPT ![i] = file[j], ![j] = file[i]]
        \/ ~file[i].torn /\ file' = [file EXCEPT ![i].payload = Forged]
  BY DEF Edit
<1>2. /\ file \in Seq(LogLines) /\ Len(file) \in Nat /\ DOMAIN file = 1..Len(file)
      /\ \A j \in DOMAIN file : file[j] \in LogLines
  BY LenProperties, ElementOfSeq DEF LogInv
<1>3. CASE file' = RemoveAt(file, i)
  <2>1. SubSeq(file, 1, i - 1) \in Seq(LogLines)
    BY <1>2, SubSeqProperties
  <2>2. SubSeq(file, i + 1, Len(file)) \in Seq(LogLines)
    BY <1>2, SubSeqProperties
  <2>3. QED
    BY <1>3, <2>1, <2>2, ConcatProperties DEF RemoveAt
<1>4. CASE \E j \in DOMAIN file :
             i < j /\ file' = [file EXCEPT ![i] = file[j], ![j] = file[i]]
  <2>1. PICK j \in DOMAIN file : file' = [file EXCEPT ![i] = file[j], ![j] = file[i]]
    BY <1>4
  <2>2. [file EXCEPT ![i] = file[j]] \in Seq(LogLines)
    BY <1>2, ExceptSeq
  <2>3. QED
    BY <1>2, <2>1
<1>5. CASE ~file[i].torn /\ file' = [file EXCEPT ![i].payload = Forged]
  <2> DEFINE altered == [file[i] EXCEPT !.payload = Forged]
  <2>1. file[i] # Torn
    BY <1>5 DEF Torn
  <2>2. PICK k \in DOMAIN appended :
          file[i] = appended[k] \/ file[i] = [appended[k] EXCEPT !.payload = Forged]
    BY <1>2, <2>1 DEF LogLines, Records
  <2>3. altered = [appended[k] EXCEPT !.payload = Forged]
    BY <2>2
  <2>4. altered \in LogLines
    BY <2>3 DEF LogLines, Records
  <2>5. file' = [file EXCEPT ![i] = altered]
    BY <1>5
  <2> HIDE DEF altered
  <2>6. QED
    BY <1>2, <2>4, <2>5, ExceptSeq
<1>6. QED
  BY <1>1, <1>3, <1>4, <1>5

LEMMA NextLogInv ==
  ASSUME LogInv, [LogNext]_logVars
  PROVE  LogInv'
<1>1. ASSUME UNCHANGED appended
      PROVE  /\ UNCHANGED <<Records, LogLines>>
             /\ EarlierFirst' /\ appended' \in Seq(Records')
             /\ \A h, n : Known(h, n)' <=> Known(h, n)
  BY <1>1 DEF Records, LogLines, LogInv, EarlierFirst, Known
<1>2. ASSUME NEW w \in Writers, Open(w)
      PROVE  LogInv'
  <2>1. Known(LastHash(file), Len(appended))
    BY <1>2, LastHashKnown DEF Open
  <2>2. QED
    BY <1>1, <1>2, <2>1 DEF Open, LogInv, Known
<1>3. ASSUME NEW w \in Writers, NEW x, AppendRecord(w, x) \/ AppendFails(w, x)
      PROVE  LogInv'
  BY <1>3, AppendKeepsLog
<1>4. ASSUME NEW w \in Writers, Close(w)
      PROVE  LogInv'
  BY <1>1, <1>4 DEF Close, LogInv, Known
<1>5. CASE Edit
  <2>1. file' \in Seq(LogLines)
    BY <1>5, EditKeepsLines
  <2>2. UNCHANGED <<prev, appended, failures>> /\ edits' = edits + 1
    BY <1>5 DEF Edit
  <2>3. QED
    BY <1>1, <2>1, <2>2 DEF LogInv, Known
<1>6. CASE UNCHANGED logVars
  BY <1>1, <1>6 DEF logVars, LogInv, Known
<1>7. QED
  BY <1>2, <1>3, <1>4, <1>5, <1>6 DEF LogNext

LEMMA InitLogInv == LogInit => LogInv
<1> SUFFICES ASSUME LogInit PROVE LogInv
  OBVIOUS
<1>1. file = <<>> /\ appended = <<>> /\ prev = [w \in Writers |-> None]
  BY DEF LogInit
<1>2. file \in Seq(LogLines) /\ appended \in Seq(Records) /\ DOMAIN appended = {}
  BY <1>1, EmptySeq
<1>3. QED
  BY <1>1, <1>2 DEF LogInit, LogInv, EarlierFirst

LEMMA LogInvariance == Spec => []LogInv
<1>1. Init => LogInv
  BY InitLogInv DEF Init
<1>2. LogInv /\ [Next]_vars => LogInv'
  BY LogSteps, NextLogInv
<1>3. QED
  BY <1>1, <1>2, PTL DEF Spec

-----------------------------------------------------------------------------
(* What a log that verifies holds. *)

LEMMA IntactLines ==
  ASSUME VerifyLog(file).intact
  PROVE  \A i \in DOMAIN file : ~file[i].torn /\ Chained(file, i)
<1>1. BadLines(file) = {}
  BY DEF VerifyLog
<1>2. QED
  BY <1>1 DEF BadLines

\* A line whose content has the hash it records was appended as it stands.
LEMMA IntactLineWasAppended ==
  ASSUME LogInv, VerifyLog(file).intact, NEW i \in DOMAIN file
  PROVE  \E k \in DOMAIN appended : file[i] = appended[k]
<1>1. /\ file[i] \in LogLines /\ ~file[i].torn
      /\ file[i].record_hash = HashOf(file[i].prev_hash, file[i].payload)
  BY IntactLines, ElementOfSeq, LenProperties DEF LogInv, Chained
<1>2. file[i] # Torn
  BY <1>1 DEF Torn
<1>3. PICK k \in DOMAIN appended :
        file[i] = appended[k] \/ file[i] = [appended[k] EXCEPT !.payload = Forged]
  BY <1>1, <1>2 DEF LogLines, Records
<1>4. CASE file[i] = [appended[k] EXCEPT !.payload = Forged]
  <2> DEFINE r == appended[k]
             altered == [r EXCEPT !.payload = Forged]
  <2>1. r = Record(r.prev_hash, r.payload)
    BY DEF LogInv, EarlierFirst
  <2>2. /\ r.record_hash = HashOf(r.prev_hash, r.payload)
        /\ altered.record_hash = r.record_hash /\ altered.prev_hash = r.prev_hash
        /\ altered.payload = Forged
    <3> HIDE DEF r
    <3>1. QED
      BY <2>1 DEF Record
  <2>3. r.payload = Forged
    BY <1>1, <1>4, <2>2, HashInjective
  <2>4. altered = r
    <3> HIDE DEF r
    <3>1. QED
      BY <2>1, <2>3 DEF Record
  <2>5. QED
    BY <1>4, <2>4
<1>5. QED
  BY <1>3, <1>4

\* Written is the first of the places at which a record was appended.
LEMMA FirstPlace ==
  ASSUME LogInv, NEW r, \E k \in DOMAIN appended : appended[k] = r
  PROVE  /\ Written(r) \in DOMAIN appended /\ appended[Written(r)] = r
         /\ \A k \in DOMAIN appended : appended[k] = r => Written(r) <= k
<1> DEFINE places == {k \in DOMAIN appended : appended[k] = r}
<1>1. places # {} /\ places \subseteq Nat
  BY LenProperties DEF LogInv
<1>2. \E m \in places : \A n \in places : m <= n
  <2> HIDE DEF places
  <2>1. QED
    BY <1>1, LeastNat
<1>3. /\ Min(places) \in places
      /\ \A n \in places : Min(places) <= n
  <2> HIDE DEF places
  <2>1. QED
    BY <1>2 DEF Min
<1>4. Written(r) = Min(places)
  BY <1>1 DEF Written
<1>5. QED
  BY <1>3, <1>4

\* A line continues a record, and the first place of that record comes before
\* every place of the line.
LEMMA NextLineIsLater ==
  ASSUME LogInv, VerifyLog(file).intact, NEW i, i \in DOMAIN file, i + 1 \in DOMAIN file
  PROVE  Written(file[i]) < Written(file[i + 1])
<1>1. DOMAIN file \subseteq Nat /\ DOMAIN appended \subseteq Nat
  BY LenProperties DEF LogInv
<1> DEFINE r == file[i]
           s == file[i + 1]
           k == Written(s)
<1>2. /\ k \in DOMAIN appended /\ appended[k] = s
      /\ \E j \in DOMAIN appended : appended[j] = r
  BY IntactLineWasAppended, FirstPlace
<1>3. s.prev_hash = r.record_hash
  <2>1. i + 1 # 1 /\ (i + 1) - 1 = i
    BY LenProperties DEF LogInv
  <2>2. Chained(file, i + 1)
    BY IntactLines
  <2>3. QED
    BY <2>1, <2>2 DEF Chained
<1>4. r = Record(r.prev_hash, r.payload) /\ Known(s.prev_hash, k - 1)
  BY <1>2 DEF LogInv, EarlierFirst
<1> HIDE DEF r, s
<1>5. r.record_hash # Genesis
  <2>1. r.record_hash = HashOf(r.prev_hash, r.payload)
    BY <1>4 DEF Record
  <2>2. QED
    BY <2>1, HashIsNotGenesis
<1> HIDE DEF k
<1>6. PICK j \in 1..(k - 1) : appended[j].record_hash = r.record_hash
  BY <1>3, <1>4, <1>5 DEF Known
<1>7. j \in DOMAIN appended /\ j < k
  <2>1. DOMAIN appended = 1..Len(appended) /\ Len(appended) \in Nat
    BY LenProperties DEF LogInv
  <2>2. QED
    BY <2>1, <1>2
<1>8. appended[j] = r
  <2> DEFINE t == appended[j]
  <2>1. t = Record(t.prev_hash, t.payload)
    BY <1>7 DEF LogInv, EarlierFirst
  <2>2. t.record_hash = r.record_hash
    BY <1>6
  <2> HIDE DEF t
  <2>3. HashOf(t.prev_hash, t.payload) = HashOf(r.prev_hash, r.payload)
    BY <1>4, <2>1, <2>2 DEF Record
  <2>4. t = r
    BY <1>4, <2>1, <2>3, HashInjective
  <2>5. QED
    BY <2>4 DEF t
<1>9. Written(r) \in DOMAIN appended /\ Written(r) <= j
  BY <1>2, <1>7, <1>8, FirstPlace
<1>10. QED
  BY <1>1, <1>2, <1>7, <1>9 DEF r, s, k

LEMMA LaterLineIsLater ==
  ASSUME LogInv, VerifyLog(file).intact, NEW i \in DOMAIN file, NEW j \in DOMAIN file,
         i < j
  PROVE  Written(file[i]) < Written(file[j])
<1> DEFINE n == Len(file)
           Late(m) == Written(file[i]) < Written(file[m])
           Bad == {m \in (i + 1)..n : ~Late(m)}
<1>1. n \in Nat /\ DOMAIN file = 1..n /\ i \in Nat
  BY LenProperties DEF LogInv
<1>2. \A m \in DOMAIN file : Written(file[m]) \in Nat
  <2>1. DOMAIN appended \subseteq Nat
    BY LenProperties DEF LogInv
  <2>2. QED
    BY <2>1, IntactLineWasAppended, FirstPlace
<1>3. SUFFICES ASSUME Bad # {} PROVE FALSE
  BY <1>1
<1>4. PICK m \in Bad : \A l \in Bad : m <= l
  <2>1. Bad \subseteq Nat
    BY <1>1
  <2> HIDE DEF Bad
  <2>2. QED
    BY <1>3, <2>1, LeastNat
<1>5. m - 1 \in DOMAIN file /\ (m - 1) + 1 = m /\ m \in DOMAIN file
  BY <1>1, <1>4
<1>6. Written(file[m - 1]) < Written(file[m])
  BY <1>5, NextLineIsLater
<1>7. CASE m = i + 1
  <2>1. m - 1 = i
    BY <1>1, <1>7
  <2>2. Late(m)
    BY <1>6, <2>1
  <2>3. QED
    BY <2>2
<1>8. CASE m # i + 1
  <2>1. m - 1 \in (i + 1)..n /\ ~(m <= m - 1)
    BY <1>1, <1>4, <1>8
  <2>2. Late(m - 1)
    BY <1>4, <2>1
  <2>3. Late(m)
    BY <1>2, <1>5, <1>6, <2>2
  <2>4. QED
    BY <2>3
<1>9. QED
  BY <1>7, <1>8

\* verify_log vouches for what it accepts: in a log that verifies every line
\* is a record that append was called to write, and they stand in the order of
\* the calls, whoever else wrote to the file, was cut off while writing or
\* edited it.
THEOREM IntactLogIsAuthentic == Spec => []IntactMeansAuthentic
<1>1. LogInv => IntactMeansAuthentic
  <2> SUFFICES ASSUME LogInv, VerifyLog(file).intact
               PROVE  /\ \A i \in DOMAIN file : Written(file[i]) # 0
                      /\ \A i, j \in DOMAIN file :
                           i < j => Written(file[i]) < Written(file[j])
    BY DEF IntactMeansAuthentic
  <2>1. ASSUME NEW i \in DOMAIN file PROVE Written(file[i]) # 0
    <3>1. Written(file[i]) \in DOMAIN appended
      BY IntactLineWasAppended, FirstPlace
    <3>2. QED
      BY <3>1, LenProperties DEF LogInv
  <2>2. QED
    BY <2>1, LaterLineIsLater
<1>2. QED
  BY <1>1, LogInvariance, PTL

\* The code's comments promise that the chain shows every deletion.  It does
\* not show one at the end: whatever a file holds, if it verifies then so does
\* each of its prefixes, the empty one included.
THEOREM IntactPrefix ==
  ASSUME NEW S, NEW lines \in Seq(S), VerifyLog(lines).intact, NEW n \in 0..Len(lines)
  PROVE  VerifyLog(SubSeq(lines, 1, n)).intact
<1> DEFINE prefix == SubSeq(lines, 1, n)
<1>1. \A i \in DOMAIN lines : ~lines[i].torn /\ Chained(lines, i)
  BY DEF VerifyLog, BadLines
<1>2. /\ DOMAIN lines = 1..Len(lines) /\ Len(lines) \in Nat
      /\ DOMAIN prefix = 1..n
      /\ \A i \in 1..n : prefix[i] = lines[i]
  BY LenProperties, SubSeqProperties
<1> HIDE DEF prefix
<1>3. ASSUME NEW i \in DOMAIN prefix
      PROVE  ~prefix[i].torn /\ Chained(prefix, i)
  <2>1. i \in DOMAIN lines /\ prefix[i] = lines[i]
        /\ (i = 1 \/ prefix[i - 1] = lines[i - 1])
    BY <1>2
  <2>2. QED
    BY <1>1, <2>1 DEF Chained
<1>4. BadLines(prefix) = {}
  BY <1>3 DEF BadLines
<1>5. QED
  BY <1>4 DEF VerifyLog, prefix

-----------------------------------------------------------------------------
(* The log of honest writers. *)

\* As long as one object at a time writes, whole lines and nothing else: the
\* file is what was appended, it is one chain, and whoever has it open holds
\* the hash of its last record.
HonestInv ==
  ~shared /\ failures = 0 /\ edits = 0 =>
    /\ file = appended /\ ended
    /\ \A k \in DOMAIN appended : Chained(appended, k)
    /\ \A w \in Writers : prev[w] # None => prev[w] = LastHash(file)
    /\ \A v, w \in Writers : prev[v] # None /\ prev[w] # None => v = w

LEMMA NoTornRecord ==
  ASSUME LogInv
  PROVE  ~HasTornLine(appended)
<1>1. \A k \in DOMAIN appended :
        appended[k] = Record(appended[k].prev_hash, appended[k].payload)
  BY DEF LogInv, EarlierFirst
<1>2. \A h, x : ~Record(h, x).torn
  BY DEF Record
<1>3. \A k \in DOMAIN appended : ~appended[k].torn
  BY <1>1, <1>2
<1>4. QED
  BY <1>3 DEF HasTornLine

LEMMA AppendRecordKeepsHonest ==
  ASSUME LogInv, HonestInv, NEW w \in Writers, NEW x, AppendRecord(w, x)
  PROVE  HonestInv'
<1> DEFINE r == Record(prev[w], x)
           n == Len(appended)
<1> SUFFICES ASSUME ~shared, failures = 0, edits = 0
             PROVE  /\ file' = appended' /\ ended'
                    /\ \A k \in DOMAIN appended' : Chained(appended', k)
                    /\ \A v \in Writers : prev'[v] # None => prev'[v] = LastHash(file')
                    /\ \A u, v \in Writers :
                         prev'[u] # None /\ prev'[v] # None => u = v
  BY DEF HonestInv, AppendRecord
<1>1. /\ file = appended /\ prev[w] # None /\ prev[w] = LastHash(appended)
      /\ \A k \in DOMAIN appended : Chained(appended, k)
      /\ \A v \in Writers : prev[v] # None => v = w
      /\ appended' = Append(appended, r)
      /\ prev' = [prev EXCEPT ![w] = r.record_hash]
  BY DEF HonestInv, AppendRecord
<1>2. file' = appended' /\ ended'
  BY <1>1 DEF AppendRecord, HonestInv, WithLine
<1>3. n \in Nat /\ DOMAIN appended = 1..n
  BY LenProperties DEF LogInv
<1>4. /\ Len(appended') = n + 1 /\ DOMAIN appended' = 1..(n + 1)
      /\ \A k \in 1..n : appended'[k] = appended[k]
      /\ appended'[n + 1] = r
  <2>1. appended \in Seq(Records \cup {r})
    BY SeqMonotonic DEF LogInv
  <2> HIDE DEF r
  <2>2. appended' \in Seq(Records \cup {r}) /\ Len(appended') = n + 1
    BY <1>1, <2>1, AppendProperties
  <2>3. QED
    BY <1>1, <1>3, <2>1, <2>2, AppendProperties, LenProperties
<1>5. /\ r.prev_hash = prev[w] /\ r.record_hash = HashOf(r.prev_hash, r.payload)
  BY DEF Record
<1>6. LastHash(appended) = IF n = 0 THEN Genesis ELSE appended[n].record_hash
  BY <1>3, EmptySeq DEF LogInv, LastHash
<1>7. LastHash(appended') = r.record_hash
  <2>1. appended' # <<>>
    BY <1>3, <1>4
  <2>2. QED
    BY <1>4, <2>1 DEF LastHash
<1> HIDE DEF r, n
<1>8. ASSUME NEW k \in DOMAIN appended'
      PROVE  Chained(appended', k)
  <2>1. CASE k = n + 1
    <3>1. n = 0 \/ (n \in 1..n /\ appended'[n] = appended[n])
      BY <1>3, <1>4
    <3>2. QED
      BY <1>1, <1>3, <1>4, <1>5, <1>6, <2>1, <3>1 DEF Chained
  <2>2. CASE k \in 1..n
    <3>1. appended'[k] = appended[k] /\ (k = 1 \/ appended'[k - 1] = appended[k - 1])
      BY <1>3, <1>4, <2>2
    <3>2. QED
      BY <1>1, <1>3, <2>2, <3>1 DEF Chained
  <2>3. QED
    BY <1>3, <1>4, <2>1, <2>2
<1>9. \A v \in Writers : prev'[v] # None => v = w
  BY <1>1 DEF LogInv
<1>10. prev'[w] = r.record_hash
  BY <1>1 DEF LogInv
<1>11. QED
  BY <1>2, <1>7, <1>8, <1>9, <1>10

LEMMA NextHonestInv ==
  ASSUME LogInv, HonestInv, [LogNext]_logVars
  PROVE  HonestInv'
<1>1. ASSUME NEW w \in Writers, Open(w)
      PROVE  HonestInv'
  <2>1. ASSUME ~shared'
        PROVE  ~shared /\ \A v \in Writers : prev[v] = None
    BY <1>1, <2>1 DEF Open, OpenWriters
  <2>2. /\ prev'[w] = LastHash(file) /\ \A v \in Writers \ {w} : prev'[v] = prev[v]
        /\ UNCHANGED <<file, ended, appended, edits, failures>>
    BY <1>1 DEF Open, LogInv
  <2>3. QED
    BY <2>1, <2>2 DEF HonestInv, Chained, LastHash
<1>2. ASSUME NEW w \in Writers, Close(w)
      PROVE  HonestInv'
  <2>1. \A v \in Writers : prev'[v] = None \/ prev'[v] = prev[v]
    BY <1>2 DEF Close, LogInv
  <2>2. QED
    BY <1>2, <2>1 DEF Close, HonestInv, Chained, LastHash
<1>3. ASSUME NEW w \in Writers, NEW x, AppendFails(w, x)
      PROVE  HonestInv'
  BY <1>3 DEF AppendFails, HonestInv, LogInv
<1>4. CASE Edit
  BY <1>4 DEF Edit, HonestInv, LogInv
<1>5. CASE UNCHANGED logVars
  BY <1>5 DEF logVars, HonestInv, Chained, LastHash
<1>6. QED
  BY <1>1, <1>2, <1>3, <1>4, <1>5, AppendRecordKeepsHonest DEF LogNext

\* The buyer is not accused of tampering with its own log: objects that follow
\* one another on a file that nobody edits and no write of which was cut off
\* leave one intact chain, of exactly the records they appended.
THEOREM HonestLogVerifies == Spec => []HonestLogIntact
<1>1. Init => HonestInv
  BY DEF Init, LogInit, HonestInv
<1>2. LogInv /\ HonestInv /\ [Next]_vars => HonestInv'
  BY LogSteps, NextHonestInv
<1>3. LogInv /\ HonestInv => HonestLogIntact
  <2> SUFFICES ASSUME LogInv, HonestInv, ~shared, failures = 0, edits = 0
               PROVE  VerifyLog(file) = [intact |-> TRUE, record_count |-> Len(appended),
                                         raises |-> FALSE]
    BY DEF HonestLogIntact
  <2>1. file = appended /\ \A k \in DOMAIN appended : Chained(appended, k)
    BY DEF HonestInv
  <2>2. BadLines(file) = {}
    BY <2>1, NoTornRecord DEF BadLines, HasTornLine
  <2>3. QED
    BY <2>1, <2>2 DEF VerifyLog
<1>4. QED
  BY <1>1, <1>2, <1>3, LogInvariance, PTL DEF Spec

-----------------------------------------------------------------------------
(* The attacks. *)

\* A response with a cart whose lines can be numbered.
HasCart(response) ==
  LET cart == response.cart_envelope.payload
  IN  /\ "cart_envelope" \in DOMAIN response
      /\ "lines" \in DOMAIN cart
      /\ \E n \in Nat \ {0} : DOMAIN cart.lines = 1..n

\* A cart signed again has the lines it was given.
LEMMA ResignedLines ==
  ASSUME NEW cart, NEW lines, "lines" \in DOMAIN cart
  PROVE  /\ Resigned(cart, lines).payload.lines = lines
         /\ "lines" \in DOMAIN Resigned(cart, lines).payload
  BY DEF Resigned, SignMandate

\* Drivers answer with carts.
LEMMA HonestHasCart ==
  ASSUME NEW intent, NEW upsell_mode, NEW now, MatchingItems(intent) # {}
  PROVE  HasCart(HonestResponse(intent, upsell_mode, now))
<1> DEFINE line == ProposedLine(intent, upsell_mode = "off")
           response == HonestResponse(intent, upsell_mode, now)
<1>1. /\ response.cart_envelope = SignedCart(line, intent, now, 1)
      /\ "cart_envelope" \in DOMAIN response
  BY DEF HonestResponse, Proposal
<1> HIDE DEF line, response
<1>2. /\ "lines" \in DOMAIN response.cart_envelope.payload
      /\ response.cart_envelope.payload.lines = <<line>>
  BY <1>1 DEF SignedCart, SignMandate
<1>3. \E n \in Nat \ {0} : DOMAIN <<line>> = 1..n
  <2>1. DOMAIN <<line>> = 1..1
    OBVIOUS
  <2>2. QED
    BY <2>1
<1>4. HasCart(response)
  BY <1>1, <1>2, <1>3 DEF HasCart
<1>5. QED
  BY <1>4 DEF response

LEMMA ManualHasCart ==
  ASSUME NEW mechanism \in CustomMechanisms, NEW intent, NEW now
  PROVE  HasCart(ManualResponse(mechanism, intent, now))
<1> DEFINE cart == SignedCart(ItemLine(FirstItem, FALSE), intent, now, 1).payload
           lines == MechanismLines(mechanism)
           response == ManualResponse(mechanism, intent, now)
<1>1. "lines" \in DOMAIN cart
  BY DEF SignedCart, SignMandate
<1>2. \E n \in Nat \ {0} : DOMAIN lines = 1..n
  <2>1. \E x, y : lines = <<x>> \/ lines = <<x, y>>
    <3> DEFINE line == [ItemLine(FirstItem, FALSE) EXCEPT !.attributes = {}]
               many == [line EXCEPT !.quantity = OverCapQuantity]
               other == [line EXCEPT !.sku = SubstituteSku, !.is_substitute = TRUE,
                                     !.unit_price_paise = SubstitutePrice]
    <3>1. \/ mechanism = "quantity_over_cap" /\ lines = <<many>>
          \/ mechanism = "duplicate_sku" /\ lines = <<line, line>>
          \/ mechanism = "substitute_offered" /\ lines = <<other>>
      <4>1. CASE mechanism = "quantity_over_cap"
        BY <4>1 DEF MechanismLines
      <4>2. CASE mechanism = "duplicate_sku"
        BY <4>2 DEF MechanismLines
      <4>3. CASE mechanism = "substitute_offered"
        BY <4>3 DEF MechanismLines
      <4>4. QED
        BY <4>1, <4>2, <4>3 DEF CustomMechanisms
    <3> HIDE DEF lines, line, many, other
    <3>2. QED
      BY <3>1
  <2> HIDE DEF lines
  <2>2. PICK x, y : lines = <<x>> \/ lines = <<x, y>>
    BY <2>1
  <2>3. CASE lines = <<x>>
    <3>1. DOMAIN lines = 1..1
      BY <2>3
    <3>2. QED
      BY <3>1
  <2>4. CASE lines = <<x, y>>
    <3>1. DOMAIN lines = 1..2
      BY <2>4
    <3>2. QED
      BY <3>1
  <2>5. QED
    BY <2>2, <2>3, <2>4
<1>3. /\ response.cart_envelope = Resigned(cart, lines)
      /\ "cart_envelope" \in DOMAIN response
  BY DEF ManualResponse
<1> HIDE DEF cart, lines, response
<1>4. QED
  BY <1>1, <1>2, <1>3, ResignedLines DEF HasCart, response

\* An attack leaves a cart with as many lines.
LEMMA AttackedHasCart ==
  ASSUME NEW attack \in Attacks, NEW response, NEW budget, HasCart(response)
  PROVE  HasCart(Attacked(attack, response, budget))
<1>1. ASSUME NEW price, NEW quantity
      PROVE  HasCart(WithPrimary(response, price, quantity))
  <2> DEFINE cart == response.cart_envelope.payload
             i == PrimaryLineIndex(cart)
             lines == [cart.lines EXCEPT ![i].unit_price_paise = price,
                                         ![i].quantity = quantity]
             attacked == [response EXCEPT !.cart_envelope = Resigned(cart, lines)]
  <2>1. CASE NonUpsell(cart) = {}
    BY <2>1 DEF WithPrimary
  <2>2. CASE NonUpsell(cart) # {}
    <3>1. WithPrimary(response, price, quantity) = attacked
      BY <2>2 DEF WithPrimary
    <3>2. DOMAIN lines = DOMAIN cart.lines
      OBVIOUS
    <3>3. /\ attacked.cart_envelope = Resigned(cart, lines)
          /\ "cart_envelope" \in DOMAIN attacked
      BY DEF HasCart
    <3>4. /\ "lines" \in DOMAIN cart
          /\ \E n \in Nat \ {0} : DOMAIN cart.lines = 1..n
      BY DEF HasCart
    <3> HIDE DEF cart, lines, attacked
    <3>5. HasCart(attacked)
      BY <3>2, <3>3, <3>4, ResignedLines DEF HasCart
    <3>6. QED
      BY <3>1, <3>5
  <2>3. QED
    BY <2>1, <2>2
<1>2. HasCart(Whispered(response))
  BY DEF Whispered, HasCart
<1>3. QED
  BY <1>1, <1>2
     DEF Attacks, Attacked, PriceSwapped, QuantityInflated, Overcharged

\* The line that is scored is one of the cart.
LEMMA ScoredLineOfCart ==
  ASSUME NEW cart, \E n \in Nat \ {0} : DOMAIN cart.lines = 1..n
  PROVE  ScoredLine(cart) \in LinesOf(cart)
<1>1. CASE NonUpsell(cart) = {}
  BY <1>1 DEF ScoredLine, LinesOf
<1>2. CASE NonUpsell(cart) # {}
  <2>1. NonUpsell(cart) \subseteq Nat
    BY DEF NonUpsell
  <2>2. \E m \in NonUpsell(cart) : \A n \in NonUpsell(cart) : m <= n
    BY <1>2, <2>1, LeastNat
  <2>3. PrimaryLineIndex(cart) \in NonUpsell(cart)
    BY <2>2 DEF PrimaryLineIndex, Min
  <2>4. QED
    BY <1>2, <2>3 DEF ScoredLine, LinesOf, NonUpsell
<1>3. QED
  BY <1>1, <1>2

\* What the gates approve is no success of an attack on the cart: each goal is
\* the negation of a gate, over the budget, the quantity and the catalog.
LEMMA GatesDenyGoals ==
  ASSUME NEW attack \in TamperingAttacks, NEW intent, NEW response, NEW mechanism,
         NEW require, NEW now, NEW outcome, NEW policy, HasCart(response),
         outcome = "APPROVED" =>
           Evaluate(intent, response.cart_envelope.payload, policy,
                    ContextOf(intent, response, mechanism, require), now).outcome
             = "APPROVED"
  PROVE  ~Goal(attack, RunRecord(intent, response, mechanism, outcome))
<1> DEFINE cart == response.cart_envelope.payload
           context == ContextOf(intent, response, mechanism, require)
           line == ScoredLine(cart)
           published == PublishedEntries(mechanism)
           run == RunRecord(intent, response, mechanism, outcome)
<1> SUFFICES ASSUME outcome = "APPROVED" PROVE ~Goal(attack, run)
  BY DEF Goal, RunRecord
<1>1. /\ WithinBudget(intent, cart) /\ WithinQuantityCap(intent, cart)
      /\ CatalogPricesHonoured(cart, context)
  <2> HIDE DEF context, cart
  <2>1. Evaluate(intent, cart, policy, context, now).outcome # "REJECTED"
    BY DEF context, cart
  <2>2. QED
    BY <2>1, NotRejectedMeans
<1>2. line \in LinesOf(cart)
  BY ScoredLineOfCart DEF HasCart
<1>3. context.merchant_catalog.entries = published
  BY DEF ContextOf
<1> HIDE DEF context, cart, line
<1>4. /\ cart.total_paise <= intent.total_paise
      /\ line.quantity <= intent.max_quantity
      /\ line.sku \in DOMAIN published =>
           line.unit_price_paise <= published[line.sku].price_paise
  BY <1>1, <1>2, <1>3
     DEF WithinBudget, WithinQuantityCap, CatalogPricesHonoured, Published
<1> HIDE DEF published
<1>5. /\ run.order_amount_paise = cart.total_paise
      /\ run.budget_total_paise = intent.total_paise
      /\ run.order_quantity = line.quantity
      /\ run.requested_quantity = intent.max_quantity
      /\ run.charged_unit_price_paise = line.unit_price_paise
      /\ run.published_unit_price_paise =
           IF line.sku \in DOMAIN published THEN published[line.sku].price_paise ELSE None
  BY DEF RunRecord, cart, line, published
<1> HIDE DEF run
<1>6. QED
  BY <1>4, <1>5 DEF Goal, Exceeds, TamperingAttacks

\* A run of the harness with the engine on.
LEMMA DefendedRun ==
  ASSUME NEW scenario, NEW attack \in TamperingAttacks, NEW config, config # "C1",
         NEW upsell_mode, NEW now
  PROVE  ~RunInstance(scenario, attack, config, upsell_mode, now).attack_succeeded
<1> DEFINE mechanism == scenario.mechanism
           intent == GroundTruthIntent(scenario, now)
           honest == IF mechanism \in CustomMechanisms
                     THEN ManualResponse(mechanism, intent, now)
                     ELSE HonestResponse(intent, upsell_mode, now)
           response == Attacked(attack, honest, intent.total_paise)
           outcome == IF response = None THEN "REJECTED"
                      ELSE Decide(config, intent, response, mechanism, now)
<1>1. RunInstance(scenario, attack, config, upsell_mode, now).attack_succeeded
        <=> /\ attack # "A0_none" /\ response # None
            /\ Goal(attack, RunRecord(intent, response, mechanism, outcome))
  BY DEF RunInstance
<1>2. SUFFICES ASSUME response # None
               PROVE  ~Goal(attack, RunRecord(intent, response, mechanism, outcome))
  BY <1>1
<1>3. honest # None
  BY <1>2 DEF Attacked
<1>4. HasCart(honest)
  <2>1. CASE mechanism \in CustomMechanisms
    BY <2>1, ManualHasCart
  <2>2. CASE mechanism \notin CustomMechanisms
    <3>1. MatchingItems(intent) # {}
      BY <1>3, <2>2 DEF HonestResponse
    <3>2. HasCart(HonestResponse(intent, upsell_mode, now))
      <4> HIDE DEF intent
      <4>1. QED
        BY <3>1, HonestHasCart
    <3>3. QED
      BY <2>2, <3>2
  <2>3. QED
    BY <2>1, <2>2
<1>5. HasCart(response)
  <2>1. attack \in Attacks
    BY DEF TamperingAttacks, Attacks
  <2> HIDE DEF honest, intent
  <2>2. QED
    BY <1>4, <2>1, AttackedHasCart
<1>6. outcome = Decide(config, intent, response, mechanism, now)
  BY <1>2
<1> HIDE DEF response, intent, mechanism, outcome
<1> PICK policy : policy = PermissivePolicy(1000)
  OBVIOUS
<1>7. outcome = Evaluate(intent, response.cart_envelope.payload, policy,
                         ContextOf(intent, response, mechanism, config = "C4"), now).outcome
  BY <1>6 DEF Decide
<1> PICK require : require = (config = "C4")
  OBVIOUS
<1>8. outcome = "APPROVED" =>
        Evaluate(intent, response.cart_envelope.payload, policy,
                 ContextOf(intent, response, mechanism, require), now).outcome = "APPROVED"
  BY <1>7
<1> HIDE DEF honest, mechanism
<1>9. QED
  BY <1>5, <1>8, GatesDenyGoals

\* The defended arms of the ablation matrix show no successful attack on a cart,
\* for any scenario, catalog, multiplier and headroom: run_safety_arm's zeros
\* are a property of the gates.
THEOREM NoAttackOnACartSucceeds == Spec => []DefenceHolds
<1>1. Init => DefenceHolds
  BY DEF Init, DefenceHolds
<1>2. DefenceHolds /\ [Next]_vars => DefenceHolds'
  <2> SUFFICES ASSUME DefenceHolds, [Next]_vars PROVE DefenceHolds'
    OBVIOUS
  <2>1. ASSUME NEW scenario, NEW attack, NEW config, NEW upsell_mode,
               instance' = RunInstance(scenario, attack, config, upsell_mode, Now)
        PROVE  DefenceHolds'
    <3>1. /\ instance'.attack = attack /\ instance'.config = config
      BY <2>1 DEF RunInstance
    <3>2. QED
      BY <2>1, <3>1, DefendedRun DEF DefenceHolds
  <2>2. CASE RunSafety \/ RunRevenue
    BY <2>1, <2>2 DEF RunSafety, RunRevenue
  <2>3. CASE StartDemo
    BY <2>3 DEF StartDemo, DefenceHolds
  <2>4. CASE Beat \/ BeatFails \/ Interrupted \/ PrintSummary \/ OthersOnTheLog \/ UNCHANGED vars
    BY <2>4 DEF Beat, BeatFails, Interrupted, PrintSummary, OthersOnTheLog, vars, DefenceHolds
  <2>5. QED
    BY <2>2, <2>3, <2>4 DEF Next
<1>3. QED
  BY <1>1, <1>2, PTL DEF Spec

-----------------------------------------------------------------------------
(* The scripted demo. *)

\* The first item of the catalog answers the demo's intent.
LEMMA DemoFindsAnItem == HasCart(HonestResponse(DemoIntent, "off", Now))
<1>1. /\ DemoIntent.category = Catalog[FirstItem].category
      /\ DemoIntent.required_attributes = {} /\ DemoIntent.excluded_categories = {}
  BY DEF DemoIntent, GroundTruthIntent
<1>2. FirstItem \in MatchingItems(DemoIntent)
  BY <1>1, RedTeamAssumption DEF MatchingItems, Satisfies
<1>3. QED
  BY <1>2, HonestHasCart

LEMMA BeatsBlock ==
  ASSUME NEW attack \in TamperingAttacks \cup {"A3_branded_whisper"}
  PROVE  Blocked(attack)
<1> DEFINE honest == HonestResponse(DemoIntent, "off", Now)
           response == Attacked(attack, honest, DemoBudget)
<1>1. HasCart(honest) /\ HasCart(response)
  <2>1. attack \in Attacks
    BY DEF TamperingAttacks, Attacks
  <2> HIDE DEF honest
  <2>2. QED
    BY <2>1, DemoFindsAnItem, AttackedHasCart DEF honest
<1> HIDE DEF honest
<1>2. BeatDecision(attack) =
        Evaluate(DemoIntent, response.cart_envelope.payload, PermissivePolicy(100),
                 ContextOf(DemoIntent, response, None, FALSE), Now)
  BY DEF BeatDecision, honest
<1>3. CASE attack \in TamperingAttacks
  <2> HIDE DEF response
  <2>1. ~Goal(attack, RunRecord(DemoIntent, response, None, BeatDecision(attack).outcome))
    BY <1>1, <1>2, <1>3, GatesDenyGoals
  <2>2. QED
    BY <2>1 DEF Blocked, response, honest
<1>4. CASE attack = "A3_branded_whisper"
  <2>1. response.cart_envelope = honest.cart_envelope
    BY <1>1, <1>4 DEF Attacked, Whispered, HasCart
  <2>2. BeatDecision("A0_none") =
          Evaluate(DemoIntent, honest.cart_envelope.payload, PermissivePolicy(100),
                   ContextOf(DemoIntent, honest, None, FALSE), Now)
    <3>1. Attacked("A0_none", honest, DemoBudget) = honest
      BY DEF Attacked
    <3>2. QED
      BY <3>1 DEF BeatDecision, honest
  <2> HIDE DEF response
  <2>3. BeatDecision("A0_none") = BeatDecision(attack)
    BY <1>2, <2>1, <2>2 DEF ContextOf
  <2>4. BeatDecision(attack).outcome # "APPROVED" =>
          ~Goal(attack, RunRecord(DemoIntent, response, None, BeatDecision(attack).outcome))
    BY DEF Goal, RunRecord
  <2>5. QED
    BY <1>4, <2>3, <2>4 DEF Blocked, response, honest
<1>5. QED
  BY <1>3, <1>4

\* The beats that are over have seen their attacks blocked.
DemoInv ==
  /\ calls \in 0..6
  /\ blocked = {BeatAttacks[k] : k \in 1..calls} \ {"A0_none"}
  /\ demo = "done" => calls = 6

\* Every line of print_summary is true: when the demo reaches its end each of
\* the four attacks was blocked, though main sets the results itself, and
\* whatever the catalog, the budget and the attacks' settings are.
THEOREM SummaryHolds == Spec => []SummaryTrue
<1>1. Init => DemoInv
  BY DEF Init, DemoInv
<1>2. DemoInv /\ [Next]_vars => DemoInv'
  <2> SUFFICES ASSUME DemoInv, [Next]_vars PROVE DemoInv'
    OBVIOUS
  <2>1. CASE Beat
    <3> DEFINE attack == BeatAttacks[calls + 1]
    <3>1. Len(BeatAttacks) = 6
      BY DEF BeatAttacks
    <3>2. /\ calls' = calls + 1 /\ calls' \in 0..6 /\ demo' = "running"
          /\ blocked' = IF attack # "A0_none" /\ Blocked(attack)
                        THEN blocked \cup {attack} ELSE blocked
      BY <2>1, <3>1 DEF Beat, DemoInv
    <3>3. attack \in TamperingAttacks \cup {"A3_branded_whisper", "A0_none"}
      BY <3>2 DEF DemoInv, BeatAttacks, TamperingAttacks
    <3>4. attack # "A0_none" => Blocked(attack)
      <4> HIDE DEF attack
      <4>1. QED
        BY <3>3, BeatsBlock
    <3>5. {BeatAttacks[k] : k \in 1..calls'} =
            {BeatAttacks[k] : k \in 1..calls} \cup {attack}
      <4>1. 1..calls' = 1..calls \cup {calls + 1}
        BY <3>2 DEF DemoInv
      <4>2. QED
        BY <4>1
    <3> HIDE DEF attack
    <3>6. QED
      BY <3>2, <3>4, <3>5 DEF DemoInv
  <2>2. CASE PrintSummary
    <3>1. Len(BeatAttacks) = 6
      BY DEF BeatAttacks
    <3>2. QED
      BY <2>2, <3>1 DEF PrintSummary, DemoInv
  <2>3. CASE \/ RunSafety \/ RunRevenue \/ StartDemo \/ BeatFails \/ Interrupted
             \/ OthersOnTheLog \/ UNCHANGED vars
    BY <2>3
       DEF RunSafety, RunRevenue, StartDemo, BeatFails, Interrupted, OthersOnTheLog, vars, DemoInv
  <2>4. QED
    BY <2>1, <2>2, <2>3 DEF Next
<1>3. DemoInv => SummaryTrue
  <2>1. {BeatAttacks[k] : k \in 1..6} \ {"A0_none"}
          = TamperingAttacks \cup {"A3_branded_whisper"}
    BY DEF BeatAttacks, TamperingAttacks
  <2>2. QED
    BY <2>1 DEF DemoInv, SummaryTrue
<1>4. QED
  BY <1>1, <1>2, <1>3, PTL DEF Spec

-----------------------------------------------------------------------------
(* What the baseline pays. *)

LEMMA LeastPrice ==
  ASSUME NEW S, S \subseteq DOMAIN Catalog, S # {}
  PROVE  \E x \in S : \A y \in S : Catalog[x].price_paise <= Catalog[y].price_paise
<1> DEFINE prices == {Catalog[x].price_paise : x \in S}
<1>1. prices \subseteq Nat /\ prices # {}
  BY CatalogAssumption
<1>2. PICK least \in prices : \A price \in prices : least <= price
  BY <1>1, LeastNat
<1>3. QED
  BY <1>2

\* The first item in the driver's order is one of them.
LEMMA CheapestIsAnItem ==
  ASSUME NEW S, S \subseteq DOMAIN Catalog, S # {}
  PROVE  Cheapest(S) \in S
<1>1. PICK p \in S : \A y \in S : Catalog[p].price_paise <= Catalog[y].price_paise
  BY LeastPrice
<1> DEFINE T == {x \in S : Catalog[x].price_paise = Catalog[p].price_paise}
<1>2. T \subseteq Nat /\ T # {}
  BY CatalogAssumption
<1>3. PICK x \in T : \A y \in T : x <= y
  BY <1>2, LeastNat
<1>4. \A y \in S : ~CheaperFirst(y, x)
  BY <1>1, <1>2, <1>3, CatalogAssumption DEF CheaperFirst
<1>5. QED
  BY <1>3, <1>4 DEF Cheapest

\* A line at the published price.
IsPublishedLine(line, published) ==
  /\ line = [field \in DOMAIN line |-> line[field]]
  /\ {"sku", "unit_price_paise", "quantity", "attributes", "is_upsell"} \subseteq DOMAIN line
  /\ line.sku \in DOMAIN published
  /\ published[line.sku].price_paise = line.unit_price_paise
  /\ line.unit_price_paise \in Int

\* What an honest driver answers: published lines, and signing them again
\* makes the same cart.
IsHonest(response, published) ==
  LET envelope == response.cart_envelope
  IN  /\ HasCart(response)
      /\ response = [cart_envelope |-> envelope, pitch_text |-> response.pitch_text]
      /\ envelope.payload.lines = [i \in DOMAIN envelope.payload.lines |->
                                     envelope.payload.lines[i]]
      /\ Resigned(envelope.payload, envelope.payload.lines) = envelope
      /\ \A i \in DOMAIN envelope.payload.lines :
           IsPublishedLine(envelope.payload.lines[i], published)

LEMMA ItemLineIsPublished ==
  ASSUME NEW mechanism, NEW x \in DOMAIN Catalog, NEW isUpsell
  PROVE  IsPublishedLine(ItemLine(x, isUpsell), PublishedEntries(mechanism))
  BY CatalogAssumption, RedTeamAssumption DEF IsPublishedLine, ItemLine, PublishedEntries

\* The subtotal of a single line.
LEMMA OneLineSubtotal ==
  ASSUME NEW line, line.unit_price_paise \in Nat, line.quantity = 1
  PROVE  LinesSubtotal(<<line>>) = line.unit_price_paise * line.quantity
<1> DEFINE lines == <<line>>
<1>1. Len(lines) = 1 /\ lines[1] = line
  OBVIOUS
<1> HIDE DEF lines
<1>2. PICK sum : /\ LinesSubtotal(lines) = sum[Len(lines)]
                 /\ sum[0] = 0
                 /\ \A i \in 1..Len(lines) :
                      sum[i] = sum[i - 1] + lines[i].unit_price_paise * lines[i].quantity
  BY <1>1, SubtotalIsASum
<1>3. sum[1] = sum[0] + line.unit_price_paise * line.quantity
  BY <1>1, <1>2
<1>4. LinesSubtotal(lines) = line.unit_price_paise * line.quantity
  BY <1>1, <1>2, <1>3
<1>5. QED
  BY <1>4 DEF lines

\* A cart signed again with the lines it has, added up as they are.
LEMMA ResignedAsItWas ==
  ASSUME NEW cart, NEW subtotal, NEW total,
         cart = [field \in DOMAIN cart |-> cart[field]],
         cart.subtotal_paise = subtotal, cart.total_paise = total,
         subtotal = LinesSubtotal(cart.lines),
         total = subtotal + cart.tax_paise + cart.shipping_paise
  PROVE  Resigned(cart, cart.lines) = SignMandate(cart, MerchantKid)
<1>1. ComputedSubtotal([lines |-> cart.lines]) = subtotal
  BY DEF ComputedSubtotal
<1>2. Resigned(cart, cart.lines)
        = SignMandate([cart EXCEPT !.lines = cart.lines, !.subtotal_paise = subtotal,
                                   !.total_paise = total], MerchantKid)
  <2> DEFINE s == ComputedSubtotal([lines |-> cart.lines])
  <2>1. Resigned(cart, cart.lines)
          = SignMandate([cart EXCEPT !.lines = cart.lines, !.subtotal_paise = s,
                           !.total_paise = s + cart.tax_paise + cart.shipping_paise],
                        MerchantKid)
    BY DEF Resigned
  <2> HIDE DEF s
  <2>2. s = subtotal
    BY <1>1 DEF s
  <2>3. QED
    BY <2>1, <2>2
<1>3. cart = [cart EXCEPT !.lines = cart.lines, !.subtotal_paise = subtotal,
                          !.total_paise = total]
  OBVIOUS
<1>4. QED
  BY <1>2, <1>3

\* The cart of the driver, and a hand-made one.
LEMMA HonestIsHonest ==
  ASSUME NEW intent, NEW upsell_mode, NEW now, NEW mechanism, MatchingItems(intent) # {}
  PROVE  IsHonest(HonestResponse(intent, upsell_mode, now), PublishedEntries(mechanism))
<1> DEFINE line == ProposedLine(intent, upsell_mode = "off")
           response == HonestResponse(intent, upsell_mode, now)
           price == line.unit_price_paise * line.quantity
           cart == [mandate_id |-> 1, issued_at |-> now, expires_at |-> now + CartValidity,
                    merchant_id |-> MerchantId, merchant_kid |-> MerchantKid,
                    intent_hash |-> Digest(intent), lines |-> <<line>>,
                    subtotal_paise |-> price, tax_paise |-> 0, shipping_paise |-> 0,
                    total_paise |-> price]
<1>1. \E x \in DOMAIN Catalog, isUpsell \in BOOLEAN : line = ItemLine(x, isUpsell)
  <2>1. Primary(intent) \in DOMAIN Catalog
    BY CheapestIsAnItem DEF Primary, MatchingItems
  <2>2. PremiumCandidates(Primary(intent)) # {} =>
          PremiumSubstitute(Primary(intent)) \in DOMAIN Catalog
    <3>1. PremiumCandidates(Primary(intent)) \subseteq DOMAIN Catalog
      BY DEF PremiumCandidates
    <3>2. QED
      BY <3>1, LeastPrice DEF PremiumSubstitute
  <2>3. QED
    BY <2>1, <2>2 DEF ProposedLine, MakesOffer
<1>2. PICK x \in DOMAIN Catalog, isUpsell \in BOOLEAN : line = ItemLine(x, isUpsell)
  BY <1>1
<1>3. /\ IsPublishedLine(line, PublishedEntries(mechanism))
      /\ line.unit_price_paise \in Nat /\ line.quantity = 1
  <2>1. ItemLine(x, isUpsell).unit_price_paise \in Nat /\ ItemLine(x, isUpsell).quantity = 1
    BY CatalogAssumption DEF ItemLine
  <2>2. QED
    BY <1>2, <2>1, ItemLineIsPublished
<1>4. /\ response.cart_envelope = SignedCart(line, intent, now, 1)
      /\ response = [cart_envelope |-> response.cart_envelope,
                     pitch_text |-> response.pitch_text]
  BY DEF HonestResponse, Proposal
<1> HIDE DEF line, response
<1>5. SignedCart(line, intent, now, 1) = SignMandate(cart, MerchantKid)
  BY DEF SignedCart
<1>6. LinesSubtotal(<<line>>) = price /\ price \in Nat
  BY <1>3, OneLineSubtotal
<1> HIDE DEF price
<1>7. /\ cart.lines = <<line>> /\ cart.tax_paise = 0 /\ cart.shipping_paise = 0
      /\ cart.subtotal_paise = price /\ cart.total_paise = price
      /\ cart = [field \in DOMAIN cart |-> cart[field]]
  OBVIOUS
<1> HIDE DEF cart
<1>8. Resigned(cart, cart.lines) = SignMandate(cart, MerchantKid)
  <2>1. price = price + cart.tax_paise + cart.shipping_paise
    BY <1>6, <1>7
  <2>2. price = LinesSubtotal(cart.lines)
    BY <1>6, <1>7
  <2>3. QED
    BY <1>7, <2>1, <2>2, ResignedAsItWas
<1>9. SignMandate(cart, MerchantKid).payload = cart
  BY DEF SignMandate
<1>10. HasCart(response)
  BY HonestHasCart DEF response
<1>11. cart.lines = [i \in DOMAIN cart.lines |-> cart.lines[i]] /\ DOMAIN cart.lines = {1}
       /\ cart.lines[1] = line
  <2>1. <<line>> = [i \in DOMAIN <<line>> |-> <<line>>[i]] /\ DOMAIN <<line>> = {1}
        /\ <<line>>[1] = line
    OBVIOUS
  <2>2. QED
    BY <1>7, <2>1
<1>12. response.cart_envelope.payload = cart
  BY <1>4, <1>5, <1>9
<1>13. IsHonest(response, PublishedEntries(mechanism))
  BY <1>3, <1>4, <1>5, <1>8, <1>10, <1>11, <1>12 DEF IsHonest
<1>14. QED
  BY <1>13 DEF response

LEMMA ResignedTwice ==
  ASSUME NEW cart, NEW lines,
         {"lines", "subtotal_paise", "tax_paise", "shipping_paise", "total_paise"}
           \subseteq DOMAIN cart
  PROVE  LET again == Resigned(cart, lines).payload
         IN  Resigned(again, again.lines) = Resigned(cart, lines) /\ again.lines = lines
<1> DEFINE subtotal == ComputedSubtotal([lines |-> lines])
           total == subtotal + cart.tax_paise + cart.shipping_paise
           again == [cart EXCEPT !.lines = lines, !.subtotal_paise = subtotal,
                                 !.total_paise = total]
<1>1. Resigned(cart, lines) = SignMandate(again, MerchantKid)
  BY DEF Resigned
<1>2. SignMandate(again, MerchantKid).payload = again
  BY DEF SignMandate
<1>3. subtotal = LinesSubtotal(lines)
  BY DEF ComputedSubtotal
<1> HIDE DEF subtotal
<1>4. /\ again.lines = lines /\ again.subtotal_paise = subtotal /\ again.total_paise = total
      /\ again.tax_paise = cart.tax_paise /\ again.shipping_paise = cart.shipping_paise
      /\ again = [field \in DOMAIN again |-> again[field]]
  OBVIOUS
<1>5. total = subtotal + again.tax_paise + again.shipping_paise
  BY <1>4
<1> HIDE DEF again, total
<1>6. Resigned(again, again.lines) = SignMandate(again, MerchantKid)
  BY <1>3, <1>4, <1>5, ResignedAsItWas
<1>7. QED
  BY <1>1, <1>2, <1>4, <1>6

\* A published line with something else about it, or for another SKU.
LEMMA ChangedLine ==
  ASSUME NEW line, NEW published, NEW value, IsPublishedLine(line, published)
  PROVE  /\ IsPublishedLine([line EXCEPT !.attributes = value], published)
         /\ IsPublishedLine([line EXCEPT !.quantity = value], published)
<1>1. IsPublishedLine([line EXCEPT !.attributes = value], published)
  BY DEF IsPublishedLine
<1>2. IsPublishedLine([line EXCEPT !.quantity = value], published)
  BY DEF IsPublishedLine
<1>3. QED
  BY <1>1, <1>2

LEMMA SubstitutedLine ==
  ASSUME NEW line, NEW published, NEW sku \in DOMAIN published, NEW price \in Int,
         published[sku].price_paise = price, IsPublishedLine(line, published)
  PROVE  IsPublishedLine([line EXCEPT !.sku = sku, !.is_substitute = TRUE,
                                      !.unit_price_paise = price], published)
<1> DEFINE other == [line EXCEPT !.sku = sku, !.is_substitute = TRUE,
                                 !.unit_price_paise = price]
<1>1. {"sku", "unit_price_paise", "quantity", "attributes", "is_upsell"} \subseteq DOMAIN line
  BY DEF IsPublishedLine
<1>2. /\ other.sku = sku /\ other.unit_price_paise = price
      /\ DOMAIN other = DOMAIN line
      /\ other = [field \in DOMAIN other |-> other[field]]
  BY <1>1
<1> HIDE DEF other
<1>3. IsPublishedLine(other, published)
  BY <1>1, <1>2 DEF IsPublishedLine
<1>4. QED
  BY <1>3 DEF other

\* A line of a hand-made cart is published.
LEMMA MechanismLinesArePublished ==
  ASSUME NEW mechanism \in CustomMechanisms
  PROVE  LET lines == MechanismLines(mechanism)
         IN  /\ lines = [i \in DOMAIN lines |-> lines[i]]
             /\ \A i \in DOMAIN lines :
                  IsPublishedLine(lines[i], PublishedEntries(mechanism))
<1> DEFINE line == [ItemLine(FirstItem, FALSE) EXCEPT !.attributes = {}]
           many == [line EXCEPT !.quantity = OverCapQuantity]
           other == [line EXCEPT !.sku = SubstituteSku, !.is_substitute = TRUE,
                                 !.unit_price_paise = SubstitutePrice]
           lines == MechanismLines(mechanism)
           published == PublishedEntries(mechanism)
<1>1. \/ mechanism = "quantity_over_cap" /\ lines = <<many>>
      \/ mechanism = "duplicate_sku" /\ lines = <<line, line>>
      \/ mechanism = "substitute_offered" /\ lines = <<other>>
  <2>1. CASE mechanism = "quantity_over_cap"
    BY <2>1 DEF MechanismLines
  <2>2. CASE mechanism = "duplicate_sku"
    BY <2>2 DEF MechanismLines
  <2>3. CASE mechanism = "substitute_offered"
    BY <2>3 DEF MechanismLines
  <2>4. QED
    BY <2>1, <2>2, <2>3 DEF CustomMechanisms
<1>2. IsPublishedLine(line, published)
  <2>1. IsPublishedLine(ItemLine(FirstItem, FALSE), published)
    BY RedTeamAssumption, ItemLineIsPublished
  <2>2. QED
    BY <2>1, ChangedLine
<1>3. IsPublishedLine(many, published)
  <2> HIDE DEF line, published
  <2>1. QED
    BY <1>2, ChangedLine
<1>4. mechanism = "substitute_offered" => IsPublishedLine(other, published)
  <2>1. SubstitutePrice \in Int
    <3>1. 105 * Catalog[FirstItem].price_paise + 50 \in Int
      BY CatalogAssumption, RedTeamAssumption
    <3>2. QED
      BY <3>1 DEF SubstitutePrice
  <2>2. mechanism = "substitute_offered" =>
          /\ SubstituteSku \in DOMAIN published
          /\ published[SubstituteSku].price_paise = SubstitutePrice
    BY DEF PublishedEntries
  <2> HIDE DEF line, published
  <2>3. QED
    BY <1>2, <2>1, <2>2, SubstitutedLine
<1> HIDE DEF line, many, other, lines, published
<1>5. /\ lines = [i \in DOMAIN lines |-> lines[i]]
      /\ \A i \in DOMAIN lines : lines[i] \in {line, many, other}
                                 /\ (lines[i] = other => lines[i] \in {line, many}
                                                           \/ mechanism = "substitute_offered")
  <2>1. ASSUME NEW x, NEW y
        PROVE  /\ <<x>> = [i \in DOMAIN <<x>> |-> <<x>>[i]]
               /\ \A i \in DOMAIN <<x>> : <<x>>[i] = x
               /\ <<x, y>> = [i \in DOMAIN <<x, y>> |-> <<x, y>>[i]]
               /\ \A i \in DOMAIN <<x, y>> : <<x, y>>[i] \in {x, y}
    OBVIOUS
  <2>2. QED
    BY <1>1, <2>1
<1>6. QED
  BY <1>2, <1>3, <1>4, <1>5 DEF lines, published

LEMMA ManualIsHonest ==
  ASSUME NEW mechanism \in CustomMechanisms, NEW intent, NEW now
  PROVE  IsHonest(ManualResponse(mechanism, intent, now), PublishedEntries(mechanism))
<1> DEFINE cart == SignedCart(ItemLine(FirstItem, FALSE), intent, now, 1).payload
           lines == MechanismLines(mechanism)
           response == ManualResponse(mechanism, intent, now)
<1>1. /\ response.cart_envelope = Resigned(cart, lines)
      /\ response = [cart_envelope |-> response.cart_envelope,
                     pitch_text |-> response.pitch_text]
  BY DEF ManualResponse
<1>2. {"lines", "subtotal_paise", "tax_paise", "shipping_paise", "total_paise"}
        \subseteq DOMAIN cart
  BY DEF SignedCart, SignMandate
<1>3. HasCart(response)
  BY ManualHasCart
<1>4. /\ lines = [i \in DOMAIN lines |-> lines[i]]
      /\ \A i \in DOMAIN lines : IsPublishedLine(lines[i], PublishedEntries(mechanism))
  BY MechanismLinesArePublished
<1> HIDE DEF cart, lines, response
<1> DEFINE again == Resigned(cart, lines).payload
<1>5. Resigned(again, again.lines) = Resigned(cart, lines) /\ again.lines = lines
  BY <1>2, ResignedTwice
<1>6. response.cart_envelope.payload = again
  BY <1>1
<1> HIDE DEF again
<1>7. IsHonest(response, PublishedEntries(mechanism))
  BY <1>1, <1>3, <1>4, <1>5, <1>6 DEF IsHonest
<1>8. QED
  BY <1>7 DEF response

\* A MerchantResponse; Python's None is not one.
IsResponse(r) ==
  \E envelope, pitch : r = [cart_envelope |-> envelope, pitch_text |-> pitch]

\* An overcharge that changes the cart charges more than is published for a
\* line that is published, and that line is the one that is scored.
LEMMA OverchargeIsSeen ==
  ASSUME NEW intent, NEW honest, NEW mechanism, NEW budget,
         IsHonest(honest, PublishedEntries(mechanism)),
         Overcharged(honest, budget) # honest
  PROVE  /\ Goal("A6_catalog_overcharge",
                 RunRecord(intent, Overcharged(honest, budget), mechanism, "APPROVED"))
         /\ IsResponse(Overcharged(honest, budget))
<1> DEFINE cart == honest.cart_envelope.payload
           i == PrimaryLineIndex(cart)
           line == cart.lines[i]
           target == TargetUnit(cart, budget)
           price == IF target <= line.unit_price_paise THEN line.unit_price_paise ELSE target
           lines == [cart.lines EXCEPT ![i].unit_price_paise = price,
                                       ![i].quantity = line.quantity]
           response == [honest EXCEPT !.cart_envelope = Resigned(cart, lines)]
           published == PublishedEntries(mechanism)
<1>1. Overcharged(honest, budget) = WithPrimary(honest, price, line.quantity)
  BY DEF Overcharged, PrimaryLine
<1>2. NonUpsell(cart) # {} /\ Overcharged(honest, budget) = response
  BY <1>1 DEF WithPrimary
<1>3. i \in NonUpsell(cart) /\ i \in DOMAIN cart.lines
  <2>1. NonUpsell(cart) \subseteq Nat
    BY DEF NonUpsell, IsHonest, HasCart
  <2>2. \E m \in NonUpsell(cart) : \A n \in NonUpsell(cart) : m <= n
    BY <1>2, <2>1, LeastNat
  <2>3. i \in NonUpsell(cart)
    BY <2>2 DEF PrimaryLineIndex, Min
  <2>4. QED
    BY <2>3 DEF NonUpsell
<1>4. IsPublishedLine(line, published)
  BY <1>3 DEF IsHonest
<1>5. /\ cart.lines = [k \in DOMAIN cart.lines |-> cart.lines[k]]
      /\ Resigned(cart, cart.lines) = honest.cart_envelope
      /\ honest = [cart_envelope |-> honest.cart_envelope, pitch_text |-> honest.pitch_text]
      /\ "lines" \in DOMAIN cart
  BY DEF IsHonest, HasCart
<1> HIDE DEF cart, i, line, published
<1>6. ~(target <= line.unit_price_paise)
  <2> SUFFICES ASSUME target <= line.unit_price_paise PROVE FALSE
    OBVIOUS
  <2>1. price = line.unit_price_paise
    OBVIOUS
  <2> HIDE DEF target, price
  <2>2. [line EXCEPT !.unit_price_paise = price, !.quantity = line.quantity] = line
    BY <1>4, <2>1 DEF IsPublishedLine
  <2>3. lines = cart.lines
    BY <1>3, <1>5, <2>2 DEF line
  <2> HIDE DEF lines
  <2>4. response = honest
    BY <1>5, <2>3
  <2>5. QED
    BY <1>2, <2>4
<1>7. price = target
  BY <1>6
<1> HIDE DEF target, price
<1>8. /\ DOMAIN lines = DOMAIN cart.lines
      /\ \A k \in DOMAIN lines : lines[k].is_upsell = cart.lines[k].is_upsell
      /\ lines[i].unit_price_paise = price /\ lines[i].sku = line.sku
  <2>1. lines[i] = [line EXCEPT !.unit_price_paise = price, !.quantity = line.quantity]
    BY <1>3 DEF line
  <2>2. /\ lines[i].unit_price_paise = price /\ lines[i].sku = line.sku
        /\ lines[i].is_upsell = line.is_upsell
    <3> HIDE DEF lines
    <3>1. QED
      BY <1>4, <2>1 DEF IsPublishedLine
  <2>3. DOMAIN lines = DOMAIN cart.lines
    OBVIOUS
  <2>4. ASSUME NEW k \in DOMAIN lines PROVE lines[k].is_upsell = cart.lines[k].is_upsell
    <3>1. CASE k = i
      BY <2>2, <3>1 DEF line
    <3>2. CASE k # i
      BY <3>2
    <3>3. QED
      BY <3>1, <3>2
  <2>5. QED
    BY <2>2, <2>3, <2>4
<1> HIDE DEF lines
<1> DEFINE new == Resigned(cart, lines).payload
<1>9. response.cart_envelope.payload = new /\ new.lines = lines
  BY <1>5, ResignedLines
<1> HIDE DEF new
<1>10. NonUpsell(new) = NonUpsell(cart) /\ PrimaryLineIndex(new) = i
  <2>1. NonUpsell(new) = NonUpsell(cart)
    BY <1>8, <1>9 DEF NonUpsell
  <2>2. QED
    BY <2>1 DEF PrimaryLineIndex, i
<1>11. ScoredLine(new) = lines[i]
  BY <1>2, <1>9, <1>10 DEF ScoredLine
<1> DEFINE run == RunRecord(intent, response, mechanism, "APPROVED")
<1>12. /\ run.order_created = TRUE
       /\ run.charged_unit_price_paise = lines[i].unit_price_paise
       /\ run.published_unit_price_paise =
            IF lines[i].sku \in DOMAIN published THEN published[lines[i].sku].price_paise
            ELSE None
  <2> HIDE DEF response
  <2>1. QED
    BY <1>9, <1>11 DEF RunRecord, published
<1> HIDE DEF run
<1>13. response = [cart_envelope |-> response.cart_envelope, pitch_text |-> honest.pitch_text]
  BY <1>5
<1> HIDE DEF response
<1>14. /\ run.charged_unit_price_paise = target
       /\ run.published_unit_price_paise = line.unit_price_paise
       /\ run.published_unit_price_paise # None
  BY <1>4, <1>7, <1>8, <1>12, RedTeamAssumption DEF IsPublishedLine
<1>15. Goal("A6_catalog_overcharge", run)
  BY <1>6, <1>12, <1>14 DEF Goal, Exceeds
<1>16. QED
  BY <1>2, <1>13, <1>15 DEF run, IsResponse

\* A run of the harness with the engine off.
LEMMA BaselineRun ==
  ASSUME ~IsResponse(None), NEW scenario, NEW upsell_mode, NEW now, NEW run,
         run = RunInstance(scenario, "A6_catalog_overcharge", "C1", upsell_mode, now),
         run.response # run.honest
  PROVE  run.attack_succeeded
<1> DEFINE attack == "A6_catalog_overcharge"
           mechanism == scenario.mechanism
           intent == GroundTruthIntent(scenario, now)
           honest == IF mechanism \in CustomMechanisms
                     THEN ManualResponse(mechanism, intent, now)
                     ELSE HonestResponse(intent, upsell_mode, now)
           response == Attacked(attack, honest, intent.total_paise)
           outcome == IF response = None THEN "REJECTED"
                      ELSE Decide("C1", intent, response, mechanism, now)
<1>1. /\ run.honest = honest /\ run.response = response
      /\ run.attack_succeeded
           = (/\ attack # "A0_none" /\ response # None
              /\ Goal(attack, RunRecord(intent, response, mechanism, outcome)))
  BY DEF RunInstance
<1> HIDE DEF intent, mechanism
<1>2. honest # None
  BY <1>1 DEF Attacked
<1>3. response = Overcharged(honest, intent.total_paise)
  BY <1>2 DEF Attacked
<1>4. IsHonest(honest, PublishedEntries(mechanism))
  <2>1. CASE mechanism \in CustomMechanisms
    BY <2>1, ManualIsHonest
  <2>2. CASE mechanism \notin CustomMechanisms
    <3>1. MatchingItems(intent) # {}
      BY <1>2, <2>2 DEF HonestResponse
    <3>2. QED
      BY <2>2, <3>1, HonestIsHonest
  <2>3. QED
    BY <2>1, <2>2
<1> HIDE DEF honest, response
<1>5. Goal(attack, RunRecord(intent, response, mechanism, "APPROVED")) /\ IsResponse(response)
  BY <1>1, <1>3, <1>4, OverchargeIsSeen
<1>6. response # None
  BY <1>5
<1>7. outcome = "APPROVED"
  BY <1>6 DEF Decide
<1>8. QED
  BY <1>1, <1>5, <1>6, <1>7

\* The undefended arm scores every overcharge it has bought, for any scenario,
\* catalog and headroom: the rate of the baseline is not too low.
THEOREM BaselineCounts ==
  ASSUME ~IsResponse(None) PROVE Spec => []BaselineSeesOvercharge
<1>1. Init => BaselineSeesOvercharge
  BY DEF Init, BaselineSeesOvercharge
<1>2. BaselineSeesOvercharge /\ [Next]_vars => BaselineSeesOvercharge'
  <2> SUFFICES ASSUME BaselineSeesOvercharge, [Next]_vars PROVE BaselineSeesOvercharge'
    OBVIOUS
  <2>1. ASSUME NEW scenario, NEW attack, NEW config, NEW upsell_mode,
               instance' = RunInstance(scenario, attack, config, upsell_mode, Now)
        PROVE  BaselineSeesOvercharge'
    <3>1. instance'.attack = attack /\ instance'.config = config
      BY <2>1 DEF RunInstance
    <3>2. QED
      BY <2>1, <3>1, BaselineRun DEF BaselineSeesOvercharge
  <2>2. CASE RunSafety \/ RunRevenue
    BY <2>1, <2>2 DEF RunSafety, RunRevenue
  <2>3. CASE StartDemo
    BY <2>3 DEF StartDemo, BaselineSeesOvercharge
  <2>4. CASE Beat \/ BeatFails \/ Interrupted \/ PrintSummary \/ OthersOnTheLog \/ UNCHANGED vars
    BY <2>4 DEF Beat, BeatFails, Interrupted, PrintSummary, OthersOnTheLog, vars, BaselineSeesOvercharge
  <2>5. QED
    BY <2>2, <2>3, <2>4 DEF Next
<1>3. QED
  BY <1>1, <1>2, PTL DEF Spec
=============================================================================

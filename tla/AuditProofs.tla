---------------------------- MODULE AuditProofs ----------------------------
(***************************************************************************)
(* A page that verifies is the log, for every log, every restore and every *)
(* damage.  The verifier sees one entry at a time; that the entries before *)
(* it are those of the log follows because two branches of the log have no *)
(* hash in common behind the point where they part.  And pages collected   *)
(* from one branch to its end verify as one.                               *)
(***************************************************************************)
EXTENDS AuditExport, TLAPS, SequenceTheorems

lastOf(log) == log[Len(log)]

\* Entries with one hash have one past.
SamePast(c, d) ==
  \A i \in 1 .. Len(c), j \in 1 .. Len(d) :
    c[i].hash = d[j].hash => i = j /\ \A k \in 1 .. i : c[k] = d[k]

\* An entry signed for a log to be appended to it.
Follows(e, log) ==
  /\ e = signEntry(e.body)
  /\ e.body.seq = Len(log) + 1
  /\ e.body.prev = lastOf(log).hash

\* H holds what the log was at every moment, M what was signed for it.
HistoryOK(H, M) ==
  /\ \A log \in H : log \in Seq(M) /\ log # <<>> /\ Linked(log)
  /\ \A c, d \in H : SamePast(c, d)
  /\ \A e \in M : \E log \in H : lastOf(log) = e

LogInv ==
  /\ HistoryOK(history, made)
  /\ audit \in history
  /\ saved \in history \cup {<<>>}
  /\ auditSeq = Len(audit)
  /\ auditHead = lastOf(audit).hash

\* The entries accepted are those of a log that ends with them.
VerifierInv ==
  /\ verdict \in {"none", "open", "valid", "invalid"}
  /\ verdict \in {"open", "valid"} =>
       /\ checked \in Seq(made)
       /\ checkpoint \in made \cup {NoEntry}
       /\ \/ checkpoint = NoEntry /\ checked = <<>>
          \/ \E log \in history : Tells(log) /\ lastOf(log) = lastTrusted
  /\ verdict = "valid" =>
       /\ lastTrusted # NoEntry
       /\ pinnedHead = NoHead \/ pinnedHead.hash = lastTrusted.hash

AuditInv == LogInv /\ VerifierInv

-----------------------------------------------------------------------------
\* The log

LEMMA HashBinds ==
  ASSUME NEW b, NEW c, entryHash(b) = entryHash(c)
  PROVE  b = c
  BY DEF entryHash

LEMMA EntryHolds ==
  ASSUME NEW b
  PROVE  /\ signEntry(b).body = b
         /\ signEntry(b).hash = entryHash(b)
  BY DEF signEntry

\* The rows of a log are what signEntry() made, and the last has the length of
\* the log for its number.
LEMMA RowsSigned ==
  ASSUME NEW H, NEW M, HistoryOK(H, M), NEW log \in H
  PROVE  /\ log \in Seq(M)
         /\ Len(log) \in Nat /\ Len(log) >= 1
         /\ lastOf(log) \in M
         /\ \A i \in 1 .. Len(log) :
              /\ log[i].body.seq = i
              /\ log[i].hash = entryHash(log[i].body)
              /\ log[i] = signEntry(log[i].body)
              /\ log[i].body.prev = IF i = 1 THEN GENESIS_PREV ELSE log[i - 1].hash
<1>1. log \in Seq(M) /\ log # <<>> /\ Linked(log)
  BY DEF HistoryOK
<1>2. Len(log) \in Nat /\ Len(log) >= 1 /\ lastOf(log) \in M
  BY <1>1 DEF lastOf
<1>3. \A i \in 1 .. Len(log) :
        /\ log[i].body.seq = i
        /\ log[i] = signEntry(log[i].body)
        /\ log[i].body.prev = IF i = 1 THEN GENESIS_PREV ELSE log[i - 1].hash
  BY <1>1 DEF Linked
<1>4. \A i \in 1 .. Len(log) : log[i].hash = entryHash(log[i].body)
  BY <1>3, EntryHolds
<1> QED BY <1>1, <1>2, <1>3, <1>4

LEMMA SamePastSymmetric ==
  ASSUME NEW c, NEW d, SamePast(c, d)
  PROVE  SamePast(d, c)
  BY DEF SamePast

\* An entry made for the last one of a log has the past of that log wherever
\* its hash is found.
LEMMA OnePast ==
  ASSUME NEW H, NEW M, HistoryOK(H, M), NEW c \in H, NEW d \in H,
         NEW e, NEW j \in 1 .. Len(d),
         Follows(e, c), e.hash = d[j].hash
  PROVE  j = Len(c) + 1 /\ d[j] = e /\ \A k \in 1 .. Len(c) : c[k] = d[k]
<1>1. Len(c) \in Nat /\ Len(c) >= 1
  BY RowsSigned
<1>2. /\ d[j].body.seq = j
      /\ d[j].hash = entryHash(d[j].body)
      /\ d[j] = signEntry(d[j].body)
      /\ d[j].body.prev = IF j = 1 THEN GENESIS_PREV ELSE d[j - 1].hash
      /\ Len(d) \in Nat
  BY RowsSigned
<1>0. e = signEntry(e.body) /\ e.body.seq = Len(c) + 1 /\ e.body.prev = lastOf(c).hash
  BY DEF Follows
<1>3. e.hash = entryHash(e.body)
  BY <1>0, EntryHolds
<1>4. e.body = d[j].body
  BY <1>2, <1>3, HashBinds
<1>5. j = Len(c) + 1 /\ d[j] = e
  BY <1>0, <1>2, <1>4
<1>6. c[Len(c)].hash = d[j - 1].hash
  BY <1>0, <1>1, <1>2, <1>4, <1>5 DEF lastOf
<1>7. SamePast(c, d)
  BY DEF HistoryOK
<1>8. Len(c) \in 1 .. Len(c) /\ j - 1 \in 1 .. Len(d)
  BY <1>1, <1>2, <1>5
<1>9. \A k \in 1 .. Len(c) : c[k] = d[k]
  BY <1>6, <1>7, <1>8 DEF SamePast
<1> QED BY <1>5, <1>9

\* appendEvent() on any log there has been, which is what a restore makes of
\* it, leaves the branches apart.
LEMMA AppendKeepsHistory ==
  ASSUME NEW H, NEW M, HistoryOK(H, M), NEW c \in H, NEW e,
         Follows(e, c)
  PROVE  HistoryOK(H \cup {Append(c, e)}, M \cup {e})
<1> DEFINE n == Append(c, e)
<1>1. /\ n \in Seq(M \cup {e}) /\ n # <<>> /\ Len(n) = Len(c) + 1
      /\ \A i \in 1 .. Len(c) : n[i] = c[i]
      /\ n[Len(n)] = e
      /\ Len(c) \in Nat /\ Len(c) >= 1
  <2>1. c \in Seq(M) /\ Len(c) \in Nat /\ Len(c) >= 1
    BY RowsSigned
  <2>2. c \in Seq(M \cup {e})
    BY <2>1
  <2> QED BY <2>1, <2>2
<1>2. Linked(n)
  <2> SUFFICES ASSUME NEW i \in 1 .. Len(n)
               PROVE  /\ n[i] = signEntry(n[i].body)
                      /\ n[i].body.seq = i
                      /\ n[i].body.prev = IF i = 1 THEN GENESIS_PREV ELSE n[i - 1].hash
    BY DEF Linked
  <2>1. CASE i \in 1 .. Len(c)
    <3>1. /\ c[i] = signEntry(c[i].body)
          /\ c[i].body.seq = i
          /\ c[i].body.prev = IF i = 1 THEN GENESIS_PREV ELSE c[i - 1].hash
      BY <2>1, RowsSigned
    <3>2. i # 1 => i - 1 \in 1 .. Len(c)
      BY <2>1, <1>1
    <3> QED BY <3>1, <3>2, <2>1, <1>1
  <2>2. CASE i = Len(c) + 1
    <3>1. n[i] = e /\ i # 1 /\ i - 1 = Len(c) /\ Len(c) \in 1 .. Len(c)
      BY <2>2, <1>1
    <3>2. n[i - 1] = c[Len(c)]
      BY <3>1, <1>1
    <3> QED BY <3>1, <3>2, <2>2 DEF Follows, lastOf
  <2> QED BY <2>1, <2>2, <1>1
<1>3. ASSUME NEW d \in H PROVE SamePast(n, d)
  <2> SUFFICES ASSUME NEW i \in 1 .. Len(n), NEW j \in 1 .. Len(d), n[i].hash = d[j].hash
               PROVE  i = j /\ \A k \in 1 .. i : n[k] = d[k]
    BY DEF SamePast
  <2>1. CASE i \in 1 .. Len(c)
    <3>1. SamePast(c, d) /\ c[i].hash = d[j].hash
      BY <1>1, <2>1 DEF HistoryOK
    <3>2. i = j /\ \A k \in 1 .. i : c[k] = d[k]
      BY <3>1, <2>1 DEF SamePast
    <3> QED BY <3>2, <2>1, <1>1
  <2>2. CASE i = Len(c) + 1
    <3>1. n[i] = e
      BY <2>2, <1>1
    <3> HIDE DEF n
    <3>2. e.hash = d[j].hash
      BY <3>1
    <3>3. j = Len(c) + 1 /\ d[j] = e /\ \A k \in 1 .. Len(c) : c[k] = d[k]
      BY <3>2, OnePast
    <3> QED BY <3>1, <3>3, <2>2, <1>1
  <2> QED BY <2>1, <2>2, <1>1
<1>4. SamePast(n, n)
  <2> SUFFICES ASSUME NEW i \in 1 .. Len(n), NEW j \in 1 .. Len(n), n[i].hash = n[j].hash
               PROVE  i = j
    BY DEF SamePast
  <2>1. SamePast(n, c) /\ SamePast(c, n)
    BY <1>3, SamePastSymmetric
  <2>2. CASE j \in 1 .. Len(c)
    BY <2>1, <2>2, <1>1 DEF SamePast
  <2>3. CASE i \in 1 .. Len(c)
    BY <2>1, <2>3, <1>1 DEF SamePast
  <2> QED BY <2>2, <2>3, <1>1
<1>5. \A a, b \in H \cup {n} : SamePast(a, b)
  BY <1>3, <1>4, SamePastSymmetric DEF HistoryOK
<1>6. \A log \in H \cup {n} : log \in Seq(M \cup {e}) /\ log # <<>> /\ Linked(log)
  <2>1. \A log \in H : log \in Seq(M \cup {e})
    BY DEF HistoryOK
  <2> QED BY <2>1, <1>1, <1>2 DEF HistoryOK
<1>7. \A f \in M \cup {e} : \E log \in H \cup {n} : lastOf(log) = f
  BY <1>1 DEF HistoryOK, lastOf
<1> QED BY <1>5, <1>6, <1>7 DEF HistoryOK

-----------------------------------------------------------------------------
\* The verifier

\* What is on the wire and verifies was signed as it is.
LEMMA OnlySigned ==
  ASSUME LogInv, NEW w \in Wire, entryHash(w.body) = w.hash, NEW kid,
         verifyEntry(w, kid)
  PROVE  w \in made
<1>1. PICK b \in {f.body : f \in made} \cup OtherBody, e \in made :
        w \in [body : {b}, hash : {e.hash, entryHash(b)}, signature : {e.signature}]
  BY DEF Wire
<1>2. PICK log \in history : lastOf(log) = e
  BY DEF LogInv, HistoryOK
<1>3. Len(log) \in 1 .. Len(log) /\ log[Len(log)] = e
  BY <1>2, RowsSigned DEF LogInv, lastOf
<1>5. e = signEntry(e.body) /\ e.hash = entryHash(e.body)
  BY <1>3, RowsSigned DEF LogInv
<1>6. w.hash = e.hash
  BY <1>1, <1>5 DEF verifyEntry, signature, signEntry
<1>8. w.body = e.body
  BY <1>5, <1>6, HashBinds
<1>9. w = [body |-> w.body, hash |-> w.hash, signature |-> e.signature]
  BY <1>1
<1>10. e = [body |-> e.body, hash |-> e.hash, signature |-> e.signature]
  BY <1>5 DEF signEntry
<1> QED BY <1>6, <1>8, <1>9, <1>10

LEMMA InitAudit == Init => AuditInv
<1> SUFFICES ASSUME Init PROVE AuditInv
  OBVIOUS
<1> DEFINE first == signEntry(makeAuditBody(1, GENESIS_PREV, 1, event("deployment.installed")))
<1>1. audit = <<first>> /\ auditSeq = 1 /\ auditHead = first.hash /\ saved = <<>>
      /\ made = {first} /\ history = {<<first>>} /\ verdict = "none"
  BY DEF Init
<1>2. first.body.seq = 1 /\ first.body.prev = GENESIS_PREV /\ first = signEntry(first.body)
  BY DEF signEntry, makeAuditBody
<1> HIDE DEF first
<1>3. Len(<<first>>) = 1 /\ <<first>>[1] = first /\ <<first>> \in Seq({first})
  OBVIOUS
<1>4. Linked(<<first>>)
  BY <1>2, <1>3 DEF Linked
<1>5. SamePast(<<first>>, <<first>>)
  BY <1>3 DEF SamePast
<1>6. HistoryOK(history, made)
  BY <1>1, <1>3, <1>4, <1>5 DEF HistoryOK, lastOf
<1> QED BY <1>1, <1>3, <1>6 DEF AuditInv, LogInv, VerifierInv, lastOf

\* An event appended to a log there has been.
LEMMA AppendKeepsLog ==
  ASSUME LogInv, NEW log \in history, NEW ev,
         appendTo(log, Len(log), lastOf(log).hash, ev), saved' = saved
  PROVE  LogInv'
<1> DEFINE e == signEntry(makeAuditBody(Len(log) + 1, lastOf(log).hash, lastId + 1, ev))
<1>1. Follows(e, log)
  BY DEF Follows, signEntry, makeAuditBody
<1>2. /\ audit' = Append(log, e) /\ auditSeq' = Len(log) + 1 /\ auditHead' = e.hash
      /\ made' = made \cup {e} /\ history' = history \cup {Append(log, e)}
  BY DEF appendTo
<1> HIDE DEF e
<1>3. HistoryOK(history, made)
  BY DEF LogInv
<1>4. HistoryOK(history \cup {Append(log, e)}, made \cup {e})
  BY <1>1, <1>3, AppendKeepsHistory
<1>5. log \in Seq(made)
  BY <1>3, RowsSigned
<1>6. Len(Append(log, e)) = Len(log) + 1 /\ Append(log, e)[Len(log) + 1] = e
  BY <1>5
<1> QED BY <1>2, <1>4, <1>6 DEF LogInv, lastOf

LEMMA LogStepKeepsLog ==
  ASSUME LogInv, LogStep
  PROVE  LogInv'
<1>1. LogInv
  OBVIOUS
<1>2. audit \in history /\ auditSeq = Len(audit) /\ auditHead = lastOf(audit).hash
  BY <1>1 DEF LogInv
<1>3. ASSUME NEW ev \in Event, appendEvent(ev)
      PROVE  LogInv'
  BY <1>1, <1>2, <1>3, AppendKeepsLog DEF appendEvent
<1>4. ASSUME handleAudit
      PROVE  LogInv'
  BY <1>1, <1>2, <1>4, AppendKeepsLog DEF handleAudit
<1>5. ASSUME exportSnapshot
      PROVE  LogInv'
  BY <1>1, <1>5 DEF exportSnapshot, LogInv
<1>6. ASSUME restoreSnapshot
      PROVE  LogInv'
  <2>1. saved \in history /\ restoredHead = lastOf(saved).hash
    BY <1>1, <1>6 DEF restoreSnapshot, LogInv, restoredHead, lastOf
  <2> QED BY <1>1, <1>6, <2>1, AppendKeepsLog DEF restoreSnapshot
<1> QED BY <1>3, <1>4, <1>5, <1>6 DEF LogStep

LEMMA LogStepKeeps ==
  ASSUME AuditInv, LogStep
  PROVE  AuditInv'
<1>1. LogInv'
  BY LogStepKeepsLog DEF AuditInv
<1>2. UNCHANGED verifyVars /\ verdict = "none"
  BY DEF LogStep, appendEvent, handleAudit, exportSnapshot, restoreSnapshot
<1>3. VerifierInv'
  BY <1>2 DEF AuditInv, VerifierInv, verifyVars
<1> QED BY <1>1, <1>3 DEF AuditInv

LEMMA LogStands ==
  ASSUME LogInv, UNCHANGED logVars
  PROVE  LogInv'
  BY DEF LogInv, logVars

LEMMA BeginKeeps ==
  ASSUME AuditInv, NEW kid, NEW pin, NEW cp \in Wire \cup {NoEntry},
         beginVerify(kid, pin, cp)
  PROVE  AuditInv'
<1>1. LogInv /\ UNCHANGED logVars
  BY DEF AuditInv, beginVerify
<1>2. LogInv'
  BY <1>1, LogStands
<1>3. checkpoint' = cp /\ checked' = <<>> /\ verdict' = "open"
      /\ history' = history /\ made' = made
  BY DEF beginVerify, logVars
<1>4. CASE cp = NoEntry
  BY <1>2, <1>3, <1>4 DEF AuditInv, VerifierInv
<1>5. CASE cp # NoEntry
  <2>1. cp \in made
    BY <1>1, <1>5, OnlySigned DEF beginVerify, checkpointTrusted
  <2>2. PICK log \in history : lastOf(log) = cp
    BY <1>1, <2>1 DEF LogInv, HistoryOK
  <2>3. Len(log) \in 1 .. Len(log) /\ log[Len(log)] = cp /\ cp.body.seq = Len(log)
    BY <1>1, <2>2, RowsSigned DEF LogInv, lastOf
  <2>4. Tells(log)'
    BY <1>3, <2>3 DEF Tells
  <2>5. lastTrusted' = cp
    BY <1>3 DEF lastTrusted
  <2> QED BY <1>2, <1>3, <2>1, <2>2, <2>4, <2>5 DEF AuditInv, VerifierInv
<1> QED BY <1>4, <1>5

\* The entry accepted ends a log, and that log goes on from the one before.
LEMMA EntryKeeps ==
  ASSUME AuditInv, NEW e \in Wire, acceptEntry(e)
  PROVE  AuditInv'
<1>1. /\ LogInv /\ VerifierInv /\ UNCHANGED logVars /\ verdict = "open" /\ verdict' = "open"
      /\ checked' = Append(checked, e) /\ checkpoint' = checkpoint
      /\ history' = history /\ made' = made
  BY DEF AuditInv, acceptEntry, logVars
<1>2. LogInv' /\ HistoryOK(history, made)
  BY <1>1, LogStands DEF LogInv
<1>3. e \in made
  BY <1>1, OnlySigned DEF acceptEntry, accepts
<1>4. PICK d \in history : lastOf(d) = e
  BY <1>2, <1>3 DEF HistoryOK
<1>5. /\ d \in Seq(made) /\ Len(d) \in Nat /\ Len(d) >= 1 /\ d[Len(d)] = e
      /\ e.body.seq = Len(d)
      /\ e.body.prev = IF Len(d) = 1 THEN GENESIS_PREV ELSE d[Len(d) - 1].hash
  <2>1. Len(d) \in Nat /\ Len(d) >= 1 /\ d[Len(d)] = e /\ d \in Seq(made)
    BY <1>2, <1>4, RowsSigned DEF lastOf
  <2>2. \A i \in 1 .. Len(d) :
          /\ d[i].body.seq = i
          /\ d[i].body.prev = IF i = 1 THEN GENESIS_PREV ELSE d[i - 1].hash
    BY <1>2, RowsSigned
  <2>3. Len(d) \in 1 .. Len(d)
    BY <2>1
  <2> QED BY <2>1, <2>2, <2>3
<1>6. e.body.seq = lastTrusted.body.seq + 1 /\ e.body.prev = lastTrusted.hash
  BY DEF acceptEntry, accepts, linked, expectSeq
<1>7. /\ checked \in Seq(made) /\ checkpoint \in made \cup {NoEntry}
      /\ \/ checkpoint = NoEntry /\ checked = <<>>
         \/ \E log \in history : Tells(log) /\ lastOf(log) = lastTrusted
  BY <1>1 DEF VerifierInv
<1>8. /\ checked' \in Seq(made) /\ Len(checked') = Len(checked) + 1 /\ Len(checked) \in Nat
      /\ \A i \in 1 .. Len(checked) : checked'[i] = checked[i]
      /\ checked'[Len(checked) + 1] = e
  BY <1>1, <1>3, <1>7
<1>9. lastTrusted' = e
  BY <1>8 DEF lastTrusted
<1>10. checkpoint.body.seq \in Nat
  <2>1. CASE checkpoint = NoEntry
    BY <2>1 DEF NoEntry
  <2>2. CASE checkpoint \in made
    <3>1. PICK f \in history : lastOf(f) = checkpoint
      BY <1>2, <2>2 DEF HistoryOK
    <3>2. Len(f) \in 1 .. Len(f) /\ f[Len(f)] = checkpoint
      BY <1>2, <3>1, RowsSigned DEF lastOf
    <3>3. checkpoint.body.seq = Len(f) /\ Len(f) \in Nat
      BY <1>2, <3>2, RowsSigned
    <3> QED BY <3>3
  <2> QED BY <1>7, <2>1, <2>2
<1>11. Tells(d)'
  <2>1. CASE checkpoint = NoEntry /\ checked = <<>>
    <3>1. lastTrusted.body.seq = 0 /\ checkpoint.body.seq = 0 /\ Len(checked) = 0
      BY <2>1 DEF lastTrusted, NoEntry
    <3>2. Len(d) = 1
      BY <3>1, <1>5, <1>6
    <3> QED BY <1>1, <1>5, <1>8, <3>1, <3>2 DEF Tells
  <2>2. CASE \E log \in history : Tells(log) /\ lastOf(log) = lastTrusted
    <3>1. PICK log \in history : Tells(log) /\ lastOf(log) = lastTrusted
      BY <2>2
    <3>2. Len(log) \in Nat /\ Len(log) >= 1 /\ log[Len(log)] = lastTrusted
      BY <1>2, <3>1, RowsSigned DEF lastOf
    <3>3. Len(log) \in 1 .. Len(log)
      BY <3>2
    <3>4. lastTrusted.body.seq = Len(log)
      BY <1>2, <3>2, <3>3, RowsSigned
    <3>5. Len(d) = Len(log) + 1 /\ d[Len(log)].hash = log[Len(log)].hash
          /\ Len(log) \in 1 .. Len(d)
      BY <1>5, <1>6, <3>2, <3>4
    <3>6. SamePast(d, log)
      BY <1>2 DEF HistoryOK
    <3>7. \A k \in 1 .. Len(log) : d[k] = log[k]
      BY <3>3, <3>5, <3>6 DEF SamePast
    <3> DEFINE from == checkpoint.body.seq
    <3>0. from \in Nat
      BY <1>10
    <3>8. /\ Len(log) = from + Len(checked)
          /\ from > 0 => log[from] = checkpoint
          /\ \A i \in 1 .. Len(checked) : checked[i] = log[from + i]
      BY <3>1 DEF Tells
    <3>12. Tells(d)' <=> /\ Len(d) = from + Len(checked')
                         /\ from > 0 => d[from] = checkpoint
                         /\ \A i \in 1 .. Len(checked') : checked'[i] = d[from + i]
      BY <1>1 DEF Tells
    <3> HIDE DEF from
    <3>9. Len(d) = from + Len(checked')
      BY <3>5, <3>8, <1>8, <3>0
    <3>10. from > 0 => d[from] = checkpoint
      BY <3>7, <3>8, <1>8, <3>0
    <3>11. \A i \in 1 .. Len(checked') : checked'[i] = d[from + i]
      <4> SUFFICES ASSUME NEW i \in 1 .. Len(checked')
                   PROVE  checked'[i] = d[from + i]
        OBVIOUS
      <4>1. CASE i \in 1 .. Len(checked)
        <5>1. from + i \in 1 .. Len(log)
          BY <4>1, <3>8, <1>8, <3>0
        <5> QED BY <5>1, <4>1, <3>7, <3>8, <1>8
      <4>2. CASE i = Len(checked) + 1
        <5>1. from + i = Len(d)
          BY <4>2, <3>9, <1>8
        <5> QED BY <5>1, <4>2, <1>5, <1>8
      <4> QED BY <4>1, <4>2, <1>8
    <3> QED BY <3>12, <3>9, <3>10, <3>11
  <2> QED BY <1>7, <2>1, <2>2
<1> QED BY <1>1, <1>2, <1>4, <1>7, <1>8, <1>9, <1>11 DEF AuditInv, VerifierInv

LEMMA HeadKeeps ==
  ASSUME AuditInv, NEW h, acceptHead(h)
  PROVE  AuditInv'
<1>1. /\ LogInv /\ VerifierInv /\ UNCHANGED logVars /\ verdict = "open" /\ verdict' = "valid"
      /\ UNCHANGED <<pinnedHead, checkpoint, checked>>
      /\ history' = history /\ made' = made
  BY DEF AuditInv, acceptHead, logVars
<1>2. LogInv'
  BY <1>1, LogStands
<1>3. lastTrusted # NoEntry /\ (pinnedHead = NoHead \/ pinnedHead.hash = lastTrusted.hash)
  BY DEF acceptHead, headAccepted, pinned
<1>4. lastTrusted' = lastTrusted /\ \A log : Tells(log)' <=> Tells(log)
  BY <1>1 DEF lastTrusted, Tells
<1> QED BY <1>1, <1>2, <1>3, <1>4 DEF AuditInv, VerifierInv

LEMMA FailKeeps ==
  ASSUME AuditInv, fail
  PROVE  AuditInv'
<1>1. LogInv'
  BY LogStands DEF AuditInv, fail
<1>2. VerifierInv'
  BY DEF VerifierInv, fail
<1> QED BY <1>1, <1>2 DEF AuditInv

LEMMA StutterKeeps ==
  ASSUME AuditInv, UNCHANGED auditVars
  PROVE  AuditInv'
<1>1. LogInv'
  BY LogStands DEF AuditInv, auditVars
<1>2. lastTrusted' = lastTrusted /\ \A log : Tells(log)' <=> Tells(log)
  BY DEF lastTrusted, Tells, auditVars, verifyVars
<1>3. VerifierInv'
  BY <1>2 DEF AuditInv, VerifierInv, auditVars, verifyVars, logVars
<1> QED BY <1>1, <1>3 DEF AuditInv

LEMMA AuditInvariant == Spec => []AuditInv
<1>1. Init => AuditInv
  BY InitAudit
<1>2. AuditInv /\ [Next]_auditVars => AuditInv'
  <2> SUFFICES ASSUME AuditInv, [Next]_auditVars PROVE AuditInv'
    OBVIOUS
  <2>1. CASE LogStep
    BY <2>1, LogStepKeeps
  <2>2. CASE VerifyStep
    <3>1. ASSUME NEW cp \in Wire \cup {NoEntry}, NEW kid, NEW pin, beginVerify(kid, pin, cp)
          PROVE  AuditInv'
      BY <3>1, BeginKeeps
    <3>2. ASSUME NEW e \in Wire, acceptEntry(e)
          PROVE  AuditInv'
      BY <3>2, EntryKeeps
    <3>3. ASSUME NEW h, acceptHead(h)
          PROVE  AuditInv'
      BY <3>3, HeadKeeps
    <3>4. ASSUME fail
          PROVE  AuditInv'
      BY <3>4, FailKeeps
    <3> QED BY <2>2, <3>1, <3>2, <3>3, <3>4 DEF VerifyStep
  <2>3. CASE UNCHANGED auditVars
    BY <2>3, StutterKeeps
  <2> QED BY <2>1, <2>2, <2>3 DEF Next
<1> QED BY <1>1, <1>2, PTL DEF Spec

-----------------------------------------------------------------------------
\* LogOK: appendEvent() and restoreSnapshot() keep the table, the counter and
\* the head together, and the entries linked, however often the log went back.
THEOREM LogStaysLinked == Spec => []LogOK
<1>1. AuditInv => LogOK
  <2> SUFFICES ASSUME AuditInv PROVE LogOK
    OBVIOUS
  <2>1. LogInv /\ VerifierInv
    BY DEF AuditInv
  <2>2. Linked(audit) /\ audit # <<>>
    BY <2>1 DEF LogInv, HistoryOK
  <2>3. Linked(saved)
    <3>1. CASE saved = <<>>
      BY <3>1 DEF Linked
    <3> QED BY <2>1, <3>1 DEF LogInv, HistoryOK
  <2> QED BY <2>1, <2>2, <2>3 DEF LogOK, LogInv, VerifierInv, lastOf
<1> QED BY <1>1, AuditInvariant, PTL

\* Genuine: what verifyAudit() calls valid is what the log was at some moment,
\* from its first entry or from the checkpoint on.
THEOREM VerifiedIsGenuine == Spec => []Genuine
<1>1. AuditInv => Genuine
  <2> SUFFICES ASSUME AuditInv, verdict = "valid"
               PROVE  \E log \in history : Tells(log)
    BY DEF Genuine
  <2>1. VerifierInv /\ lastTrusted # NoEntry
    BY DEF AuditInv, VerifierInv
  <2>2. ~(checkpoint = NoEntry /\ checked = <<>>)
    BY <2>1 DEF lastTrusted
  <2> QED BY <2>1, <2>2 DEF VerifierInv
<1> QED BY <1>1, AuditInvariant, PTL

\* PinnedLog: what verifyAudit() calls valid against a pinned head is the log
\* that the head was signed for, whatever branches restores made.
THEOREM PinnedIsTheLog == Spec => []PinnedLog
<1>1. AuditInv => PinnedLog
  <2> SUFFICES ASSUME AuditInv, verdict = "valid", pinnedHead # NoHead,
                      NEW c \in history, c[Len(c)].hash = pinnedHead.hash
               PROVE  Tells(c)
    BY DEF PinnedLog
  <2>1. /\ VerifierInv /\ HistoryOK(history, made)
        /\ lastTrusted # NoEntry /\ pinnedHead.hash = lastTrusted.hash
    BY DEF AuditInv, VerifierInv, LogInv
  <2>2. ~(checkpoint = NoEntry /\ checked = <<>>)
    BY <2>1 DEF lastTrusted
  <2>3. PICK d \in history : Tells(d) /\ lastOf(d) = lastTrusted
    BY <2>1, <2>2 DEF VerifierInv
  <2>4. Len(c) \in 1 .. Len(c) /\ Len(d) \in 1 .. Len(d)
    BY <2>1, RowsSigned
  <2>5. SamePast(c, d) /\ c[Len(c)].hash = d[Len(d)].hash
    BY <2>1, <2>3 DEF HistoryOK, lastOf
  <2>6. Len(c) = Len(d) /\ \A k \in 1 .. Len(c) : c[k] = d[k]
    BY <2>4, <2>5 DEF SamePast
  <2>7. checkpoint.body.seq \in Nat /\ checked \in Seq(made)
    <3>1. checked \in Seq(made) /\ checkpoint \in made \cup {NoEntry}
      BY <2>1 DEF VerifierInv
    <3>2. CASE checkpoint = NoEntry
      BY <3>1, <3>2 DEF NoEntry
    <3>3. CASE checkpoint \in made
      <4>1. PICK f \in history : lastOf(f) = checkpoint
        BY <2>1, <3>3 DEF HistoryOK
      <4>2. Len(f) \in 1 .. Len(f) /\ f[Len(f)] = checkpoint
        BY <2>1, <4>1, RowsSigned DEF lastOf
      <4>3. checkpoint.body.seq = Len(f) /\ Len(f) \in Nat
        BY <2>1, <4>2, RowsSigned
      <4> QED BY <3>1, <4>3
    <3> QED BY <3>1, <3>2, <3>3
  <2> DEFINE from == checkpoint.body.seq
  <2>8. /\ Len(d) = from + Len(checked) /\ Len(checked) \in Nat /\ from \in Nat
        /\ from > 0 => d[from] = checkpoint
        /\ \A i \in 1 .. Len(checked) : checked[i] = d[from + i]
    BY <2>3, <2>7 DEF Tells
  <2>9. Tells(c) <=> /\ Len(c) = from + Len(checked)
                     /\ from > 0 => c[from] = checkpoint
                     /\ \A i \in 1 .. Len(checked) : checked[i] = c[from + i]
    BY DEF Tells
  <2> HIDE DEF from
  <2>10. from > 0 => c[from] = checkpoint
    BY <2>4, <2>6, <2>8
  <2>11. \A i \in 1 .. Len(checked) : checked[i] = c[from + i]
    BY <2>4, <2>6, <2>8
  <2> QED BY <2>6, <2>8, <2>9, <2>10, <2>11
<1> QED BY <1>1, AuditInvariant, PTL

-----------------------------------------------------------------------------
\* The export

Own == \A e \in made : e.body.signer_kid = AuditKid

\* The pages so far are what a log holds from the anchor up to after.
Collected(log) ==
  LET from == anchor.body.seq
  IN /\ log \in history
     /\ from \in Nat
     /\ \/ anchor = NoEntry /\ from = 0
        \/ from \in 1 .. Len(log) /\ log[from] = anchor
     /\ entries \in Seq(made)
     /\ after = from + Len(entries) /\ after <= Len(log)
     /\ \A i \in 1 .. Len(entries) : entries[i] = log[from + i]

\* They go to its end, and the last page carries its head.
Whole(log) == /\ Collected(log) /\ after = Len(log)
              /\ pageHead = signHead(Len(log), lastOf(log).hash)

\* The verification of an export in progress.
Checking ==
  /\ checkpoint = anchor /\ signer = AuditKid
  /\ checked \in Seq(made) /\ Len(checked) <= Len(entries)
  /\ \A i \in 1 .. Len(checked) : checked[i] = entries[i]
  /\ verdict = "invalid" => ~fits

ExportInv ==
  /\ LogInv /\ Own
  /\ export \in {"none", "paging", "done"}
  /\ export = "none" => entries = <<>> /\ pageHead = NoHead
  /\ export = "paging" /\ ~restored => Collected(audit)
  /\ export = "done" /\ ~restored =>
       /\ \E log \in history : Whole(log)
       /\ verdict # "none" => Checking

LEMMA LogFacts ==
  ASSUME LogInv
  PROVE  /\ audit \in history /\ audit \in Seq(made)
         /\ auditSeq = Len(audit) /\ Len(audit) \in Nat /\ Len(audit) >= 1
         /\ auditHead = lastOf(audit).hash
  BY RowsSigned DEF LogInv

\* A row of a log is accepted behind the one before it.
LEMMA RowAccepted ==
  ASSUME ExportInv, NEW log \in history, Collected(log), Checking,
         Len(checked) < Len(entries)
  PROVE  accepts(entries[Len(checked) + 1])
<1>. DEFINE from == anchor.body.seq
            k == Len(checked)
            e == log[from + k + 1]
<1>1. /\ from \in Nat /\ k \in Nat /\ Len(entries) \in Nat /\ Len(log) \in Nat
      /\ from + Len(entries) <= Len(log) /\ k < Len(entries)
      /\ entries[k + 1] = e
  <2>1. /\ from \in Nat /\ k \in Nat /\ Len(entries) \in Nat
        /\ from + Len(entries) <= Len(log) /\ k < Len(entries)
    BY DEF Collected, Checking
  <2>2. Len(log) \in Nat
    BY RowsSigned DEF ExportInv, LogInv
  <2>3. k + 1 \in 1 .. Len(entries) /\ from + (k + 1) = from + k + 1
    BY <2>1
  <2>4. entries[k + 1] = log[from + (k + 1)]
    BY <2>3 DEF Collected
  <2> QED BY <2>1, <2>2, <2>3, <2>4
<1>2. from + k + 1 \in 1 .. Len(log)
  BY <1>1
<1>3. /\ e.body.seq = from + k + 1 /\ e.hash = entryHash(e.body) /\ e = signEntry(e.body)
      /\ e.body.prev = IF from + k + 1 = 1 THEN GENESIS_PREV ELSE log[from + k].hash
      /\ e \in made
  <2>. DEFINE j == from + k + 1
  <2>1. j - 1 = from + k /\ j \in 1 .. Len(log)
    BY <1>1, <1>2
  <2>. HIDE DEF j
  <2>2. /\ log[j].body.seq = j /\ log[j].hash = entryHash(log[j].body)
        /\ log[j] = signEntry(log[j].body)
        /\ log[j].body.prev = IF j = 1 THEN GENESIS_PREV ELSE log[j - 1].hash
        /\ log \in Seq(made)
    BY <2>1, RowsSigned DEF ExportInv, LogInv
  <2>3. log[j] \in made
    BY <2>1, <2>2
  <2> QED BY <2>1, <2>2, <2>3 DEF j
<1>4. e.body.signer_kid = AuditKid
  BY <1>3 DEF ExportInv, Own
<1>5. verifyEntry(e, AuditKid)
  <2>1. signEntry(e.body).signature = signature(AuditKid, entryHash(e.body))
    BY DEF signEntry
  <2> QED BY <1>3, <2>1 DEF verifyEntry
<1>6. CASE from + k = 0
  <2>1. k = 0 /\ from = 0
    BY <1>1, <1>6
  <2>2. lastTrusted = NoEntry
    BY <2>1 DEF lastTrusted, Collected, Checking
  <2> QED BY <1>1, <1>3, <1>4, <1>5, <1>6, <2>2
          DEF accepts, linked, expectSeq, signs, Checking, NoEntry
<1>7. CASE from + k # 0
  <2>1. lastTrusted = log[from + k]
    <3>1. CASE k = 0
      BY <1>1, <1>7, <3>1 DEF lastTrusted, Collected, Checking
    <3>2. CASE k # 0
      <4>1. k \in 1 .. Len(entries) /\ checked # <<>>
        BY <1>1, <3>2
      <4>2. checked[k] = log[from + k]
        BY <1>1, <4>1 DEF Checking, Collected
      <4> QED BY <4>1, <4>2 DEF lastTrusted
    <3> QED BY <3>1, <3>2
  <2>2. log[from + k].body.seq = from + k
    <3>1. from + k \in 1 .. Len(log)
      BY <1>1, <1>7
    <3> QED BY <3>1, RowsSigned DEF ExportInv, LogInv
  <2>3. from + k + 1 # 1
    BY <1>1, <1>7
  <2>. HIDE DEF from, k, e
  <2>4. accepts(e)
    BY <1>1, <1>3, <1>4, <1>5, <2>1, <2>2, <2>3 DEF accepts, linked, expectSeq, signs, Checking
  <2> QED BY <1>1, <2>4 DEF k
<1> QED BY <1>6, <1>7

\* The head of the log is accepted behind its last row.
LEMMA WholeAccepted ==
  ASSUME ExportInv, NEW log \in history, Whole(log), Checking, fits,
         Len(checked) = Len(entries)
  PROVE  headAccepted(pageHead)
<1>. DEFINE n == Len(log)
<1>1. /\ n \in Nat /\ n >= 1 /\ log[n].body.seq = n /\ lastOf(log) = log[n]
  <2>1. n \in 1 .. n
    BY RowsSigned DEF ExportInv, LogInv
  <2> QED BY <2>1, RowsSigned DEF ExportInv, LogInv, lastOf
<1>2. pageHead.seq = n /\ pageHead.hash = log[n].hash /\ pageHead.signer_kid = AuditKid
      /\ verifyHead(pageHead, AuditKid)
  BY <1>1 DEF Whole, signHead, verifyHead
<1>3. lastTrusted = log[n]
  <2>. DEFINE from == anchor.body.seq
  <2>1. /\ from \in Nat /\ Len(checked) \in Nat /\ n = from + Len(checked)
    BY DEF Whole, Collected, Checking
  <2>2. CASE Len(checked) = 0
    <3>1. checked = <<>> /\ from = n
      BY <1>1, <2>1, <2>2 DEF Checking
    <3> QED BY <1>1, <3>1 DEF lastTrusted, Whole, Collected, Checking
  <2>3. CASE Len(checked) # 0
    <3>1. checked # <<>> /\ Len(checked) \in 1 .. Len(entries)
      BY <2>1, <2>3
    <3>2. checked[Len(checked)] = log[n]
      BY <2>1, <3>1 DEF Whole, Collected, Checking
    <3> QED BY <3>1, <3>2 DEF lastTrusted
  <2> QED BY <2>2, <2>3
<1>4. lastTrusted # NoEntry
  BY <1>1, <1>3 DEF NoEntry
<1>5. pinned(pageHead)
  BY DEF pinned, fits
<1> QED BY <1>1, <1>2, <1>3, <1>4, <1>5, AuditAssumption DEF headAccepted

\* An event on any log: what was there stays.
LEMMA AppendStays ==
  ASSUME LogInv, Own, NEW log \in history, NEW seq, NEW head, NEW ev,
         appendTo(log, seq, head, ev)
  PROVE  /\ history \subseteq history' /\ made \subseteq made' /\ Own'
         /\ audit' \in history'
         /\ Len(audit') = Len(log) + 1
         /\ \A i \in 1 .. Len(log) : audit'[i] = log[i]
<1>. DEFINE entry == signEntry(makeAuditBody(seq + 1, head, lastId + 1, ev))
<1>1. /\ audit' = Append(log, entry) /\ made' = made \cup {entry}
      /\ history' = history \cup {Append(log, entry)}
  BY DEF appendTo
<1>2. entry.body.signer_kid = AuditKid
  BY DEF signEntry, makeAuditBody
<1>. HIDE DEF entry
<1>3. log \in Seq(made)
  BY RowsSigned DEF LogInv
<1> QED BY <1>1, <1>2, <1>3 DEF Own

\* A step of the log between the pages.
LEMMA LogStepStays ==
  ASSUME LogInv, Own, LogStep \/ handleAudit
  PROVE  /\ LogInv' /\ history \subseteq history' /\ made \subseteq made' /\ Own'
         /\ UNCHANGED verifyVars
         /\ \/ restoreSnapshot
            \/ Len(audit') >= Len(audit) /\ \A i \in 1 .. Len(audit) : audit'[i] = audit[i]
<1>1. /\ audit \in history /\ auditSeq = Len(audit) /\ Len(audit) \in Nat
      /\ auditHead = lastOf(audit).hash
  BY LogFacts
<1>2. ASSUME NEW ev, appendTo(audit, auditSeq, auditHead, ev)
      PROVE  /\ history \subseteq history' /\ made \subseteq made' /\ Own'
             /\ Len(audit') >= Len(audit) /\ \A i \in 1 .. Len(audit) : audit'[i] = audit[i]
  BY <1>1, <1>2, AppendStays
<1>3. ASSUME NEW ev \in Event, appendEvent(ev)
      PROVE  /\ history \subseteq history' /\ made \subseteq made' /\ Own'
             /\ UNCHANGED verifyVars
             /\ Len(audit') >= Len(audit) /\ \A i \in 1 .. Len(audit) : audit'[i] = audit[i]
  BY <1>2, <1>3 DEF appendEvent
<1>4. CASE handleAudit
  <2>1. LogInv'
    BY <1>1, <1>4, AppendKeepsLog DEF handleAudit
  <2> QED BY <1>2, <1>4, <2>1 DEF handleAudit
<1>5. CASE exportSnapshot
  <2>1. LogInv'
    BY <1>5 DEF exportSnapshot, LogInv
  <2> QED BY <1>1, <1>5, <2>1 DEF exportSnapshot, Own
<1>6. CASE restoreSnapshot
  <2>1. saved \in history /\ restoredHead = lastOf(saved).hash
    BY <1>6 DEF restoreSnapshot, LogInv, restoredHead, lastOf
  <2>2. LogInv'
    BY <1>6, <2>1, AppendKeepsLog DEF restoreSnapshot
  <2> QED BY <1>6, <2>1, <2>2, AppendStays DEF restoreSnapshot
<1>7. CASE LogStep
  BY <1>3, <1>4, <1>5, <1>6, <1>7, LogStepKeepsLog DEF LogStep
<1> QED BY <1>4, <1>7

\* What was collected of a log is collected of a longer one.
LEMMA CollectedStays ==
  ASSUME LogInv, LogInv', NEW log, NEW longer, Collected(log),
         longer \in history', made \subseteq made', Len(longer) >= Len(log),
         \A i \in 1 .. Len(log) : longer[i] = log[i],
         UNCHANGED <<anchor, entries, after>>
  PROVE  Collected(longer)'
<1>1. /\ anchor.body.seq \in Nat /\ entries \in Seq(made) /\ Len(entries) \in Nat
      /\ after = anchor.body.seq + Len(entries) /\ after <= Len(log)
  BY DEF Collected
<1>2. Len(log) \in Nat /\ Len(longer) \in Nat
  <2>1. log \in history
    BY DEF Collected
  <2> QED BY <2>1, RowsSigned DEF LogInv
<1>3. entries' \in Seq(made')
  BY <1>1, SeqMonotonic
<1>4. \A i \in 1 .. Len(entries') : entries'[i] = longer[anchor'.body.seq + i]
  <2>. SUFFICES ASSUME NEW i \in 1 .. Len(entries)
                PROVE  entries[i] = longer[anchor.body.seq + i]
    OBVIOUS
  <2>1. anchor.body.seq + i \in 1 .. Len(log)
    BY <1>1, <1>2
  <2> QED BY <2>1 DEF Collected
<1>5. \/ anchor' = NoEntry /\ anchor'.body.seq = 0
      \/ anchor'.body.seq \in 1 .. Len(longer) /\ longer[anchor'.body.seq] = anchor'
  BY <1>1, <1>2 DEF Collected
<1> QED BY <1>1, <1>2, <1>3, <1>4, <1>5 DEF Collected

LEMMA MeanwhileKeeps ==
  ASSUME ExportInv, Meanwhile
  PROVE  ExportInv'
<1>1. /\ LogInv' /\ history \subseteq history' /\ made \subseteq made' /\ Own'
      /\ UNCHANGED <<export, after, entries, pageHead, anchor>> /\ verdict' = "none"
      /\ \/ restoreSnapshot
         \/ Len(audit') >= Len(audit) /\ \A i \in 1 .. Len(audit) : audit'[i] = audit[i]
      /\ restored' = (restored \/ (export = "paging" /\ restoreSnapshot))
  BY LogStepStays DEF ExportInv, Meanwhile, LogStep, verifyVars
<1>2. ASSUME export = "paging", ~restored'
      PROVE  Collected(audit)'
  <2>1. ~restored /\ ~restoreSnapshot /\ Collected(audit)
    BY <1>1, <1>2 DEF ExportInv
  <2>2. audit' \in history'
    BY <1>1 DEF LogInv
  <2>3. PICK longer : longer = audit'
    OBVIOUS
  <2>4. Collected(longer)'
    BY <1>1, <2>1, <2>2, <2>3, CollectedStays DEF ExportInv
  <2> QED BY <2>3, <2>4 DEF Collected
<1>3. ASSUME export = "done", ~restored'
      PROVE  \E log \in history' : Whole(log)'
  <2>1. PICK log \in history : Whole(log)
    BY <1>1, <1>3 DEF ExportInv
  <2>2. Collected(log) /\ Len(log) \in Nat
    BY <2>1, RowsSigned DEF Whole, ExportInv, LogInv
  <2>3. Collected(log)'
    BY <1>1, <2>2, CollectedStays DEF ExportInv
  <2>4. Whole(log)'
    BY <1>1, <2>1, <2>3 DEF Whole
  <2> QED BY <1>1, <2>4
<1> QED BY <1>1, <1>2, <1>3 DEF ExportInv

LEMMA StartKeeps ==
  ASSUME ExportInv, NEW from \in 0 .. auditSeq, startExport(from)
  PROVE  ExportInv'
<1>1. /\ LogInv /\ audit \in history /\ auditSeq = Len(audit) /\ Len(audit) \in Nat
      /\ UNCHANGED <<auditVars, entries, pageHead, restored>>
      /\ export' = "paging" /\ after' = from /\ entries = <<>>
      /\ anchor' = IF from = 0 THEN NoEntry ELSE audit[from]
  BY LogFacts DEF ExportInv, startExport
<1>2. UNCHANGED <<logVars, audit, history, made>>
  BY <1>1 DEF auditVars, logVars
<1>3. LogInv' /\ Own'
  BY <1>1, <1>2, LogStands DEF ExportInv, Own
<1>4. anchor'.body.seq = from
  <2>1. CASE from = 0
    BY <1>1, <2>1 DEF NoEntry
  <2>2. CASE from # 0
    <3>1. from \in 1 .. Len(audit)
      BY <1>1, <2>2
    <3> QED BY <1>1, <2>2, <3>1, RowsSigned DEF LogInv
  <2> QED BY <2>1, <2>2
<1>5. Len(<<>>) = 0 /\ <<>> \in Seq(made)
  BY EmptySeq
<1>6. Collected(audit)'
  BY <1>1, <1>2, <1>4, <1>5 DEF Collected
<1> QED BY <1>1, <1>3, <1>6 DEF ExportInv

\* The rows of a page are those of the log behind after.
LEMMA PageRows ==
  ASSUME LogInv, Collected(audit)
  PROVE  /\ rows \in Seq(made) /\ Len(rows) \in Nat
         /\ after \in Nat /\ after + Len(rows) <= Len(audit)
         /\ \A i \in 1 .. Len(rows) : rows[i] = audit[after + i]
         /\ nextAfter = after + Len(rows)
         /\ ~hasMore => after + Len(rows) = Len(audit)
<1>1. /\ after \in Nat /\ after <= Len(audit) /\ auditSeq = Len(audit) /\ Len(audit) \in Nat
      /\ audit \in Seq(made)
  BY LogFacts DEF Collected
<1>. DEFINE last == IF after + PageLimit < auditSeq THEN after + PageLimit ELSE auditSeq
<1>2. PageLimit \in Nat \ {0}
  BY LimitAssumption
<1>3. last \in Nat /\ last >= after /\ last <= Len(audit) /\ (last = after => after = Len(audit))
  BY <1>1, <1>2
<1>. HIDE DEF last
<1>4. rows = SubSeq(audit, after + 1, last)
  BY DEF rows, last
<1>5. \A i \in after + 1 .. last : audit[i] \in made
  <2>. SUFFICES ASSUME NEW i \in after + 1 .. last
                PROVE  audit[i] \in made
    OBVIOUS
  <2>1. i \in 1 .. Len(audit)
    BY <1>1, <1>3
  <2> QED BY <1>1, <2>1, ElementOfSeq
<1>6. /\ rows \in Seq(made)
      /\ Len(rows) = IF after + 1 <= last THEN last - (after + 1) + 1 ELSE 0
      /\ \A i \in 1 .. last - (after + 1) + 1 : rows[i] = audit[(after + 1) + i - 1]
  <2>1. after + 1 \in Int /\ last \in Int
    BY <1>1, <1>3
  <2> QED BY <1>4, <1>5, <2>1, SubSeqProperties
<1>7. Len(rows) = last - after /\ Len(rows) \in Nat
  BY <1>1, <1>3, <1>6
<1>8. \A i \in 1 .. Len(rows) : rows[i] = audit[after + i]
  <2>. SUFFICES ASSUME NEW i \in 1 .. Len(rows)
                PROVE  rows[i] = audit[after + i]
    OBVIOUS
  <2>1. (after + 1) + i - 1 = after + i /\ i \in 1 .. last - (after + 1) + 1
    BY <1>1, <1>3, <1>7
  <2> QED BY <1>6, <2>1
<1>9. rows = <<>> <=> Len(rows) = 0
  BY <1>6, EmptySeq
<1>10. nextAfter = after + Len(rows)
  BY <1>1, <1>3, <1>7, <1>9 DEF nextAfter
<1>11. ~hasMore => after + Len(rows) = Len(audit)
  BY <1>1, <1>3, <1>7, <1>9 DEF hasMore
<1> QED BY <1>1, <1>3, <1>6, <1>7, <1>8, <1>10, <1>11

LEMMA PageKeeps ==
  ASSUME ExportInv, readPage
  PROVE  ExportInv'
<1>1. /\ export = "paging" /\ verdict = "none" /\ LogInv /\ Own
      /\ UNCHANGED <<anchor, restored>>
      /\ entries' = entries \o rows /\ after' = nextAfter
      /\ export' = IF hasMore THEN "paging" ELSE "done"
      /\ pageHead' = signHead(auditSeq, auditHead)
      /\ handleAudit
  BY DEF ExportInv, readPage, signCurrentHead
<1>2. /\ LogInv' /\ history \subseteq history' /\ made \subseteq made' /\ Own'
      /\ verdict' = "none" /\ audit' \in history'
  BY <1>1, LogStepStays DEF verifyVars, LogInv
<1>3. Len(audit') >= Len(audit) /\ \A i \in 1 .. Len(audit) : audit'[i] = audit[i]
  <2>1. audit \in history /\ auditSeq = Len(audit) /\ Len(audit) \in Nat
    BY <1>1, LogFacts
  <2> QED BY <1>1, <2>1, AppendStays DEF handleAudit
<1>4. ASSUME ~restored, NEW log \in history', Len(log) >= Len(audit),
             \A i \in 1 .. Len(audit) : log[i] = audit[i]
      PROVE  Collected(log)'
  <2>. DEFINE from == anchor.body.seq
  <2>1. Collected(audit)
    BY <1>1, <1>4 DEF ExportInv
  <2>2. /\ rows \in Seq(made) /\ Len(rows) \in Nat /\ after \in Nat
        /\ after + Len(rows) <= Len(audit) /\ after' = after + Len(rows)
        /\ \A i \in 1 .. Len(rows) : rows[i] = audit[after + i]
    BY <1>1, <2>1, PageRows
  <2>3. /\ from \in Nat /\ entries \in Seq(made) /\ Len(entries) \in Nat
        /\ after = from + Len(entries)
        /\ Len(audit) \in Nat /\ Len(log) \in Nat
    BY <1>1, <1>2, <1>4, <2>1, LogFacts, RowsSigned DEF Collected, LogInv
  <2>4. /\ entries' \in Seq(made) /\ Len(entries') = Len(entries) + Len(rows)
        /\ \A i \in 1 .. Len(entries) + Len(rows) :
             entries'[i] = IF i <= Len(entries) THEN entries[i] ELSE rows[i - Len(entries)]
    BY <1>1, <2>2, <2>3, ConcatProperties
  <2>5. entries' \in Seq(made')
    BY <1>2, <2>4, SeqMonotonic
  <2>6. ASSUME NEW i \in 1 .. Len(entries')
        PROVE  entries'[i] = log[from + i]
    <3>0. i \in 1 .. Len(entries) + Len(rows)
      <4>1. i \in 1 .. Len(entries')
        BY <2>6
      <4> QED BY <2>4, <4>1
    <3>1. from + i \in 1 .. Len(audit)
      <4>1. from + Len(entries) + Len(rows) <= Len(audit)
        BY <2>2, <2>3
      <4>. HIDE DEF from
      <4> QED BY <2>2, <2>3, <3>0, <4>1
    <3>2. CASE i <= Len(entries)
      <4>1. i \in 1 .. Len(entries)
        BY <2>3, <3>2
      <4> QED BY <1>4, <2>1, <2>3, <2>4, <3>1, <3>2, <4>1 DEF Collected
    <3>3. CASE ~(i <= Len(entries))
      <4>1. /\ i - Len(entries) \in 1 .. Len(rows)
            /\ after + (i - Len(entries)) = from + i
        <5>1. /\ Len(rows) \in Nat /\ Len(entries) \in Nat /\ from \in Nat
              /\ after = from + Len(entries)
          BY <2>2, <2>3
        <5>. HIDE DEF from
        <5> QED BY <3>0, <3>3, <5>1
      <4>2. rows[i - Len(entries)] = audit[from + i]
        BY <2>2, <4>1
      <4> QED BY <1>4, <2>4, <3>1, <3>3, <4>2
    <3> QED BY <3>2, <3>3
  <2>7. after' = from + Len(entries') /\ after' <= Len(log)
    BY <1>4, <2>2, <2>3, <2>4
  <2>8. \/ anchor = NoEntry /\ from = 0
        \/ from \in 1 .. Len(log) /\ log[from] = anchor
    BY <1>4, <2>1, <2>3 DEF Collected
  <2> QED BY <1>1, <1>4, <2>3, <2>5, <2>6, <2>7, <2>8 DEF Collected
<1>5. ASSUME export' = "paging", ~restored'
      PROVE  Collected(audit)'
  <2>1. PICK log : log = audit'
    OBVIOUS
  <2>2. Collected(log)'
    BY <1>1, <1>2, <1>3, <1>4, <1>5, <2>1
  <2> QED BY <2>1, <2>2 DEF Collected
<1>6. ASSUME export' = "done", ~restored'
      PROVE  \E log \in history' : Whole(log)'
  <2>1. PICK log : log = audit
    OBVIOUS
  <2>2. audit \in history' /\ Len(audit) \in Nat /\ auditSeq = Len(audit)
        /\ auditHead = lastOf(audit).hash
    BY <1>1, <1>2, LogFacts
  <2>3. Collected(log)'
    BY <1>1, <1>4, <1>6, <2>1, <2>2
  <2>4. ~hasMore /\ Collected(audit)
    BY <1>1, <1>6 DEF ExportInv
  <2>5. after' = Len(log)
    BY <1>1, <2>1, <2>4, PageRows
  <2>6. pageHead' = signHead(Len(log), lastOf(log).hash)
    BY <1>1, <2>1, <2>2
  <2> QED BY <2>1, <2>2, <2>3, <2>5, <2>6 DEF Whole
<1>7. export' \in {"paging", "done"}
  BY <1>1
<1> QED BY <1>2, <1>5, <1>6, <1>7 DEF ExportInv

\* A verification: the log stands, and the export with it.
LEMMA VerifyKeeps ==
  ASSUME ExportInv, UNCHANGED <<logVars, exportVars>>,
         export = "done" /\ ~restored /\ verdict' # "none" => Checking'
  PROVE  ExportInv'
<1>1. /\ LogInv /\ UNCHANGED <<audit, history, made, export, after, entries, pageHead, anchor, restored>>
  BY DEF ExportInv, logVars, exportVars
<1>2. LogInv' /\ Own'
  BY <1>1, LogStands DEF ExportInv, Own
<1>3. \A log : Collected(log) => Collected(log)'
  BY <1>1 DEF Collected
<1>4. \A log : Whole(log) => Whole(log)'
  BY <1>1, <1>3 DEF Whole
<1>5. Collected(audit) => Collected(audit)'
  BY <1>1 DEF Collected
<1> QED BY <1>1, <1>2, <1>4, <1>5 DEF ExportInv

LEMMA VerifyExportKeeps ==
  ASSUME ExportInv, VerifyExport
  PROVE  ExportInv'
<1>1. UNCHANGED <<logVars, exportVars>>
  BY DEF VerifyExport, beginVerify, checkEntry, checkHead, acceptEntry, acceptHead, fail
<1>2. UNCHANGED <<made, export, entries, pageHead, anchor, restored>>
  BY <1>1 DEF logVars, exportVars
<1>3. ASSUME export = "done", ~restored
      PROVE  Checking'
  <2>1. PICK log \in history : Whole(log)
    BY <1>3 DEF ExportInv
  <2>2. Collected(log) /\ entries \in Seq(made) /\ Len(entries) \in Nat
    BY <2>1 DEF Whole, Collected
  <2>3. ASSUME NEW pin, beginVerify(AuditKid, pin, anchor)
        PROVE  Checking'
    <3>1. /\ checkpoint' = anchor /\ checked' = <<>> /\ verdict' = "open"
          /\ signer' = IF anchor = NoEntry THEN AuditKid ELSE anchor.body.signer_kid
      BY <2>3 DEF beginVerify
    <3>2. anchor # NoEntry => anchor.body.signer_kid = AuditKid
      <4>1. log \in Seq(made)
        BY RowsSigned DEF ExportInv, LogInv
      <4>2. anchor # NoEntry => anchor \in made
        BY <2>2, <4>1 DEF Collected
      <4> QED BY <4>2 DEF ExportInv, Own
    <3>3. Len(<<>>) = 0 /\ <<>> \in Seq(made')
      BY EmptySeq
    <3> QED BY <1>2, <2>2, <3>1, <3>2, <3>3 DEF Checking
  <2>4. ASSUME Len(checked) < Len(entries), checkEntry(entries[Len(checked) + 1])
        PROVE  Checking'
    <3>. DEFINE e == entries[Len(checked) + 1]
    <3>1. Checking
      BY <1>3, <2>4 DEF ExportInv, checkEntry, acceptEntry, fail
    <3>2. accepts(e)
      BY <2>2, <2>4, <3>1, RowAccepted
    <3>3. Len(checked) \in Nat /\ Len(checked) + 1 \in 1 .. Len(entries)
      BY <2>2, <2>4, <3>1 DEF Checking
    <3>4. e \in made
      BY <2>2, <3>3, ElementOfSeq
    <3>5. e.body.signer_kid = AuditKid
      BY <3>4 DEF ExportInv, Own
    <3>6. /\ checked' = Append(checked, e) /\ signer' = AuditKid /\ verdict' = "open"
          /\ UNCHANGED checkpoint
      <4>1. acceptEntry(e)
        BY <2>4, <3>2 DEF checkEntry
      <4> QED BY <3>5, <4>1 DEF acceptEntry
    <3>7. e = entries[Len(checked) + 1]
      OBVIOUS
    <3>. HIDE DEF e
    <3>8. /\ checked' \in Seq(made) /\ Len(checked') = Len(checked) + 1
          /\ \A i \in 1 .. Len(checked') : checked'[i] = entries[i]
      BY <3>1, <3>3, <3>4, <3>6, <3>7 DEF Checking
    <3> QED BY <1>2, <3>1, <3>3, <3>6, <3>8 DEF Checking
  <2>5. ASSUME Len(checked) = Len(entries), checkHead(pageHead)
        PROVE  Checking'
    <3>1. Checking /\ UNCHANGED <<checkpoint, signer, checked, pinnedHead>>
      BY <1>3, <2>5 DEF ExportInv, checkHead, acceptHead, fail
    <3>2. fits => headAccepted(pageHead)
      BY <2>1, <2>5, <3>1, WholeAccepted
    <3>3. verdict' = "invalid" => ~fits
      BY <2>5, <3>2 DEF checkHead, acceptHead
    <3>4. fits' <=> fits
      BY <1>2, <3>1 DEF fits
    <3> QED BY <1>2, <3>1, <3>3, <3>4 DEF Checking
  <2> QED BY <2>3, <2>4, <2>5 DEF VerifyExport
<1> QED BY <1>1, <1>3, VerifyKeeps

LEMMA ExportInvariant == ExportSpec => []ExportInv
<1>1. EInit => ExportInv
  <2>. SUFFICES ASSUME EInit
                PROVE  ExportInv
    OBVIOUS
  <2>1. LogInv
    BY InitAudit DEF EInit, AuditInv
  <2>2. Own
    BY DEF EInit, Init, Own, signEntry, makeAuditBody
  <2> QED BY <2>1, <2>2 DEF EInit, ExportInv
<1>2. ExportInv /\ [ENext]_allVars => ExportInv'
  <2>. SUFFICES ASSUME ExportInv, [ENext]_allVars
                PROVE  ExportInv'
    OBVIOUS
  <2>1. CASE VerifyOther
    <3>1. export = "none" /\ UNCHANGED <<logVars, exportVars>>
      BY <2>1 DEF VerifyOther, VerifyStep, beginVerify, acceptEntry, acceptHead, fail
    <3> QED BY <3>1, VerifyKeeps
  <2>2. CASE UNCHANGED allVars
    <3>1. /\ UNCHANGED <<logVars, exportVars>>
          /\ UNCHANGED <<checkpoint, signer, checked, verdict, pinnedHead, made, entries,
                         pageHead, anchor>>
      BY <2>2 DEF allVars, auditVars, verifyVars, logVars, exportVars
    <3>2. Checking => Checking'
      BY <3>1 DEF Checking, fits
    <3>3. export = "done" /\ ~restored /\ verdict' # "none" => Checking'
      BY <3>1, <3>2 DEF ExportInv
    <3> QED BY <3>1, <3>3, VerifyKeeps
  <2> QED BY <2>1, <2>2, MeanwhileKeeps, StartKeeps, PageKeeps, VerifyExportKeeps DEF ENext
<1> QED BY <1>1, <1>2, PTL DEF ExportSpec

\* Pages collected to the end of a log verify as one, whatever is logged
\* between them, for every page size: what they hold is one branch of the log.
THEOREM ExportsVerify == ExportSpec => []ExportVerifies
<1>1. ExportInv => ExportVerifies
  BY DEF ExportInv, ExportVerifies, Checking
<1> QED BY <1>1, ExportInvariant, PTL

-----------------------------------------------------------------------------
\* The way to the end of an export

\* No restore makes the log shorter than the snapshot it comes from.
PlaceInv == after \in Nat /\ Len(saved) <= Len(audit)

LEMMA LogLengths ==
  ASSUME LogInv
  PROVE  /\ auditSeq = Len(audit) /\ Len(audit) \in Nat /\ Len(saved) \in Nat
         /\ saved \in Seq(made)
<1>1. saved = <<>> => saved \in Seq(made)
  BY EmptySeq
<1>2. saved \in history => saved \in Seq(made)
  BY RowsSigned DEF LogInv
<1> QED BY <1>1, <1>2, LogFacts DEF LogInv

\* An append adds a row; a restore adds its row to the log of the snapshot.
LEMMA AppendLengths ==
  ASSUME LogInv, NEW log \in Seq(made), NEW seq, NEW head, NEW ev,
         appendTo(log, seq, head, ev)
  PROVE  auditSeq' = seq + 1 /\ Len(audit') = Len(log) + 1
  BY DEF appendTo

LEMMA MeanwhileLengths ==
  ASSUME LogInv, Len(saved) <= Len(audit), Meanwhile
  PROVE  /\ Len(saved') <= Len(audit') /\ auditSeq' <= auditSeq + 1
         /\ auditSeq' \in Nat /\ UNCHANGED after
<1>1. /\ auditSeq = Len(audit) /\ Len(audit) \in Nat /\ Len(saved) \in Nat
      /\ saved \in Seq(made) /\ audit \in Seq(made)
  BY LogLengths, LogFacts
<1>2. ASSUME \/ \E ev \in Event : appendEvent(ev)
             \/ handleAudit
      PROVE  auditSeq' = auditSeq + 1 /\ Len(audit') = Len(audit) + 1 /\ saved' = saved
  BY <1>1, <1>2, AppendLengths DEF appendEvent, handleAudit
<1>3. ASSUME restoreSnapshot
      PROVE  auditSeq' = Len(saved) + 1 /\ Len(audit') = Len(saved) + 1 /\ saved' = saved
  BY <1>1, <1>3, AppendLengths DEF restoreSnapshot
<1>4. ASSUME exportSnapshot
      PROVE  auditSeq' = auditSeq /\ audit' = audit /\ saved' = audit
  BY <1>4 DEF exportSnapshot
<1> QED BY <1>1, <1>2, <1>3, <1>4 DEF Meanwhile, LogStep

\* A page that is not the last one is full.
LEMMA FullPage ==
  ASSUME LogInv, after \in Nat
  PROVE  /\ nextAfter \in Nat
         /\ hasMore => nextAfter = after + PageLimit /\ auditSeq - after > PageLimit
<1>. DEFINE last == IF after + PageLimit < auditSeq THEN after + PageLimit ELSE auditSeq
<1>1. auditSeq = Len(audit) /\ Len(audit) \in Nat /\ audit \in Seq(made)
  BY LogFacts
<1>2. PageLimit \in Nat \ {0} /\ last \in Nat
  BY <1>1, LimitAssumption
<1>3. rows = SubSeq(audit, after + 1, last) /\ last <= Len(audit)
  BY <1>1, <1>2 DEF rows
<1>4. last = auditSeq \/ (last = after + PageLimit /\ after + PageLimit < auditSeq)
  OBVIOUS
<1>. HIDE DEF last
<1>5. \A i \in after + 1 .. last : audit[i] \in made
  <2>. SUFFICES ASSUME NEW i \in after + 1 .. last
                PROVE  audit[i] \in made
    OBVIOUS
  <2>1. i \in 1 .. Len(audit)
    BY <1>1, <1>2, <1>3
  <2> QED BY <1>1, <2>1, ElementOfSeq
<1>6. Len(rows) = IF after + 1 <= last THEN last - (after + 1) + 1 ELSE 0
  <2>1. after + 1 \in Int /\ last \in Int
    BY <1>2
  <2> QED BY <1>3, <1>5, <2>1, SubSeqProperties
<1>7. nextAfter \in Nat
  BY <1>1, <1>2, <1>6 DEF nextAfter
<1>8. ASSUME hasMore
      PROVE  nextAfter = after + PageLimit /\ auditSeq - after > PageLimit
  <2>1. rows # <<>> /\ after + Len(rows) < auditSeq /\ nextAfter = after + Len(rows)
    BY <1>8 DEF hasMore, nextAfter
  <2>2. last = after + PageLimit /\ after + PageLimit < auditSeq
    BY <1>1, <1>2, <1>4, <1>6, <2>1
  <2>3. Len(rows) = PageLimit
    BY <1>2, <1>6, <2>2
  <2> QED BY <1>1, <1>2, <2>1, <2>2, <2>3
<1> QED BY <1>7, <1>8

LEMMA PlaceKept ==
  ASSUME LogInv, PlaceInv, [ENext]_allVars
  PROVE  PlaceInv'
<1>1. /\ auditSeq = Len(audit) /\ Len(audit) \in Nat /\ Len(saved) \in Nat
      /\ audit \in Seq(made) /\ after \in Nat /\ Len(saved) <= Len(audit)
  BY LogLengths, LogFacts DEF PlaceInv
<1>2. CASE Meanwhile
  BY <1>1, <1>2, MeanwhileLengths DEF PlaceInv
<1>3. CASE VerifyOther \/ VerifyExport \/ UNCHANGED allVars
  <2>1. UNCHANGED <<after, saved, audit>>
    BY <1>3 DEF VerifyOther, VerifyStep, VerifyExport, beginVerify, checkEntry, checkHead,
                acceptEntry, acceptHead, fail, allVars, auditVars, logVars, exportVars
  <2> QED BY <1>1, <2>1 DEF PlaceInv
<1>4. ASSUME NEW from \in 0 .. auditSeq, startExport(from)
      PROVE  PlaceInv'
  <2>1. after' = from /\ UNCHANGED <<saved, audit>>
    BY <1>4 DEF startExport, auditVars, logVars
  <2> QED BY <1>1, <2>1 DEF PlaceInv
<1>5. CASE readPage
  <2>1. after' = nextAfter /\ saved' = saved /\ Len(audit') = Len(audit) + 1
    BY <1>1, <1>5, AppendLengths DEF readPage, handleAudit
  <2> QED BY <1>1, <2>1, FullPage DEF PlaceInv
<1> QED BY <1>2, <1>3, <1>4, <1>5 DEF ENext

\* Every page but the last brings the end of the log PageLimit - 1 rows nearer,
\* for every page size, and every other request takes it at most one row away.
THEOREM ExportsProgress == ExportSpec => ExportProgresses
<1>1. EInit => PlaceInv
  BY LogFacts, InitAudit DEF EInit, Init, PlaceInv, AuditInv
<1>2. ExportInv /\ PlaceInv /\ [ENext]_allVars => PlaceInv'
  BY PlaceKept DEF ExportInv
<1>3. ExportInv /\ PlaceInv /\ [ENext]_allVars
        => [export = "paging" =>
              \/ export' = "done"
              \/ after' # after /\ toFetch > PageLimit /\ toFetch' = toFetch + 1 - PageLimit
              \/ after' = after /\ toFetch' <= toFetch + 1]_allVars
  <2>. SUFFICES ASSUME ExportInv, PlaceInv, ENext, export = "paging"
                PROVE  \/ export' = "done"
                       \/ /\ after' # after /\ toFetch > PageLimit
                          /\ toFetch' = toFetch + 1 - PageLimit
                       \/ after' = after /\ toFetch' <= toFetch + 1
    OBVIOUS
  <2>1. /\ LogInv /\ after \in Nat /\ Len(saved) <= Len(audit) /\ audit \in Seq(made)
        /\ auditSeq = Len(audit) /\ auditSeq \in Nat /\ PageLimit \in Nat \ {0}
    BY LogFacts, LimitAssumption DEF ExportInv, PlaceInv
  <2>2. CASE Meanwhile
    BY <2>1, <2>2, MeanwhileLengths DEF toFetch
  <2>3. CASE VerifyExport
    <3>1. UNCHANGED <<after, auditSeq>>
      BY <2>3 DEF VerifyExport, beginVerify, checkEntry, checkHead, acceptEntry,
                  acceptHead, fail, logVars, exportVars
    <3> QED BY <2>1, <3>1 DEF toFetch
  <2>4. CASE readPage
    <3>1. CASE ~hasMore
      BY <2>4, <3>1 DEF readPage
    <3>2. CASE hasMore
      <4>1. after' = after + PageLimit /\ auditSeq - after > PageLimit
        BY <2>1, <2>4, <3>2, FullPage DEF readPage
      <4>2. auditSeq' = auditSeq + 1
        BY <2>4 DEF readPage, handleAudit, appendTo
      <4> QED BY <2>1, <4>1, <4>2 DEF toFetch
    <3> QED BY <3>1, <3>2
  <2> QED BY <2>2, <2>3, <2>4 DEF ENext, VerifyOther, startExport
<1> QED BY <1>1, <1>2, <1>3, ExportInvariant, PTL DEF ExportSpec, ExportProgresses
=============================================================================

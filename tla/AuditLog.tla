------------------------------ MODULE AuditLog ------------------------------
(***************************************************************************)
(* The audit log of the authority (appendEvent, handleAudit, and what a    *)
(* restore does to it) and its offline verification (core/audit.ts).       *)
(*                                                                         *)
(* Hashes and signatures are perfect: the hash of a body is the body in    *)
(* brackets, a signature names its key and what it signs.  A page may be   *)
(* damaged on its way: the verifier reads anything that can be put         *)
(* together from what was ever signed.  verifyAudit's loop is one step an  *)
(* entry.  It reads the page and the trust document and nothing else, so   *)
(* the log stands still meanwhile and a behaviour ends with the verdict.   *)
(***************************************************************************)
EXTENDS Integers, Sequences

CONSTANTS
  AuditKid,   \* active_audit_kid, set at bootstrap
  TrustedKid, \* the keys of the trust document
  Event,      \* kind and key_id of the events of the other routes
  MaxOther,   \* bound: events signed when the other routes fall silent
  MaxEvents   \* bound: events ever signed

ASSUME AuditAssumption == AuditKid \in TrustedKid

VARIABLES
  audit, auditSeq, auditHead, \* table audit, meta.audit_seq and meta.audit_head
  saved,                      \* the log in the snapshot
  lastId,                     \* event ids made so far
  made, heads, history,       \* observations: entries and heads ever signed,
                              \* and every content the log ever had
  \* a verification: the trust document, the entries accepted, the result
  pinnedHead, checkpoint, checked, signer, verdict

logVars == <<audit, auditSeq, auditHead, saved, lastId, made, heads, history>>
verifyVars == <<pinnedHead, checkpoint, checked, signer, verdict>>
auditVars == <<logVars, verifyVars>>

GENESIS_PREV == <<>>
entryHash(body) == <<body>>
signature(kid, content) == [by |-> kid, of |-> content]

signEntry(body) ==
  [body |-> body, hash |-> entryHash(body),
   signature |-> signature(AuditKid, entryHash(body))]
signHead(seq, hash) ==
  [seq |-> seq, hash |-> hash, signer_kid |-> AuditKid,
   signature |-> signature(AuditKid, <<seq, hash>>)]

NoEntry == [body |-> [seq |-> 0], hash |-> GENESIS_PREV]
NoHead == [seq |-> 0, hash |-> GENESIS_PREV]

makeAuditBody(seq, prev, id, ev) ==
  [seq |-> seq, prev |-> prev, event_id |-> id, signer_kid |-> AuditKid,
   kind |-> ev.kind, key_id |-> ev.key_id]
event(kind) == [kind |-> kind, key_id |-> "none"]

\* bootstrap() logs the installation.
Init ==
  LET first == signEntry(makeAuditBody(1, GENESIS_PREV, 1, event("deployment.installed")))
  IN /\ audit = <<first>>
     /\ auditSeq = 1
     /\ auditHead = first.hash
     /\ saved = <<>>
     /\ lastId = 1
     /\ made = {first}
     /\ heads = {}
     /\ history = {<<first>>}
     /\ pinnedHead = NoHead /\ checkpoint = NoEntry
     /\ checked = <<>> /\ signer = AuditKid
     /\ verdict = "none"

-----------------------------------------------------------------------------
\* The log

\* Appends an event to a log, given its head, in a transaction that commits.
\* Event ids are random: they are new after a restore too.
appendTo(log, seq, head, ev) ==
  LET entry == signEntry(makeAuditBody(seq + 1, head, lastId + 1, ev))
  IN /\ lastId < MaxEvents
     /\ audit' = Append(log, entry)
     /\ auditSeq' = seq + 1
     /\ auditHead' = entry.hash
     /\ lastId' = lastId + 1
     /\ made' = made \cup {entry}
     /\ history' = history \cup {Append(log, entry)}

\* An event of another route than /audit.
appendEvent(ev) ==
  /\ lastId < MaxOther
  /\ appendTo(audit, auditSeq, auditHead, ev)
  /\ UNCHANGED <<saved, heads, verifyVars>>

\* Faulty form (ExportVerifies): the read is logged before the head is signed.
signCurrentHead_WithRead ==
  signHead(auditSeq + 1, entryHash(makeAuditBody(auditSeq + 1, auditHead, lastId + 1,
                                                 event("audit.read"))))

\* The event of a read is not on the page it returns.
signCurrentHead == signHead(auditSeq, auditHead)

handleAudit ==
  /\ heads' = heads \cup {signCurrentHead}
  /\ appendTo(audit, auditSeq, auditHead, event("audit.read"))
  /\ UNCHANGED <<saved, verifyVars>>

exportSnapshot ==
  /\ saved' = audit
  /\ UNCHANGED <<audit, auditSeq, auditHead, lastId, made, heads, history, verifyVars>>

\* Faulty form (LogOK): meta.audit_head is not among the restored rows.
restoredHead_Kept == auditHead

restoredHead == saved[Len(saved)].hash

\* The log goes back to the snapshot's and on from there.
restoreSnapshot ==
  /\ saved # <<>>
  /\ lastId < MaxOther
  /\ appendTo(saved, Len(saved), restoredHead, event("storage.migrated"))
  /\ UNCHANGED <<saved, heads, verifyVars>>

LogStep ==
  /\ verdict = "none"
  /\ \/ \E ev \in Event : appendEvent(ev)
     \/ lastId < MaxOther /\ handleAudit
     \/ exportSnapshot \/ restoreSnapshot

-----------------------------------------------------------------------------
\* Offline verification

verifyEntry(e, kid) == e.signature = signature(kid, e.hash)
verifyHead(h, kid) == h.signature = signature(kid, <<h.seq, h.hash>>)

checkpointTrusted(cp) ==
  /\ entryHash(cp.body) = cp.hash
  /\ cp.body.signer_kid \in TrustedKid
  /\ verifyEntry(cp, cp.body.signer_kid)

\* The trust document names the first signer and perhaps a head that the page
\* must end at and an entry that it must go on from; one whose own signature
\* does not verify ends the verification before it begins.
beginVerify(initial_kid, pin, cp) ==
  /\ verdict = "none"
  /\ cp = NoEntry \/ checkpointTrusted(cp)
  /\ pinnedHead' = pin /\ checkpoint' = cp
  /\ checked' = <<>>
  /\ signer' = IF cp = NoEntry THEN initial_kid ELSE cp.body.signer_kid
  /\ verdict' = "open"
  /\ UNCHANGED logVars

lastTrusted == IF checked = <<>> THEN checkpoint ELSE checked[Len(checked)]
expectSeq == lastTrusted.body.seq + 1

\* Faulty form (Genuine): the link to the entry before is not looked at.
linked_SeqOnly(body) == body.seq = expectSeq

linked(body) == body.seq = expectSeq /\ body.prev = lastTrusted.hash

\* The signer so far, or the one that a rotation brings in.
signs(body) ==
  \/ body.signer_kid = signer
  \/ /\ body.kind = "key.rotated"
     /\ body.signer_kid \in TrustedKid
     /\ body.key_id = body.signer_kid

accepts(e) ==
  /\ linked(e.body)
  /\ entryHash(e.body) = e.hash
  /\ signs(e.body)
  /\ verifyEntry(e, e.body.signer_kid)

fail ==
  /\ verdict = "open"
  /\ verdict' = "invalid"
  /\ UNCHANGED <<logVars, pinnedHead, checkpoint, checked, signer>>

acceptEntry(e) ==
  /\ verdict = "open"
  /\ accepts(e)
  /\ checked' = Append(checked, e)
  /\ signer' = e.body.signer_kid
  /\ UNCHANGED <<logVars, pinnedHead, checkpoint, verdict>>

checkEntry(e) == acceptEntry(e) \/ (~accepts(e) /\ fail)

\* Faulty form (PinnedLog): only the sequence number of the pinned head counts.
pinned_BySeq(h) == pinnedHead = NoHead \/ pinnedHead.seq = h.seq

pinned(h) ==
  \/ pinnedHead = NoHead
  \/ /\ pinnedHead.seq = h.seq /\ pinnedHead.hash = h.hash
     /\ pinnedHead.signer_kid = h.signer_kid

\* The head is that of the last entry, or of the checkpoint if there is none.
headAccepted(h) ==
  /\ h.signer_kid \in TrustedKid
  /\ verifyHead(h, h.signer_kid)
  /\ lastTrusted # NoEntry
  /\ h.seq = lastTrusted.body.seq /\ h.hash = lastTrusted.hash
  /\ pinned(h)

acceptHead(h) ==
  /\ verdict = "open"
  /\ headAccepted(h)
  /\ verdict' = "valid"
  /\ UNCHANGED <<logVars, pinnedHead, checkpoint, checked, signer>>

checkHead(h) == acceptHead(h) \/ (~headAccepted(h) /\ fail)

-----------------------------------------------------------------------------
\* What can be put together from what was ever signed: bodies with another
\* kind or another predecessor, their hashes, and old signatures.
OtherBody == {[e.body EXCEPT !.kind = ev.kind] : e \in made, ev \in Event}
               \cup {[e.body EXCEPT !.prev = f.hash] : e \in made, f \in made}
Wire ==
  UNION {UNION {[body : {b}, hash : {e.hash, entryHash(b)}, signature : {e.signature}] :
                  b \in {f.body : f \in made} \cup OtherBody} : e \in made}
WireHead ==
  heads \cup {[h EXCEPT !.seq = e.body.seq, !.hash = e.hash] : h \in heads, e \in made}

\* Whatever else is on the page fails.
VerifyStep ==
  \/ \E cp \in {e \in Wire : checkpointTrusted(e)} \cup {NoEntry} :
        \E kid \in TrustedKid, pin \in heads \cup {NoHead} : beginVerify(kid, pin, cp)
  \/ \E e \in Wire : acceptEntry(e)
  \/ \E h \in WireHead : acceptHead(h)
  \/ fail

Next == LogStep \/ VerifyStep

Spec == Init /\ [][Next]_auditVars

-----------------------------------------------------------------------------
\* Properties

Linked(log) ==
  \A i \in 1 .. Len(log) :
    /\ log[i] = signEntry(log[i].body)
    /\ log[i].body.seq = i
    /\ log[i].body.prev = IF i = 1 THEN GENESIS_PREV ELSE log[i - 1].hash

\* The table, the sequence counter and the head belong together, before and
\* after restores, and so do the entries of the snapshot.
LogOK ==
  /\ Linked(audit) /\ audit # <<>> /\ Linked(saved)
  /\ auditSeq = Len(audit)
  /\ auditHead = audit[Len(audit)].hash
  /\ verdict \in {"none", "open", "valid", "invalid"}

\* The entries accepted, behind those up to the checkpoint, are the log.
Tells(log) ==
  LET from == checkpoint.body.seq
  IN /\ Len(log) = from + Len(checked)
     /\ from > 0 => log[from] = checkpoint
     /\ \A i \in 1 .. Len(checked) : checked[i] = log[from + i]

\* README: "Signed, hash-chained audit with offline verification".  A page
\* that verifies, whatever happened to it on the way and however restores
\* forked the log, is what the log was from its first entry, or from the
\* checkpoint, to its last at some moment.
Genuine == verdict = "valid" => \E log \in history : Tells(log)

\* README: "pinned heads".  A page that verifies against a pinned head is the
\* log that the head was signed for, and not another branch of it.
PinnedLog ==
  verdict = "valid" /\ pinnedHead # NoHead =>
    \A log \in history : log[Len(log)].hash = pinnedHead.hash => Tells(log)
=============================================================================

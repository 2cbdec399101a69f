---------------------------- MODULE AuditExport ----------------------------
(***************************************************************************)
(* Exporting the audit log and verifying the export.  The command line     *)
(* takes one page; tests/extra.test.ts ("audit continuity") goes on until  *)
(* has_more is false and verifies the pages as one.  Other requests may    *)
(* log events between the pages, and every page read logs one itself.      *)
(***************************************************************************)
EXTENDS AuditLog

CONSTANT PageLimit \* the query's limit

ASSUME LimitAssumption == PageLimit \in Nat \ {0}

VARIABLES
  export,             \* "none", "paging" or "done" (has_more was false)
  after,              \* the query's after
  entries, pageHead,  \* what the export holds
  anchor, restored    \* observations: the entry at its start; a restore came
                      \* in between

exportVars == <<export, after, entries, pageHead, anchor, restored>>
allVars == <<auditVars, exportVars>>

EInit ==
  /\ Init
  /\ export = "none"
  /\ after = 0 /\ entries = <<>> /\ pageHead = NoHead
  /\ anchor = NoEntry /\ restored = FALSE

startExport(from) ==
  /\ export = "none" /\ verdict = "none"
  /\ export' = "paging"
  /\ after' = from
  /\ anchor' = IF from = 0 THEN NoEntry ELSE audit[from]
  /\ UNCHANGED <<auditVars, entries, pageHead, restored>>

\* SELECT ... WHERE seq > after ORDER BY seq LIMIT limit
rows == SubSeq(audit, after + 1,
               IF after + PageLimit < auditSeq THEN after + PageLimit ELSE auditSeq)

\* Faulty form (ExportEnds): the next page starts with the last row of this one.
nextAfter_Overlap ==
  IF rows # <<>> THEN after + Len(rows) - 1
                 ELSE IF after < auditSeq THEN after ELSE auditSeq

nextAfter ==
  IF rows # <<>> THEN after + Len(rows)
                 ELSE IF after < auditSeq THEN after ELSE auditSeq

hasMore == rows # <<>> /\ after + Len(rows) < auditSeq

readPage ==
  /\ export = "paging" /\ verdict = "none"
  /\ entries' = entries \o rows
  /\ pageHead' = signCurrentHead
  /\ after' = nextAfter
  /\ export' = IF hasMore THEN "paging" ELSE "done"
  /\ handleAudit
  /\ UNCHANGED <<anchor, restored>>

\* The rest of the authority goes on between the pages.
Meanwhile ==
  /\ LogStep
  /\ restored' = (restored \/ (export = "paging" /\ restoreSnapshot))
  /\ UNCHANGED <<export, after, entries, pageHead, anchor>>

\* The export is verified as it is, with a trust document that fits it or that
\* pins another head.
VerifyExport ==
  /\ pageHead # NoHead
  /\ \/ \E pin \in {NoHead} \cup heads : beginVerify(AuditKid, pin, anchor)
     \/ Len(checked) < Len(entries) /\ checkEntry(entries[Len(checked) + 1])
     \/ Len(checked) = Len(entries) /\ checkHead(pageHead)
  /\ UNCHANGED exportVars

\* Before an export, anything may be verified.
VerifyOther == export = "none" /\ VerifyStep /\ UNCHANGED exportVars

ENext ==
  \/ Meanwhile
  \/ VerifyOther
  \/ \E from \in 0 .. auditSeq : startExport(from)
  \/ readPage
  \/ VerifyExport

\* Whoever exports keeps asking for pages.
ExportSpec == EInit /\ [][ENext]_allVars /\ WF_allVars(readPage)

-----------------------------------------------------------------------------
fits == pinnedHead \in {NoHead, pageHead}

\* tests/extra.test.ts ("audit continuity"): pages collected to the end verify
\* as one, whatever is logged between them, unless a restore came in between.
ExportVerifies == export = "done" /\ ~restored /\ fits => verdict # "invalid"

\* The comment on verifyAudit takes what `audit export` writes, which is one
\* page, for a complete AuditPage.  Then it verifies.
OnePageVerifies == pageHead # NoHead /\ ~restored /\ fits => verdict # "invalid"

\* Rows of the log that lie beyond the export.
toFetch == auditSeq - after

\* What brings an export to an end: a page leaves it PageLimit - 1 rows nearer to
\* the end of the log, its own event counted, or is the last one.  In between
\* another request puts at most one row behind it, even if it is a restore.
ExportProgresses ==
  [][export = "paging" =>
       \/ export' = "done"
       \/ after' # after /\ toFetch > PageLimit /\ toFetch' = toFetch + 1 - PageLimit
       \/ after' = after /\ toFetch' <= toFetch + 1
     ]_allVars

\* Every page read logs an event itself.  Even so an export comes to the end of
\* a log that little else grows.
ExportEnds == export = "paging" /\ verdict = "none" ~> export = "done" \/ verdict # "none"
=============================================================================

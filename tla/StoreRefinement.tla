--------------------------- MODULE StoreRefinement ---------------------------
(***************************************************************************)
(* The system implements VerifiedStore: the refinement mapping.            *)
(***************************************************************************)
EXTENDS System

\* A file and its row that contradict each other, outside of an upload or a
\* deletion of it, are something the store never has.
StoreOf(f) ==
    IF AtWork(f, Storing) THEN [is |-> "replacing"]
    ELSE IF disk[f] = None /\ (files[f] = None \/ AtWork(f, Deleting)) THEN [is |-> "absent"]
    ELSE IF disk[f] # None /\ files[f] # None
         THEN [is |-> "stored", content |-> disk[f], verified |-> files[f] = "verified"]
    ELSE [is |-> "contradictory"]

TriesOf(p) ==
    CASE cpc[p] \in {"await_file", "await_ack"} -> trials[p]
      [] cpc[p] = "await_final" -> NUMBER_OF_FILE_SENDING
      [] OTHER -> 0

\* The request with this code that run p made and its session has not done.
Pending(p, code, states) ==
    \/ \E i \in DOMAIN c2s[p] : c2s[p][i].code = code
    \/ spc[p] \in states /\ req[p].code = code

\* The file of the only upload of the session of run p.
VerdictPath(p) ==
    IF c2s[p] # <<>> THEN <<Head(c2s[p]).id, Head(c2s[p]).file>> ELSE Path(p)

Mark(f, sum) == [do |-> "mark", path |-> f, cksum |-> sum]
Discard(f) == [do |-> "discard", path |-> f]

VerdictOf(p) ==
    IF Pending(p, CLIENT_CODE_CKSUM_OK, {"verify"}) THEN Mark(VerdictPath(p), cksum[p])
    ELSE IF Pending(p, CLIENT_CODE_CKSUM_ERR_FINAL, {"file_check", "file_remove"})
    THEN Discard(VerdictPath(p))
    ELSE None

OutcomeOf(p) ==
    CASE cpc[p] = "acked" -> "stored"
      [] cpc[p] = "gaveup" -> "discarded"
      [] cpc[p] = "stopped" -> "stopped"
      [] OTHER -> "open"

TargetOf(p) == IF cfile[p] = None THEN None ELSE <<cid[p], cfile[p]>>

store == [f \in Paths |-> StoreOf(f)]
target == [p \in Runs |-> TargetOf(p)]
offer == loaded
tries == [p \in Runs |-> TriesOf(p)]
verdict == [p \in Runs |-> VerdictOf(p)]
outcome == [p \in Runs |-> OutcomeOf(p)]

Abstract == INSTANCE VerifiedStore WITH MaxTries <- NUMBER_OF_FILE_SENDING

\* Having no file, and asking for nothing, is neither a file nor a question.
ASSUME NoneIsNoVerdict == None \notin Paths \cup Abstract!Verdicts

\* Whatever the interleaving of sessions, the system is a store that keeps the
\* promises of README.md:11-19: a file is marked only while it is what a run
\* accepted, its mark goes before its content changes, a run ends with 2104
\* only when its file is stored and marked, or discarded after four tries.
ImplementsStore == Abstract!Spec
=============================================================================

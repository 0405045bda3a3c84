---------------------------- MODULE VerifiedStore ----------------------------
(***************************************************************************)
(* What the program promises of an upload, without messages, sessions,     *)
(* tables or retransmission: a store of files, each absent, being          *)
(* replaced, or there with a content and a mark.  A run offers its file at *)
(* most MaxTries times.  It accepts what the store has, or rejects it when *)
(* its tries are used up; the store then marks or discards the file, and   *)
(* only after that does the run end.                                       *)
(***************************************************************************)
EXTENDS Naturals

CONSTANTS Runs, Paths, Contents, Blobs, Cksum, MaxTries, None

VARIABLES
    store,    \* Absent, Replacing or an entry, for each path
    target,   \* the path each run uploads to
    offer,    \* the content each run offers
    tries,    \* how often it has offered a file
    verdict,  \* what it has asked the store to do, and is not done yet
    outcome   \* how it ended

vars == <<store, target, offer, tries, verdict, outcome>>

Absent == [is |-> "absent"]
Replacing == [is |-> "replacing"]
Entry(content, verified) == [is |-> "stored", content |-> content, verified |-> verified]
Entries == [is : {"stored"}, content : Blobs, verified : BOOLEAN]

Verdicts == [do : {"mark"}, path : Paths, cksum : {Cksum[b] : b \in Blobs}]
              \cup [do : {"discard"}, path : Paths]

TypeOK ==
    /\ store \in [Paths -> {Absent, Replacing} \cup Entries]
    /\ target \in [Runs -> Paths \cup {None}]
    /\ offer \in [Runs -> Contents \cup {None}]
    /\ tries \in [Runs -> 0..MaxTries]
    /\ verdict \in [Runs -> Verdicts \cup {None}]
    /\ outcome \in [Runs -> {"open", "stored", "discarded", "stopped"}]

Init ==
    /\ store = [f \in Paths |-> Absent]
    /\ target = [p \in Runs |-> None]
    /\ offer = [p \in Runs |-> None]
    /\ tries = [p \in Runs |-> 0]
    /\ verdict = [p \in Runs |-> None]
    /\ outcome = [p \in Runs |-> "open"]

-----------------------------------------------------------------------------
Open(p) == outcome[p] = "open"

Stored(f) == store[f].is = "stored"

\* The store has what the run offers, as far as checksums tell.
Same(p) == offer[p] # None /\ Cksum[store[target[p]].content] = Cksum[offer[p]]

\* The first offer, and those after a mismatch, all for one path.
Offer(p) ==
    /\ Open(p)
    /\ tries[p] < MaxTries
    /\ \E f \in Paths, content \in Contents :
          /\ \/ tries[p] = 0
             \/ target[p] = f /\ Stored(f) /\ ~Same(p)
          /\ target' = [target EXCEPT ![p] = f]
          /\ offer' = [offer EXCEPT ![p] = content]
    /\ tries' = [tries EXCEPT ![p] = @ + 1]
    /\ UNCHANGED <<store, verdict, outcome>>

\* The store takes a file in: its mark is lost together with its content, and
\* nobody else replaces it at the same time.
Replace(f) ==
    /\ store[f] # Replacing
    /\ store' = [store EXCEPT ![f] = Replacing]
    /\ UNCHANGED <<target, offer, tries, verdict, outcome>>

Save(f) ==
    /\ store[f] = Replacing
    /\ \E blob \in Blobs : store' = [store EXCEPT ![f] = Entry(blob, FALSE)]
    /\ UNCHANGED <<target, offer, tries, verdict, outcome>>

Accept(p) ==
    /\ Open(p)
    /\ tries[p] > 0
    /\ Stored(target[p]) /\ Same(p)
    /\ verdict' = [verdict EXCEPT ![p] =
                      [do |-> "mark", path |-> target[p], cksum |-> Cksum[offer[p]]]]
    /\ UNCHANGED <<store, target, offer, tries, outcome>>

Reject(p) ==
    /\ Open(p)
    /\ tries[p] = MaxTries
    /\ offer[p] # None
    /\ Stored(target[p]) /\ ~Same(p)
    /\ verdict' = [verdict EXCEPT ![p] = [do |-> "discard", path |-> target[p]]]
    /\ offer' = [offer EXCEPT ![p] = None]
    /\ UNCHANGED <<store, target, tries, outcome>>

\* The store still has what the run accepted.
Mark(p) ==
    /\ verdict[p] # None
    /\ verdict[p].do = "mark"
    /\ LET f == verdict[p].path
       IN  /\ Stored(f)
           /\ Cksum[store[f].content] = verdict[p].cksum
           /\ store' = [store EXCEPT ![f].verified = TRUE]
    /\ verdict' = [verdict EXCEPT ![p] = None]
    /\ UNCHANGED <<target, offer, tries, outcome>>

Discard(p) ==
    /\ verdict[p] # None
    /\ verdict[p].do = "discard"
    /\ Stored(verdict[p].path)
    /\ store' = [store EXCEPT ![verdict[p].path] = Absent]
    /\ verdict' = [verdict EXCEPT ![p] = None]
    /\ UNCHANGED <<target, offer, tries, outcome>>

\* What a run that was stopped asked for may never be heard.
Lose(p) ==
    /\ outcome[p] = "stopped"
    /\ verdict[p] # None
    /\ verdict' = [verdict EXCEPT ![p] = None]
    /\ UNCHANGED <<store, target, offer, tries, outcome>>

\* A run ends once, and forgets its file.
Finish(p, how) ==
    /\ Open(p)
    /\ outcome' = [outcome EXCEPT ![p] = how]
    /\ target' = [target EXCEPT ![p] = None]
    /\ offer' = [offer EXCEPT ![p] = None]
    /\ tries' = [tries EXCEPT ![p] = 0]
    /\ UNCHANGED <<store, verdict>>

FinishStored(p) ==
    /\ Finish(p, "stored")
    /\ target[p] # None
    /\ Stored(target[p]) /\ store[target[p]].verified /\ Same(p)

FinishDiscarded(p) ==
    /\ Finish(p, "discarded")
    /\ tries[p] = MaxTries
    /\ store[target[p]] = Absent

Stop(p) == Finish(p, "stopped")

Next ==
    \/ \E p \in Runs :
          \/ Offer(p) \/ Accept(p) \/ Reject(p) \/ Mark(p) \/ Discard(p)
          \/ Lose(p) \/ FinishStored(p) \/ FinishDiscarded(p) \/ Stop(p)
    \/ \E f \in Paths : Replace(f) \/ Save(f)

Spec == Init /\ [][Next]_vars
=============================================================================

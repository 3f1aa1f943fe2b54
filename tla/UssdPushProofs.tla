--------------------------- MODULE UssdPushProofs ---------------------------
(***************************************************************************)
(* Theorems about the PUSH service, for any number of dialogs, messages    *)
(* and queries.  Every action replaces the record of one dialog; StepTo    *)
(* says what all of them have in common, each action is shown to be such   *)
(* a step, and the theorems follow from that alone.                        *)
(*                                                                         *)
(* The type of the records and the CDR need no more than their types.      *)
(* What is said of the counter and of the answers to the parent holds      *)
(* under RegisterCloses, and needs the invariant Consistent: events of the *)
(* query that the parent has been told about, or Release events of a MAP   *)
(* dialog that is still in service, would break it.                        *)
(***************************************************************************)
EXTENDS UssdPush, PushHandlerProofs, FiniteSetTheorems, SequenceTheorems

\* The register leaves a query open only behind the location of the subscriber.
RegisterCloses == HlrContinues \subseteq {<< "Response" >>}

-----------------------------------------------------------------------------
(***************************************************************************)
(* The invariant of one dialog.                                            *)
(***************************************************************************)
\* A record that no application has taken.
Untouched(r) ==
  r.owner = "none" =>
    r.queries = 0 /\ r.posts = 0 /\ r.conn = "none" /\ r.appq = << >> /\ ~r.info

\* An INVITE without a query was refused.
RefusedInvite(r) == r.owner = "sip" /\ r.queries = 0 => r.conn = "over"

Answers == {"Response", "ErrorComponent", "RejectComponent"}

\* Events that are the last of their query.
Terminal == SriEvents \ (Answers \cup {"Delimiter"})

\* The parent waits: the register has said nothing, its last word is under way, or
\* the location and the Delimiter that reports it come first.
Pending(r) ==
  \/ r.sri = "open" /\ r.sriq = << >>
  \/ r.sri = "ended" /\ \E e \in Terminal : r.sriq = << e >>
  \/ r.sri = "ended" /\ \E c \in Answers : r.sriq = << c, "Close" >>
  \/ r.located /\ r.sriq # << >> /\ Head(r.sriq) = "Delimiter"
  \/ Len(r.sriq) >= 2 /\ r.sriq[1] = "Response" /\ r.sriq[2] = "Delimiter"

QueryConsistent(r) ==
  /\ r.answers <= 1
  /\ r.queries = 0 \/ r.answers > 0 => r.sri # "open" /\ r.sriq = << >>
  /\ r.queries = 0 => r.answers = 0
  /\ r.queries > 0 /\ r.answers = 0 => Pending(r)

NoRelease(q) == \A i \in 1 .. Len(q) : q[i] # "Release"

\* Release is fired when the MAP dialog ends, and detaches the SBB.
MapConsistent(r) ==
  /\ r.map \in Running \/ r.mapq # << >> => r.aci
  /\ r.aci => r.answers > 0
  /\ r.map # "expunged" => NoRelease(r.mapq)

Consistent(r) ==
  Untouched(r) /\ RefusedInvite(r) /\ QueryConsistent(r) /\ MapConsistent(r)

-----------------------------------------------------------------------------
(***************************************************************************)
(* A step of one dialog, which counts delta more dialogs in process.       *)
(***************************************************************************)
Starts(r, s, delta) ==
  /\ Phase(r) = "idle" /\ s.cdr = r.cdr
  /\ \/ Phase(s) = "refused" /\ delta = IF Forgotten(s) THEN 1 ELSE 0
     \/ Phase(s) = "locating" /\ delta = 1

Moves(r, s, delta) ==
  \/ /\ Phase(s) = Phase(r) /\ (Forgotten(s) <=> Forgotten(r)) /\ delta = 0
     /\ Phase(r) = "idle" => s.cdr = r.cdr
  \/ Starts(r, s, delta)
  \/ Phase(r) = "locating" /\ Phase(s) = "pushing" /\ delta = 0
  \/ Phase(r) = "locating" /\ Phase(s) = "done" /\ delta = -1
  \/ Phase(r) = "pushing" /\ Phase(s) = "done" /\ delta = -1 /\ s.cdr = r.cdr

StepTo(r, s, delta) ==
  /\ s \in PushRecord /\ CdrKept(r, s)
  /\ RegisterCloses /\ Consistent(r) => Consistent(s) /\ Moves(r, s, delta)

StepOf(d) ==
  \E s, delta :
    /\ StepTo(dlg[d], s, delta) /\ delta \in Int
    /\ Becomes(d, s) /\ inProcess' = inProcess + delta

-----------------------------------------------------------------------------
(***************************************************************************)
(* Queues.                                                                 *)
(***************************************************************************)
\* What joins and leaves the queues.
LEMMA MapQueue ==
  ASSUME NEW q \in Seq(MapEvents), NEW e \in MapEvents
  PROVE  /\ Append(q, e) \in Seq(MapEvents)
         /\ Append(q, e) # << >>
         /\ q # << >> => Tail(q) \in Seq(MapEvents) /\ Head(q) \in MapEvents
BY AppendProperties, HeadTailProperties

\* The same of the application's queue.
LEMMA AppQueue ==
  ASSUME NEW q \in Seq(AppEvents), NEW e \in AppEvents
  PROVE  /\ Append(q, e) \in Seq(AppEvents)
         /\ q # << >> => Tail(q) \in Seq(AppEvents) /\ Head(q) \in AppEvents
BY AppendProperties, HeadTailProperties

\* And of the query's.
LEMMA SriQueue ==
  ASSUME NEW q \in Seq(SriEvents), q # << >>
  PROVE  Tail(q) \in Seq(SriEvents) /\ Head(q) \in SriEvents /\ Head(q) = q[1]
BY HeadTailProperties

\* A component and the message it came in.
LEMMA TwoEvents ==
  ASSUME NEW a \in SriEvents, NEW b \in SriEvents
  PROVE  Append(<< a >>, b) = << a, b >>
<1> DEFINE s == Append(<< a >>, b)
           t == << a, b >>
<1>1. << a >> \in Seq(SriEvents) /\ Len(<< a >>) = 1 /\ << a >>[1] = a
  OBVIOUS
<1>2. s \in Seq(SriEvents) /\ Len(s) = 2 /\ s[1] = a /\ s[2] = b
  BY <1>1, AppendProperties
<1>3. t \in Seq(SriEvents) /\ Len(t) = 2 /\ t[1] = a /\ t[2] = b
  OBVIOUS
<1> HIDE DEF s, t
<1>4. \A i \in 1 .. Len(s) : s[i] = t[i]
  BY <1>2, <1>3
<1>5. s = t
  BY <1>2, <1>3, <1>4, SeqEqual
<1> QED
  BY <1>5 DEF s, t

\* Nothing but Release is a Release.
LEMMA NoReleaseAppend ==
  ASSUME NEW q \in Seq(MapEvents), NEW e \in MapEvents, e # "Release", NoRelease(q)
  PROVE  NoRelease(Append(q, e))
BY DEF NoRelease

\* The rest of a queue without Release.
LEMMA NoReleaseTail ==
  ASSUME NEW q \in Seq(MapEvents), q # << >>, NoRelease(q)
  PROVE  NoRelease(Tail(q)) /\ Head(q) # "Release"
<1>1. /\ Len(q) \in Nat /\ Len(q) > 0 /\ Len(Tail(q)) = Len(q) - 1
      /\ \A i \in 1 .. Len(Tail(q)) : Tail(q)[i] = q[i + 1]
      /\ Head(q) = q[1]
  OBVIOUS
<1> QED
  BY <1>1 DEF NoRelease

-----------------------------------------------------------------------------
(***************************************************************************)
(* Phases.                                                                 *)
(***************************************************************************)
\* Who is counted in process, and who is forgotten.
LEMMA PhaseCounts ==
  ASSUME NEW r \in PushRecord, Consistent(r)
  PROVE  /\ Locating(r) \/ r.aci <=> Phase(r) \in {"locating", "pushing"}
         /\ Forgotten(r) => Phase(r) = "refused"
         /\ Phase(r) = "idle" <=> r.owner = "none"
BY DEF Phase, Locating, Forgotten, Consistent, Untouched, QueryConsistent, MapConsistent,
       PushRecord, Owners

\* The fields that say in which phase a dialog is.
LEMMA SamePhase ==
  ASSUME NEW r, NEW s, s.owner = r.owner, s.queries = r.queries,
         s.answers = r.answers, s.aci = r.aci
  PROVE  Phase(s) = Phase(r)
BY DEF Phase, Locating

\* A handler, behind whatever it leaves in the queues.
LEMMA EvolvesConsistent ==
  ASSUME NEW r \in PushRecord, NEW s, Evolves(r, s), Consistent(r), r.owner # "none"
  PROVE  /\ Consistent(s)
         /\ Phase(s) = Phase(r)
         /\ Forgotten(s) <=> Forgotten(r)
<1>1. /\ s.owner = r.owner /\ s.sri = r.sri /\ s.sriq = r.sriq /\ s.located = r.located
      /\ s.queries = r.queries /\ s.answers = r.answers /\ s.posts = r.posts
      /\ s.appq = r.appq /\ s.aci = r.aci
  BY DEF Evolves, Kept
<1>2. QueryConsistent(s)
  BY <1>1 DEF Consistent, QueryConsistent, Pending
<1>3. MapConsistent(s)
  <2>1. r.map \in Running => r.aci /\ NoRelease(r.mapq)
    BY DEF Consistent, MapConsistent, Running
  <2> QED
    BY <1>1, <2>1 DEF Consistent, MapConsistent, Evolves, MapEvolves, Running
<1>4. RefusedInvite(s)
  BY <1>1 DEF Consistent, RefusedInvite, Evolves
<1> QED
  BY <1>1, <1>2, <1>3, <1>4, SamePhase DEF Consistent, Forgotten, Untouched

-----------------------------------------------------------------------------
(***************************************************************************)
(* Kinds of steps.                                                         *)
(***************************************************************************)
\* A step outside of the server SBB that bills and counts nothing.
LEMMA OutsideStep ==
  ASSUME NEW r, NEW s \in PushRecord,
         s.owner = r.owner, s.queries = r.queries, s.answers = r.answers,
         s.aci = r.aci, s.cdr = r.cdr,
         RegisterCloses /\ Consistent(r) =>
           Consistent(s) /\ (Forgotten(s) <=> Forgotten(r))
  PROVE  StepTo(r, s, 0)
<1>1. Phase(s) = Phase(r)
  BY SamePhase
<1> QED
  BY <1>1 DEF StepTo, CdrKept, Moves

\* An event leaves the queue of the MAP activity.
LEMMA RestStep ==
  ASSUME NEW r \in PushRecord, r.mapq # << >>
  PROVE  /\ Rest(r) \in PushRecord /\ CdrKept(r, Rest(r))
         /\ Consistent(r) =>
              /\ Consistent(Rest(r)) /\ r.owner # "none" /\ Rest(r).owner # "none"
              /\ Phase(Rest(r)) = Phase(r)
              /\ Forgotten(Rest(r)) <=> Forgotten(r)
<1> DEFINE q == Rest(r)
<1>1. r.mapq \in Seq(MapEvents) /\ Tail(r.mapq) \in Seq(MapEvents)
  BY MapQueue DEF PushRecord
<1>2. q \in PushRecord
  BY <1>1 DEF Rest, PushRecord
<1>3. /\ q.owner = r.owner /\ q.sri = r.sri /\ q.sriq = r.sriq /\ q.located = r.located
      /\ q.queries = r.queries /\ q.answers = r.answers /\ q.posts = r.posts
      /\ q.appq = r.appq /\ q.aci = r.aci /\ q.conn = r.conn /\ q.info = r.info
      /\ q.map = r.map /\ q.cdr = r.cdr /\ q.mapq = Tail(r.mapq)
  BY DEF Rest, PushRecord
<1> HIDE DEF q
<1>4. ASSUME Consistent(r)
      PROVE  Consistent(q) /\ r.owner # "none"
  <2>1. r.owner # "none"
    BY <1>4 DEF Consistent, MapConsistent, QueryConsistent, Untouched, PushRecord
  <2>2. MapConsistent(q)
    BY <1>1, <1>3, <1>4, NoReleaseTail DEF Consistent, MapConsistent
  <2> QED
    BY <1>3, <1>4, <2>1, <2>2
    DEF Consistent, QueryConsistent, Pending, Untouched, RefusedInvite
<1> QED
  BY <1>2, <1>3, <1>4, SamePhase DEF q, CdrKept, Forgotten

\* An event of the application leaves its queue.
LEMMA AppRestStep ==
  ASSUME NEW r \in PushRecord, r.appq # << >>
  PROVE  /\ AppRest(r) \in PushRecord /\ CdrKept(r, AppRest(r))
         /\ Consistent(r) =>
              /\ Consistent(AppRest(r)) /\ r.owner # "none" /\ AppRest(r).owner # "none"
              /\ Phase(AppRest(r)) = Phase(r)
              /\ Forgotten(AppRest(r)) <=> Forgotten(r)
<1> DEFINE q == AppRest(r)
<1>1. r.appq \in Seq(AppEvents) /\ Tail(r.appq) \in Seq(AppEvents)
  BY AppQueue DEF PushRecord
<1>2. q \in PushRecord
  BY <1>1 DEF AppRest, PushRecord
<1>3. /\ q.owner = r.owner /\ q.sri = r.sri /\ q.sriq = r.sriq /\ q.located = r.located
      /\ q.queries = r.queries /\ q.answers = r.answers /\ q.posts = r.posts
      /\ q.aci = r.aci /\ q.conn = r.conn /\ q.info = r.info
      /\ q.map = r.map /\ q.cdr = r.cdr /\ q.mapq = r.mapq
  BY DEF AppRest, PushRecord
<1> HIDE DEF q
<1>4. ASSUME Consistent(r)
      PROVE  Consistent(q) /\ r.owner # "none"
  <2>1. r.owner # "none"
    BY <1>4 DEF Consistent, Untouched
  <2> QED
    BY <1>3, <1>4, <2>1
    DEF Consistent, QueryConsistent, Pending, MapConsistent, Untouched, RefusedInvite
<1> QED
  BY <1>2, <1>3, <1>4, SamePhase DEF q, CdrKept, Forgotten

\* The handler of an event that was taken from a queue.
LEMMA HandlerStep ==
  ASSUME NEW r \in PushRecord, NEW q \in PushRecord, NEW s,
         CdrKept(r, q), Evolves(q, s),
         Consistent(r) =>
           /\ Consistent(q) /\ r.owner # "none" /\ q.owner # "none"
           /\ Phase(q) = Phase(r)
           /\ Forgotten(q) <=> Forgotten(r)
  PROVE  StepTo(r, s, 0)
<1>1. s \in PushRecord /\ CdrKept(r, s)
  BY DEF Evolves, CdrKept
<1>2. ASSUME Consistent(r)
      PROVE  Consistent(s) /\ Moves(r, s, 0)
  <2>1. Consistent(s) /\ Phase(s) = Phase(q) /\ (Forgotten(s) <=> Forgotten(q))
    BY <1>2, EvolvesConsistent
  <2>2. Phase(r) # "idle"
    BY <1>2, PhaseCounts
  <2> QED
    BY <1>2, <2>1, <2>2 DEF Moves
<1> QED
  BY <1>1, <1>2 DEF StepTo

\* A handler of the MAP activity, or of the timer.
LEMMA MapHandlerStep ==
  ASSUME NEW r \in PushRecord, NEW s, r.mapq # << >>, Evolves(Rest(r), s)
  PROVE  StepTo(r, s, 0)
BY RestStep, HandlerStep

\* A handler of the session or the SIP dialog.
LEMMA AppHandlerStep ==
  ASSUME NEW r \in PushRecord, NEW s, r.appq # << >>, Evolves(AppRest(r), s)
  PROVE  StepTo(r, s, 0)
BY AppRestStep, HandlerStep

\* An action that replaces the record of d by such a step and leaves the counter.
LEMMA UpdateStep ==
  ASSUME TypeOK, NEW d \in Dialogs, NEW s, StepTo(dlg[d], s, 0), Update(d, s)
  PROVE  StepOf(d)
<1>1. inProcess' = inProcess + 0 /\ 0 \in Int
  BY DEF TypeOK, Update
<1> QED
  BY <1>1 DEF StepOf, Update

-----------------------------------------------------------------------------
(***************************************************************************)
(* The home register.                                                      *)
(***************************************************************************)
\* What is fired on the dialog of the query, while the parent waits.
LEMMA RegisterEvent ==
  ASSUME NEW r \in PushRecord, NEW s \in PushRecord, r.sri = "open",
         NEW x, NEW q, s = [r EXCEPT !.sri = x, !.sriq = q],
         RegisterCloses /\ Consistent(r) => Pending(s)
  PROVE  StepTo(r, s, 0)
<1>1. /\ s.owner = r.owner /\ s.located = r.located
      /\ s.queries = r.queries /\ s.answers = r.answers /\ s.posts = r.posts
      /\ s.appq = r.appq /\ s.aci = r.aci /\ s.conn = r.conn /\ s.info = r.info
      /\ s.map = r.map /\ s.cdr = r.cdr /\ s.mapq = r.mapq
  BY DEF PushRecord
<1>2. ASSUME RegisterCloses, Consistent(r)
      PROVE  Consistent(s) /\ (Forgotten(s) <=> Forgotten(r))
  <2>1. r.queries # 0 /\ r.answers = 0
    BY <1>2 DEF Consistent, QueryConsistent, PushRecord
  <2>2. QueryConsistent(s)
    BY <1>1, <1>2, <2>1 DEF QueryConsistent
  <2> QED
    BY <1>1, <1>2, <2>1, <2>2
    DEF Consistent, MapConsistent, Untouched, RefusedInvite, Forgotten
<1> QED
  BY <1>1, <1>2, OutsideStep

\* The records behind such events.
LEMMA QueryTypes ==
  ASSUME NEW r \in PushRecord, NEW es \in Seq(SriEvents)
  PROVE  /\ FireSri(r, es) \in PushRecord /\ QueryOver(r, es) \in PushRecord
         /\ FireSri(r, es) = [r EXCEPT !.sri = r.sri, !.sriq = r.sriq \o es]
         /\ QueryOver(r, es) = [r EXCEPT !.sri = "ended", !.sriq = r.sriq \o es]
<1>1. r.sriq \o es \in Seq(SriEvents)
  BY DEF PushRecord
<1> QED
  BY <1>1 DEF FireSri, QueryOver, PushRecord, SriStates

\* The last event of a query, whatever was said before.
LEMMA LastEvent ==
  ASSUME NEW r \in PushRecord, NEW e \in Terminal, r.sri = "open"
  PROVE  StepTo(r, QueryOver(r, << e >>), 0)
<1> DEFINE s == QueryOver(r, << e >>)
<1>1. << e >> \in Seq(SriEvents) /\ r.sriq \in Seq(SriEvents)
  BY DEF Terminal, PushRecord
<1>2. s \in PushRecord /\ s = [r EXCEPT !.sri = "ended", !.sriq = r.sriq \o << e >>]
  BY <1>1, QueryTypes
<1>3. s.sri = "ended" /\ s.sriq = r.sriq \o << e >> /\ s.located = r.located
  BY <1>2 DEF PushRecord
<1> HIDE DEF s
<1>4. ASSUME RegisterCloses, Consistent(r)
      PROVE  Pending(s)
  <2>1. Pending(r)
    BY <1>4 DEF Consistent, QueryConsistent, PushRecord
  <2>2. CASE r.sriq = << >>
    <3>1. s.sriq = << e >>
      BY <1>1, <1>3, <2>2
    <3> QED
      BY <1>3, <3>1 DEF Pending
  <2>3. CASE r.sriq # << >> /\ r.located /\ Head(r.sriq) = "Delimiter"
    <3>1. r.sriq \o << e >> # << >> /\ Head(r.sriq \o << e >>) = Head(r.sriq)
      BY <1>1, <2>3
    <3> QED
      BY <1>3, <2>3, <3>1 DEF Pending
  <2>4. CASE Len(r.sriq) >= 2 /\ r.sriq[1] = "Response" /\ r.sriq[2] = "Delimiter"
    <3>1. /\ Len(r.sriq \o << e >>) = Len(r.sriq) + 1 /\ Len(r.sriq) \in Nat
          /\ (r.sriq \o << e >>)[1] = r.sriq[1] /\ (r.sriq \o << e >>)[2] = r.sriq[2]
      BY <1>1, <2>4
    <3> QED
      BY <1>3, <2>4, <3>1 DEF Pending
  <2> QED
    BY <2>1, <2>2, <2>3, <2>4 DEF Pending
<1> QED
  BY <1>2, <1>4, RegisterEvent DEF s

\* The register answers, ends its dialog, or its dialog fails.
LEMMA RegisterStep ==
  ASSUME TypeOK, NEW d \in Dialogs, Register(d)
  PROVE  StepOf(d)
<1> DEFINE r == dlg[d]
<1>1. r \in PushRecord /\ r.sriq \in Seq(SriEvents)
  BY DEF TypeOK, PushRecord
<1>2. CASE HlrAnswers(d)
  <2>1. PICK c \in Components : Update(d, QueryOver(r, Append(c, "Close")))
    BY <1>2 DEF HlrAnswers
  <2>2. r.sri = "open" /\ r.sriq = << >>
    BY <1>2 DEF HlrAnswers, Unanswered
  <2>3. CASE c = << >>
    <3>1. Append(c, "Close") = << "Close" >> /\ "Close" \in Terminal
      BY <2>3 DEF Terminal, SriEvents, Answers
    <3> QED
      BY <1>1, <2>1, <2>2, <3>1, LastEvent, UpdateStep
  <2>4. CASE c # << >>
    <3>1. PICK a \in Answers : c = << a >>
      BY <2>4 DEF Components, Answers
    <3>2. Append(c, "Close") = << a, "Close" >>
      BY <3>1, TwoEvents DEF Answers, SriEvents
    <3>3. << a, "Close" >> \in Seq(SriEvents) /\ r.sriq \o << a, "Close" >> = << a, "Close" >>
      BY <2>2 DEF Answers, SriEvents
    <3> DEFINE s == QueryOver(r, << a, "Close" >>)
    <3>4. s \in PushRecord /\ s = [r EXCEPT !.sri = "ended", !.sriq = << a, "Close" >>]
      BY <1>1, <3>3, QueryTypes
    <3>5. Pending(s)
      BY <1>1, <3>4 DEF Pending, PushRecord
    <3>6. StepTo(r, s, 0)
      BY <1>1, <2>2, <3>4, <3>5, RegisterEvent
    <3> QED
      BY <2>1, <3>2, <3>6, UpdateStep
  <2> QED
    BY <2>3, <2>4
<1>3. CASE HlrAnswersOpen(d)
  <2>1. PICK c \in HlrContinues : Update(d, FireSri(r, Append(c, "Delimiter")))
    BY <1>3 DEF HlrAnswersOpen
  <2>2. r.sri = "open" /\ r.sriq = << >>
    BY <1>3 DEF HlrAnswersOpen, Unanswered
  <2>3. c \in Components
    BY InputsAssumption
  <2>4. Append(c, "Delimiter") \in Seq(SriEvents)
    <3>1. << >> \in Seq(SriEvents) /\ \A e \in SriEvents : << e >> \in Seq(SriEvents)
      OBVIOUS
    <3>2. c = << >> \/ \E e \in SriEvents : c = << e >>
      BY <2>3 DEF Components, SriEvents
    <3>3. c \in Seq(SriEvents) /\ "Delimiter" \in SriEvents
      BY <3>1, <3>2 DEF SriEvents
    <3> QED
      BY <3>3, AppendProperties
  <2> DEFINE q == r.sriq \o Append(c, "Delimiter")
             s == FireSri(r, Append(c, "Delimiter"))
  <2>5. s \in PushRecord /\ s = [r EXCEPT !.sri = r.sri, !.sriq = q]
    BY <1>1, <2>4, QueryTypes
  <2>6. ASSUME RegisterCloses
        PROVE  Pending(s)
    <3>1. c = << "Response" >>
      BY <2>1, <2>6 DEF RegisterCloses
    <3>2. q = << "Response", "Delimiter" >>
      <4>1. Append(c, "Delimiter") = << "Response", "Delimiter" >>
        BY <3>1, TwoEvents DEF SriEvents
      <4> QED
        BY <2>2, <2>4, <4>1, ConcatEmptySeq
    <3>3. s.sriq = << "Response", "Delimiter" >>
      BY <1>1, <2>5, <3>2 DEF PushRecord
    <3> QED
      BY <3>3 DEF Pending
  <2>7. StepTo(r, s, 0)
    BY <1>1, <2>2, <2>5, <2>6, RegisterEvent
  <2> QED
    BY <2>1, <2>7, UpdateStep
<1>4. CASE HlrEnds(d)
  <2>1. PICK c \in LateComponents : Update(d, QueryOver(r, Append(c, "Close")))
    BY <1>4 DEF HlrEnds
  <2>2. r.sri = "open" /\ "Close" \in Terminal
    BY <1>4 DEF HlrEnds, Terminal, SriEvents, Answers
  <2>3. CASE c = << >>
    <3>1. Append(c, "Close") = << "Close" >>
      BY <2>3
    <3> QED
      BY <1>1, <2>1, <2>2, <3>1, LastEvent, UpdateStep
  <2>4. CASE c # << >>
    <3>1. << >> \in HlrContinues /\ c = << "Response" >>
      BY <2>4 DEF LateComponents
    <3>2. ~ RegisterCloses
      BY <3>1 DEF RegisterCloses
    <3>3. Append(c, "Close") \in Seq(SriEvents)
      BY <3>1 DEF SriEvents
    <3> DEFINE q == r.sriq \o Append(c, "Close")
               s == QueryOver(r, Append(c, "Close"))
    <3>4. s \in PushRecord /\ s = [r EXCEPT !.sri = "ended", !.sriq = q]
      BY <1>1, <3>3, QueryTypes
    <3>5. StepTo(r, s, 0)
      BY <1>1, <2>2, <3>2, <3>4, RegisterEvent
    <3> QED
      BY <2>1, <3>5, UpdateStep
  <2> QED
    BY <2>3, <2>4
<1>5. CASE HlrAborts(d)
  <2>1. PICK e \in {"UserAbort", "ProviderAbort"} : Update(d, QueryOver(r, << e >>))
    BY <1>5 DEF HlrAborts
  <2>2. r.sri = "open" /\ e \in Terminal
    BY <1>5 DEF HlrAborts, Terminal, SriEvents, Answers
  <2> QED
    BY <1>1, <2>1, <2>2, LastEvent, UpdateStep
<1>6. CASE HlrRejects(d)
  <2>1. PICK e \in {"Reject", "RejectAcn"} : Update(d, QueryOver(r, << e >>))
    BY <1>6 DEF HlrRejects
  <2>2. r.sri = "open" /\ e \in Terminal
    BY <1>6 DEF HlrRejects, Unanswered, Terminal, SriEvents, Answers
  <2> QED
    BY <1>1, <2>1, <2>2, LastEvent, UpdateStep
<1>7. CASE QueryExpires(d)
  <2>1. r.sri = "open" /\ "DialogTimeout" \in Terminal
    BY <1>7 DEF QueryExpires, Terminal, SriEvents, Answers
  <2> QED
    BY <1>1, <1>7, <2>1, LastEvent, UpdateStep DEF QueryExpires
<1> QED
  BY <1>2, <1>3, <1>4, <1>5, <1>6, <1>7 DEF Register

-----------------------------------------------------------------------------
(***************************************************************************)
(* The SriSbb.                                                             *)
(***************************************************************************)
\* A query that has been said enough of.
QueryDone(r, q) ==
  /\ q \in PushRecord
  /\ << q.owner, q.queries, q.answers, q.posts, q.appq, q.aci, q.map, q.mapq,
        q.conn, q.info, q.cdr >>
     = << r.owner, r.queries, r.answers, r.posts, r.appq, r.aci, r.map, r.mapq,
          r.conn, r.info, r.cdr >>
  /\ RegisterCloses /\ Consistent(r) => q.sri # "open" /\ q.sriq = << >>

\* While the query is open nobody has told the parent anything.
LEMMA StillLocating ==
  ASSUME NEW r \in PushRecord, r.sriq # << >>, Consistent(r)
  PROVE  /\ Phase(r) = "locating" /\ r.owner # "none"
         /\ r.queries # 0 /\ r.answers = 0 /\ ~r.aci /\ Pending(r)
         /\ r.map \notin Running /\ r.mapq = << >>
<1>1. r.queries # 0 /\ r.answers = 0
  BY DEF Consistent, QueryConsistent, PushRecord
<1> QED
  BY <1>1 DEF Consistent, QueryConsistent, MapConsistent, Untouched, Phase, Locating, PushRecord

\* The parent that is told, with and without a new MAP dialog.
LEMMA ParentTold ==
  ASSUME NEW r \in PushRecord, NEW q, QueryDone(r, q), r.sriq # << >>
  PROVE  LET c == ParentAnswered(q)
             n == CreateNewDialog(c)
         IN  /\ c \in PushRecord /\ c.cdr = r.cdr
             /\ n \in PushRecord /\ n.cdr = r.cdr
             /\ RegisterCloses /\ Consistent(r) =>
                  /\ Consistent(c) /\ c.owner # "none" /\ Phase(c) = "done"
                  /\ Consistent(n) /\ n.owner # "none" /\ Phase(n) = "pushing"
<1> DEFINE c == ParentAnswered(q)
           n == CreateNewDialog(c)
<1>1. q \in PushRecord /\ q.answers + 1 \in Nat
  BY DEF QueryDone, PushRecord
<1>2. c \in PushRecord
  BY <1>1 DEF ParentAnswered, PushRecord
<1>3. /\ c.answers = q.answers + 1
      /\ << c.owner, c.sri, c.sriq, c.queries, c.posts, c.appq, c.aci, c.map, c.mapq,
            c.conn, c.info, c.cdr >>
         = << q.owner, q.sri, q.sriq, q.queries, q.posts, q.appq, q.aci, q.map, q.mapq,
              q.conn, q.info, q.cdr >>
  BY <1>1 DEF ParentAnswered, PushRecord
<1> HIDE DEF c
<1>4. n \in PushRecord
  BY <1>2 DEF CreateNewDialog, PushRecord, MapStates
<1>5. /\ n.aci = TRUE /\ n.map = "idle"
      /\ << n.owner, n.sri, n.sriq, n.queries, n.answers, n.posts, n.appq, n.mapq,
            n.conn, n.info, n.cdr >>
         = << c.owner, c.sri, c.sriq, c.queries, c.answers, c.posts, c.appq, c.mapq,
              c.conn, c.info, c.cdr >>
  BY <1>2 DEF CreateNewDialog, PushRecord
<1> HIDE DEF n
<1>6. ASSUME RegisterCloses, Consistent(r)
      PROVE  /\ Consistent(c) /\ c.owner # "none" /\ Phase(c) = "done"
             /\ Consistent(n) /\ n.owner # "none" /\ Phase(n) = "pushing"
  <2>1. /\ r.owner # "none" /\ r.queries # 0 /\ r.answers = 0 /\ ~r.aci
        /\ r.map \notin Running /\ r.mapq = << >>
    BY <1>6, StillLocating
  <2>2. /\ c.owner # "none" /\ c.queries # 0 /\ c.answers = 1 /\ ~c.aci
        /\ c.map \notin Running /\ c.mapq = << >> /\ c.sri # "open" /\ c.sriq = << >>
    BY <1>3, <1>6, <2>1 DEF QueryDone
  <2>3. NoRelease(<< >>)
    BY DEF NoRelease
  <2>4. Consistent(c) /\ Consistent(n)
    BY <1>5, <2>2, <2>3
    DEF Consistent, Untouched, RefusedInvite, QueryConsistent, MapConsistent
  <2> QED
    BY <1>5, <2>2, <2>4 DEF Phase, Locating
<1> QED
  BY <1>2, <1>3, <1>4, <1>5, <1>6 DEF QueryDone, c, n

\* What the parent makes of it.
LEMMA TellStep ==
  ASSUME NEW r \in PushRecord, NEW q, QueryDone(r, q), r.sriq # << >>, NEW s
  PROVE  /\ Evolves(ParentAnswered(q), s) => StepTo(r, s, -1)
         /\ Evolves(CreateNewDialog(ParentAnswered(q)), s) => StepTo(r, s, 0)
<1> DEFINE c == ParentAnswered(q)
           n == CreateNewDialog(c)
<1>1. /\ c \in PushRecord /\ c.cdr = r.cdr
      /\ n \in PushRecord /\ n.cdr = r.cdr
      /\ RegisterCloses /\ Consistent(r) =>
           /\ Consistent(c) /\ c.owner # "none" /\ Phase(c) = "done"
           /\ Consistent(n) /\ n.owner # "none" /\ Phase(n) = "pushing"
  BY ParentTold
<1>2. Consistent(r) => Phase(r) = "locating"
  BY StillLocating
<1> HIDE DEF c, n
<1>3. ASSUME Evolves(c, s)
      PROVE  StepTo(r, s, -1)
  <2>1. s \in PushRecord /\ CdrKept(r, s)
    BY <1>1, <1>3 DEF Evolves, CdrKept
  <2>2. RegisterCloses /\ Consistent(r) => Consistent(s) /\ Phase(s) = "done"
    BY <1>1, <1>3, EvolvesConsistent
  <2> QED
    BY <1>2, <2>1, <2>2 DEF StepTo, Moves
<1>4. ASSUME Evolves(n, s)
      PROVE  StepTo(r, s, 0)
  <2>1. s \in PushRecord /\ CdrKept(r, s)
    BY <1>1, <1>4 DEF Evolves, CdrKept
  <2>2. RegisterCloses /\ Consistent(r) => Consistent(s) /\ Phase(s) = "pushing"
    BY <1>1, <1>4, EvolvesConsistent
  <2> QED
    BY <1>2, <2>1, <2>2 DEF StepTo, Moves
<1> QED
  BY <1>3, <1>4 DEF c, n

\* Events of a query that are not the first of two.
LEMMA QueryEvents ==
  ASSUME NEW r \in PushRecord, r.sriq # << >>, Pending(r)
  PROVE  /\ Head(r.sriq) \in Terminal => r.sri = "ended" /\ Tail(r.sriq) = << >>
         /\ Head(r.sriq) = "Delimiter" => r.located
         /\ Head(r.sriq) \in Answers =>
              \/ r.sri = "ended" /\ Tail(r.sriq) = << "Close" >>
              \/ /\ Head(r.sriq) = "Response"
                 /\ Tail(r.sriq) # << >> /\ Head(Tail(r.sriq)) = "Delimiter"
<1>1. r.sriq \in Seq(SriEvents) /\ Head(r.sriq) = r.sriq[1]
  BY SriQueue DEF PushRecord
<1>2. CASE r.sri = "ended" /\ \E e \in Terminal : r.sriq = << e >>
  BY <1>2 DEF Terminal
<1>3. CASE r.sri = "ended" /\ \E c \in Answers : r.sriq = << c, "Close" >>
  BY <1>3 DEF Answers, Terminal
<1>4. CASE r.located /\ Head(r.sriq) = "Delimiter"
  BY <1>4 DEF Answers, Terminal
<1>5. CASE Len(r.sriq) >= 2 /\ r.sriq[1] = "Response" /\ r.sriq[2] = "Delimiter"
  <2>1. /\ Tail(r.sriq) \in Seq(SriEvents) /\ Len(Tail(r.sriq)) = Len(r.sriq) - 1
        /\ \A i \in 1 .. Len(Tail(r.sriq)) : Tail(r.sriq)[i] = r.sriq[i + 1]
    BY <1>1, HeadTailProperties
  <2>2. Len(r.sriq) \in Nat
    BY <1>1, LenProperties
  <2>3. Tail(r.sriq)[1] = "Delimiter" /\ Len(Tail(r.sriq)) > 0
    BY <1>5, <2>1, <2>2
  <2>4. Tail(r.sriq) # << >>
    BY <2>3, EmptySeq
  <2>5. Head(Tail(r.sriq)) = "Delimiter"
    BY <2>1, <2>3, <2>4, SriQueue
  <2> QED
    BY <1>1, <1>5, <2>4, <2>5 DEF Answers, Terminal
<1> QED
  BY <1>2, <1>3, <1>4, <1>5 DEF Pending

\* Delivery to the SriSbb.
LEMMA SriRestType ==
  ASSUME NEW r \in PushRecord, r.sriq # << >>
  PROVE  /\ SriRest(r) \in PushRecord /\ SriRest(r) = [r EXCEPT !.sriq = Tail(r.sriq)]
         /\ Head(r.sriq) \in SriEvents
<1>1. Tail(r.sriq) \in Seq(SriEvents) /\ Head(r.sriq) \in SriEvents
  BY SriQueue DEF PushRecord
<1> QED
  BY <1>1 DEF SriRest, PushRecord

\* A component is stored, and the message it came in is still to be reported.
LEMMA StoreStep ==
  ASSUME NEW r \in PushRecord, r.sriq # << >>, Head(r.sriq) \in Answers
  PROVE  StepTo(r, StoreComponent(SriRest(r), Head(r.sriq)), 0)
<1> DEFINE q == SriRest(r)
           s == StoreComponent(q, Head(r.sriq))
<1>1. q \in PushRecord /\ q = [r EXCEPT !.sriq = Tail(r.sriq)]
  BY SriRestType
<1>2. s \in PushRecord
  BY <1>1 DEF StoreComponent, PushRecord, Refusals, Answers
<1>3. /\ << s.owner, s.queries, s.answers, s.posts, s.appq, s.aci, s.map, s.mapq,
            s.conn, s.info, s.cdr, s.sri >>
         = << r.owner, r.queries, r.answers, r.posts, r.appq, r.aci, r.map, r.mapq,
              r.conn, r.info, r.cdr, r.sri >>
      /\ s.sriq = Tail(r.sriq)
      /\ Head(r.sriq) = "Response" => s.located
  BY <1>1 DEF StoreComponent, PushRecord, Answers
<1> HIDE DEF s
<1>4. ASSUME RegisterCloses, Consistent(r)
      PROVE  Consistent(s) /\ (Forgotten(s) <=> Forgotten(r))
  <2>1. r.queries # 0 /\ r.answers = 0 /\ Pending(r)
    BY <1>4, StillLocating
  <2>2. Pending(s)
    <3>1. CASE r.sri = "ended" /\ Tail(r.sriq) = << "Close" >>
      <4>1. "Close" \in Terminal
        BY DEF Terminal, SriEvents, Answers
      <4> QED
        BY <1>3, <3>1, <4>1 DEF Pending
    <3>2. CASE /\ Head(r.sriq) = "Response"
               /\ Tail(r.sriq) # << >> /\ Head(Tail(r.sriq)) = "Delimiter"
      BY <1>3, <3>2 DEF Pending
    <3> QED
      BY <2>1, <3>1, <3>2, QueryEvents
  <2> QED
    BY <1>3, <1>4, <2>1, <2>2
    DEF Consistent, QueryConsistent, MapConsistent, Untouched, RefusedInvite, Forgotten
<1> QED
  BY <1>2, <1>3, <1>4, OutsideStep DEF s

\* The record behind detachFromCurrentDialog.
LEMMA Detached ==
  ASSUME NEW r, NEW q \in PushRecord,
         << q.owner, q.queries, q.answers, q.posts, q.appq, q.aci, q.map, q.mapq,
            q.conn, q.info, q.cdr >>
         = << r.owner, r.queries, r.answers, r.posts, r.appq, r.aci, r.map, r.mapq,
              r.conn, r.info, r.cdr >>
  PROVE  QueryDone(r, DetachFromCurrentDialog(q))
<1> DEFINE s == DetachFromCurrentDialog(q)
<1>1. << >> \in Seq(SriEvents)
  OBVIOUS
<1>2. s \in PushRecord
  BY <1>1 DEF DetachFromCurrentDialog, PushRecord, SriStates
<1>3. /\ s.sri = "none" /\ s.sriq = << >>
      /\ << s.owner, s.queries, s.answers, s.posts, s.appq, s.aci, s.map, s.mapq,
            s.conn, s.info, s.cdr >>
         = << q.owner, q.queries, q.answers, q.posts, q.appq, q.aci, q.map, q.mapq,
              q.conn, q.info, q.cdr >>
  BY DEF DetachFromCurrentDialog, PushRecord
<1> QED
  BY <1>2, <1>3 DEF QueryDone

\* The record of a query that is over: detached, or ended by the register.
LEMMA QueryDoneBy ==
  ASSUME NEW r \in PushRecord, r.sriq # << >>
  PROVE  /\ QueryDone(r, DetachFromCurrentDialog(SriRest(r)))
         /\ QueryDone(r, DetachFromCurrentDialog(CloseQuery(SriRest(r))))
         /\ Head(r.sriq) \in Terminal => QueryDone(r, SriRest(r))
         /\ Head(r.sriq) = "Delimiter" /\ ~ r.located => QueryDone(r, CloseQuery(SriRest(r)))
<1> DEFINE q == SriRest(r)
           c == CloseQuery(q)
<1>1. q \in PushRecord /\ q = [r EXCEPT !.sriq = Tail(r.sriq)]
  BY SriRestType
<1>2. c \in PushRecord /\ \E x \in SriStates : c = [q EXCEPT !.sri = x]
  BY <1>1 DEF CloseQuery, PushRecord, SriStates
<1>3. Consistent(r) => Pending(r)
  BY StillLocating
<1> HIDE DEF q, c
<1>4. QueryDone(r, DetachFromCurrentDialog(q)) /\ QueryDone(r, DetachFromCurrentDialog(c))
  <2>1. /\ << q.owner, q.queries, q.answers, q.posts, q.appq, q.aci, q.map, q.mapq,
              q.conn, q.info, q.cdr >>
           = << r.owner, r.queries, r.answers, r.posts, r.appq, r.aci, r.map, r.mapq,
                r.conn, r.info, r.cdr >>
        /\ << c.owner, c.queries, c.answers, c.posts, c.appq, c.aci, c.map, c.mapq,
              c.conn, c.info, c.cdr >>
           = << q.owner, q.queries, q.answers, q.posts, q.appq, q.aci, q.map, q.mapq,
                q.conn, q.info, q.cdr >>
    BY <1>1, <1>2 DEF PushRecord
  <2> QED
    BY <1>1, <1>2, <2>1, Detached
<1>5. ASSUME Head(r.sriq) \in Terminal
      PROVE  QueryDone(r, q)
  <2>1. Consistent(r) => r.sri = "ended" /\ Tail(r.sriq) = << >>
    BY <1>3, <1>5, QueryEvents
  <2> QED
    BY <1>1, <2>1 DEF PushRecord, QueryDone
<1>6. ASSUME Head(r.sriq) = "Delimiter", ~ r.located
      PROVE  QueryDone(r, c)
  <2>1. ~ Consistent(r)
    BY <1>3, <1>6, QueryEvents
  <2> QED
    BY <1>1, <1>2, <2>1 DEF PushRecord, QueryDone
<1> QED
  BY <1>4, <1>5, <1>6 DEF q, c

\* onSriFullResponse with a location.
LEMMA TellResultStep ==
  ASSUME TypeOK, NEW d \in Dialogs, NEW q, QueryDone(dlg[d], q), dlg[d].sriq # << >>,
         TellResult(d, q)
  PROVE  StepOf(d)
<1> DEFINE r == dlg[d]
           c == ParentAnswered(q)
           n == CreateNewDialog(c)
<1>1. PICK fault \in {"none"} \cup (Faults \cap {"create", "send"}) :
        /\ Becomes(d, OnSriResult(c, fault))
        /\ inProcess' = IF fault = "create" THEN inProcess - 1 ELSE inProcess
  BY DEF TellResult
<1> DEFINE s == OnSriResult(c, fault)
<1>2. r \in PushRecord /\ inProcess \in Int
  BY DEF TypeOK
<1>3. c \in PushRecord /\ n \in PushRecord
  BY <1>2, ParentTold
<1>4. IF fault = "create" THEN Evolves(c, s) ELSE Evolves(n, s)
  BY <1>3, HttpOnSriResultEvolves, SipOnSriResultEvolves DEF OnSriResult
<1> HIDE DEF s
<1>5. (fault = "create" => StepTo(r, s, -1)) /\ (fault # "create" => StepTo(r, s, 0))
  BY <1>2, <1>4, TellStep
<1> HIDE DEF r
<1>6. /\ fault = "create" => inProcess' = inProcess + (-1)
      /\ fault # "create" => inProcess' = inProcess + 0
      /\ -1 \in Int /\ 0 \in Int
  BY <1>1, <1>2
<1> QED
  BY <1>1, <1>5, <1>6 DEF StepOf, r, s

\* onSriError.
LEMMA TellErrorStep ==
  ASSUME TypeOK, NEW d \in Dialogs, NEW q, QueryDone(dlg[d], q), dlg[d].sriq # << >>,
         NEW status \in CdrStatuses, TellError(d, q, status)
  PROVE  StepOf(d)
<1> DEFINE r == dlg[d]
           c == ParentAnswered(q)
           s == OnSriError(c, status)
<1>1. Becomes(d, s) /\ inProcess' = inProcess + (-1) /\ -1 \in Int
  BY DEF TypeOK, TellError
<1>2. r \in PushRecord
  BY DEF TypeOK
<1>3. c \in PushRecord
  BY <1>2, ParentTold
<1>4. Evolves(c, s)
  BY <1>3, HttpOnSriErrorEvolves, SipOnSriErrorEvolves DEF OnSriError
<1> HIDE DEF s
<1>5. StepTo(r, s, -1)
  BY <1>2, <1>4, TellStep
<1> QED
  BY <1>1, <1>5 DEF StepOf

\* Another query, with an older application context.
LEMMA QueryAgainStep ==
  ASSUME NEW r \in PushRecord, NEW q, QueryDone(r, q), r.sriq # << >>
  PROVE  StepTo(r, PerformSriQuery(q), 0)
<1> DEFINE s == PerformSriQuery(q)
<1>1. q \in PushRecord /\ q.queries + 1 \in Nat /\ << >> \in Seq(SriEvents)
  BY DEF QueryDone, PushRecord
<1>2. s \in PushRecord
  BY <1>1 DEF PerformSriQuery, PushRecord, SriStates
<1>3. /\ << s.owner, s.answers, s.posts, s.appq, s.aci, s.map, s.mapq,
            s.conn, s.info, s.cdr >>
         = << r.owner, r.answers, r.posts, r.appq, r.aci, r.map, r.mapq,
              r.conn, r.info, r.cdr >>
      /\ s.queries = r.queries + 1 /\ s.sri = "open" /\ s.sriq = << >>
  BY <1>1 DEF PerformSriQuery, PushRecord, QueryDone
<1> HIDE DEF s
<1>4. r.queries \in Nat
  BY DEF PushRecord
<1>5. ASSUME Consistent(r)
      PROVE  Consistent(s) /\ Moves(r, s, 0)
  <2>1. /\ Phase(r) = "locating" /\ r.owner # "none"
        /\ r.queries # 0 /\ r.answers = 0 /\ ~r.aci
    BY <1>5, StillLocating
  <2>2. s.queries # 0 /\ s.queries > 0
    BY <1>3, <1>4
  <2>3. Consistent(s)
    BY <1>3, <1>5, <2>1, <2>2
    DEF Consistent, QueryConsistent, MapConsistent, Untouched, RefusedInvite, Pending
  <2>4. Phase(s) = "locating" /\ ~Forgotten(s) /\ ~Forgotten(r)
    BY <1>3, <2>1, <2>2 DEF Phase, Locating, Forgotten
  <2> QED
    BY <2>1, <2>3, <2>4 DEF Moves
<1> QED
  BY <1>2, <1>3, <1>5 DEF StepTo, CdrKept, s

\* The SriSbb, on the dialog of the query.
LEMMA SriStep ==
  ASSUME TypeOK, NEW d \in Dialogs, HandleSri(d)
  PROVE  StepOf(d)
<1> DEFINE r == dlg[d]
<1>1. r \in PushRecord
  BY DEF TypeOK
<1>2. CASE SriStoresComponent(d)
  <2>1. /\ r.sriq # << >> /\ Head(r.sriq) \in Answers
        /\ Update(d, StoreComponent(SriRest(r), Head(r.sriq)))
    BY <1>2 DEF SriStoresComponent, SriDelivered, Answers
  <2> QED
    BY <1>1, <2>1, StoreStep, UpdateStep
<1>3. \A q : NotLocatedStatus(q) \in CdrStatuses
  BY DEF NotLocatedStatus, CdrStatuses, SriStatuses
<1>4. CASE SriClose(d)
  <2>1. r.sriq # << >> /\ Head(r.sriq) \in Terminal /\ SriFullResponse(d, SriRest(r))
    BY <1>4 DEF SriClose, SriDelivered, Terminal, SriEvents, Answers
  <2> QED
    BY <1>1, <1>3, <2>1, QueryDoneBy, TellResultStep, TellErrorStep DEF SriFullResponse
<1>5. CASE SriDelimiter(d)
  <2> DEFINE q == CloseQuery(SriRest(r))
  <2>1. r.sriq # << >> /\ Head(r.sriq) = "Delimiter" /\ SriFullResponse(d, q)
    BY <1>5 DEF SriDelimiter, SriDelivered
  <2>2. q.located = r.located
    BY <1>1, <2>1, SriRestType DEF CloseQuery, PushRecord
  <2> QED
    BY <1>1, <1>3, <2>1, <2>2, QueryDoneBy, TellResultStep, TellErrorStep
    DEF SriFullResponse
<1>6. CASE SriRetries(d)
  <2> DEFINE q == DetachFromCurrentDialog(SriRest(r))
  <2>1. r.sriq # << >>
    BY <1>6 DEF SriRetries, SriDelivered
  <2>2. QueryDone(r, q)
    BY <1>1, <2>1, QueryDoneBy
  <2>3. QueryFailedStatus("RejectAcn") \in CdrStatuses
    BY DEF QueryFailedStatus, CdrStatuses, SriStatuses
  <2>4. Update(d, PerformSriQuery(q)) \/ TellError(d, q, QueryFailedStatus("RejectAcn"))
    BY <1>6 DEF SriRetries
  <2> HIDE DEF q
  <2> QED
    BY <1>1, <2>1, <2>2, <2>3, <2>4, QueryAgainStep, UpdateStep, TellErrorStep
<1>7. CASE SriQueryFails(d)
  <2>1. /\ r.sriq # << >>
        /\ Head(r.sriq) \in {"Reject", "UserAbort", "ProviderAbort", "DialogTimeout"}
        /\ TellError(d, SriRest(r), QueryFailedStatus(Head(r.sriq)))
    BY <1>7 DEF SriQueryFails, SriDelivered
  <2>2. Head(r.sriq) \in Terminal /\ QueryFailedStatus(Head(r.sriq)) \in CdrStatuses
    BY <2>1 DEF Terminal, SriEvents, Answers, QueryFailedStatus, CdrStatuses, SriStatuses
  <2> QED
    BY <1>1, <2>1, <2>2, QueryDoneBy, TellErrorStep
<1> QED
  BY <1>2, <1>4, <1>5, <1>6, <1>7 DEF HandleSri

-----------------------------------------------------------------------------
(***************************************************************************)
(* The mobile and the MAP stack.                                           *)
(***************************************************************************)
\* A dialog in service stays in service, and fires anything but Release.
Signals(r, q) ==
  /\ q \in PushRecord /\ Live(r) /\ Live(q) /\ Kept(q) = Kept(r)
  /\ q.cdr = r.cdr /\ q.conn = r.conn /\ q.info = r.info
  /\ NoRelease(r.mapq) => NoRelease(q.mapq)

\* One signal after the other.
LEMMA SignalsTrans ==
  ASSUME NEW r, NEW s, NEW t, Signals(r, s), Signals(s, t)
  PROVE  Signals(r, t)
BY DEF Signals

\* An event of the MAP stack.
LEMMA FireSignals ==
  ASSUME NEW r, NEW q, Signals(r, q), NEW e \in MapEvents, e # "Release"
  PROVE  Signals(r, Fire(q, e))
<1>1. q \in PushRecord /\ q.mapq \in Seq(MapEvents)
  BY DEF Signals, PushRecord
<1>2. Append(q.mapq, e) \in Seq(MapEvents)
  BY <1>1, MapQueue
<1>3. Fire(q, e) \in PushRecord
  BY <1>1, <1>2 DEF Fire, PushRecord
<1>4. NoRelease(q.mapq) => NoRelease(Append(q.mapq, e))
  BY <1>1, NoReleaseAppend
<1>5. /\ Fire(q, e).mapq = Append(q.mapq, e) /\ Kept(Fire(q, e)) = Kept(q)
      /\ << Fire(q, e).cdr, Fire(q, e).conn, Fire(q, e).info, Fire(q, e).map >>
         = << q.cdr, q.conn, q.info, q.map >>
  BY <1>1 DEF Fire, PushRecord, Kept
<1> QED
  BY <1>3, <1>4, <1>5 DEF Signals, Live

\* An operation that is answered or given up.
LEMMA InvokeSignals ==
  ASSUME NEW r, NEW q, Signals(r, q), NEW op
  PROVE  Signals(r, [q EXCEPT !.invokes = @ \ {op}])
<1>1. [q EXCEPT !.invokes = @ \ {op}] \in PushRecord
  BY DEF Signals, PushRecord
<1> QED
  BY <1>1 DEF Signals, PushRecord, Kept, Live

\* The message of the mobile, and the acceptance of the dialog.
LEMMA ReachedSignals ==
  ASSUME NEW r \in PushRecord, Live(r), NEW tcap \in TcapTypes
  PROVE  Signals(r, Reached(r, tcap)) /\ Signals(r, [r EXCEPT !.tcap = tcap])
<1> DEFINE a == [r EXCEPT !.tcap = tcap]
           b == [r EXCEPT !.tcap = tcap, !.map = "active"]
<1>1. a \in PushRecord /\ b \in PushRecord
  BY DEF PushRecord, MapStates
<1>2. Signals(r, a) /\ Signals(r, b)
  BY <1>1 DEF Signals, PushRecord, Kept, Live
<1>3. Signals(r, Fire(b, "Accept"))
  BY <1>2, FireSignals DEF MapEvents
<1> QED
  BY <1>2, <1>3 DEF Reached

\* A signal, and a signal that ends the dialog.
LEMMA SignalStep ==
  ASSUME NEW r \in PushRecord, NEW q, Signals(r, q), NEW how \in Endings
  PROVE  StepTo(r, q, 0) /\ StepTo(r, Expunge(q, how), 0)
<1>1. q \in PushRecord /\ q.map \in Running /\ CdrKept(r, q)
  BY DEF Signals, Live, Running, CdrKept
<1>2. Evolves(q, q) /\ Evolves(q, Expunge(q, how))
  BY <1>1, EvolvesRefl, ExpungeEvolves
<1>3. ASSUME Consistent(r)
      PROVE  /\ Consistent(q) /\ r.owner # "none" /\ q.owner # "none"
             /\ Phase(q) = Phase(r)
             /\ Forgotten(q) <=> Forgotten(r)
  <2>1. /\ q.owner = r.owner /\ q.sri = r.sri /\ q.sriq = r.sriq /\ q.located = r.located
        /\ q.queries = r.queries /\ q.answers = r.answers /\ q.posts = r.posts
        /\ q.appq = r.appq /\ q.aci = r.aci /\ q.conn = r.conn /\ q.info = r.info
    BY DEF Signals, Kept
  <2>2. r.aci /\ r.answers > 0 /\ NoRelease(r.mapq)
    BY <1>3 DEF Signals, Live, Consistent, MapConsistent, Running
  <2>3. r.owner # "none"
    BY <1>3, <2>2 DEF Consistent, Untouched, QueryConsistent, PushRecord
  <2>4. MapConsistent(q)
    BY <2>1, <2>2 DEF Signals, MapConsistent
  <2>5. Consistent(q)
    BY <1>3, <2>1, <2>3, <2>4
    DEF Consistent, QueryConsistent, Pending, Untouched, RefusedInvite
  <2> QED
    BY <2>1, <2>3, <2>5, SamePhase DEF Forgotten
<1> QED
  BY <1>1, <1>2, <1>3, HandlerStep

\* The mobile answers, its network fails, or a timer expires.
LEMMA MobileStep ==
  ASSUME TypeOK, NEW d \in Dialogs, Mobile(d)
  PROVE  StepOf(d)
<1> DEFINE r == dlg[d]
<1>1. r \in PushRecord
  BY DEF TypeOK
<1>2. Live(r)
  BY DEF Mobile, MobileAnswers, MobileEnds, MobileAborts, InvokeExpires, DialogExpires,
         TimerExpires
<1>3. /\ "peerEnd" \in Endings /\ "peerAbort" \in Endings /\ "idle" \in Endings
      /\ "Continue" \in TcapTypes /\ "End" \in TcapTypes /\ "Abort" \in TcapTypes
  BY DEF Endings, TcapTypes
<1>4. Signals(r, r)
  BY <1>1, <1>2 DEF Signals
<1>5. ASSUME NEW tcap \in TcapTypes, NEW op \in r.invokes, NEW e \in Replies(op)
      PROVE  Signals(r, Answer(Reached(r, tcap), op, e))
  <2>1. op \in Operations
    BY <1>1, <1>5 DEF PushRecord
  <2>2. e \in MapEvents /\ e # "Release"
    BY <1>5, <2>1 DEF Replies, AnswerOf, Operations, MapEvents, AnswerEvents
  <2>3. Signals(r, Reached(r, tcap))
    BY <1>1, <1>2, <1>5, ReachedSignals
  <2> QED
    BY <2>2, <2>3, InvokeSignals, FireSignals DEF Answer
<1>6. CASE MobileAnswers(d)
  BY <1>1, <1>2, <1>3, <1>5, <1>6, ReachedSignals, SignalStep, UpdateStep
  DEF MobileAnswers
<1>7. CASE MobileEnds(d)
  BY <1>1, <1>2, <1>3, <1>5, <1>7, ReachedSignals, SignalStep, UpdateStep
  DEF MobileEnds
<1>8. CASE MobileAborts(d)
  <2> DEFINE q == [r EXCEPT !.tcap = "Abort"]
  <2>1. PICK e \in {"Reject", "UserAbort", "ProviderAbort"} :
          Update(d, Expunge(Fire(q, e), "peerAbort"))
    BY <1>8 DEF MobileAborts
  <2>2. Signals(r, q)
    BY <1>1, <1>2, <1>3, ReachedSignals
  <2> HIDE DEF q
  <2>3. Signals(r, Fire(q, e))
    BY <2>2, FireSignals DEF MapEvents
  <2> QED
    BY <1>1, <1>3, <2>1, <2>3, SignalStep, UpdateStep
<1>9. CASE InvokeExpires(d)
  <2>1. PICK op \in r.invokes :
          Update(d, Fire([r EXCEPT !.invokes = @ \ {op}], "InvokeTimeout"))
    BY <1>9 DEF InvokeExpires
  <2> DEFINE q == [r EXCEPT !.invokes = @ \ {op}]
  <2>2. Signals(r, q)
    BY <1>4, InvokeSignals
  <2> HIDE DEF q
  <2>3. Signals(r, Fire(q, "InvokeTimeout"))
    BY <2>2, FireSignals DEF MapEvents
  <2> QED
    BY <1>1, <1>3, <2>1, <2>3, SignalStep, UpdateStep DEF q
<1>10. CASE DialogExpires(d)
  <2>1. Signals(r, Fire(r, "DialogTimeout"))
    BY <1>4, FireSignals DEF MapEvents
  <2> QED
    BY <1>1, <1>3, <1>10, <2>1, SignalStep, UpdateStep DEF DialogExpires
<1>11. CASE TimerExpires(d)
  <2>1. PICK t \in r.timers : Update(d, Fire([r EXCEPT !.timers = @ \ {t}], "Timer"))
    BY <1>11 DEF TimerExpires
  <2> DEFINE q == [r EXCEPT !.timers = @ \ {t}]
  <2>2. q \in PushRecord
    BY <1>1 DEF PushRecord
  <2>3. Signals(r, q)
    BY <1>1, <1>2, <2>2 DEF Signals, PushRecord, Kept, Live
  <2> HIDE DEF q
  <2>4. Signals(r, Fire(q, "Timer"))
    BY <2>3, FireSignals DEF MapEvents
  <2> QED
    BY <1>1, <1>3, <2>1, <2>4, SignalStep, UpdateStep DEF q
<1> QED
  BY <1>6, <1>7, <1>8, <1>9, <1>10, <1>11 DEF Mobile

-----------------------------------------------------------------------------
(***************************************************************************)
(* The server SBBs.                                                        *)
(***************************************************************************)
\* onDialogRelease.
LEMMA ReleaseStep ==
  ASSUME NEW r \in PushRecord, r.mapq # << >>, Head(r.mapq) = "Release"
  PROVE  StepTo(r, OnDialogRelease(r), -1)
<1> DEFINE s == OnDialogRelease(r)
<1>1. << >> \in Seq(MapEvents)
  OBVIOUS
<1>2. s \in PushRecord
  BY <1>1 DEF OnDialogRelease, PushRecord
<1>3. /\ ~s.aci /\ s.mapq = << >>
      /\ << s.owner, s.sri, s.sriq, s.located, s.queries, s.answers, s.posts, s.appq,
            s.conn, s.info, s.cdr, s.map >>
         = << r.owner, r.sri, r.sriq, r.located, r.queries, r.answers, r.posts, r.appq,
              r.conn, r.info, r.cdr, r.map >>
  BY DEF OnDialogRelease, PushRecord
<1> HIDE DEF s
<1>4. ASSUME Consistent(r)
      PROVE  Consistent(s) /\ Phase(r) = "pushing" /\ Phase(s) = "done"
  <2>1. r.aci /\ r.answers > 0
    BY <1>4 DEF Consistent, MapConsistent
  <2>2. r.mapq \in Seq(MapEvents)
    BY DEF PushRecord
  <2>3. ~ NoRelease(r.mapq)
    BY <2>2, NoReleaseTail
  <2>4. r.map \notin Running
    BY <1>4, <2>3 DEF Consistent, MapConsistent, Running
  <2>5. r.queries # 0 /\ r.owner # "none"
    BY <1>4, <2>1 DEF Consistent, Untouched, QueryConsistent, PushRecord
  <2>6. NoRelease(<< >>)
    BY DEF NoRelease
  <2>7. Consistent(s)
    BY <1>3, <1>4, <2>1, <2>4, <2>5, <2>6
    DEF Consistent, Untouched, RefusedInvite, QueryConsistent, MapConsistent
  <2>8. r.answers # 0
    BY <2>1
  <2> QED
    BY <1>3, <2>1, <2>5, <2>7, <2>8 DEF Phase, Locating
<1> QED
  BY <1>2, <1>3, <1>4 DEF StepTo, CdrKept, Moves, s

\* The server SBB, on the MAP activity.
LEMMA MapStep ==
  ASSUME TypeOK, NEW d \in Dialogs, HandleMap(d)
  PROVE  StepOf(d)
<1> DEFINE r == dlg[d]
           q == Rest(r)
<1>1. r \in PushRecord /\ inProcess \in Int
  BY DEF TypeOK
<1>2. r.mapq # << >>
  BY DEF HandleMap, HandleUnstructuredSSResponse, HandleNotifyResponse, HandleOtherMessage,
         HandleAccept, HandleReject, HandleUserAbort, HandleProviderAbort,
         HandleInvokeTimeout, HandleRejectComponent, HandleErrorComponent,
         HandleDialogTimeout, HandleTimer, HandleRelease, OnAbortIndication,
         OnComponentFailure, Delivered
<1>3. q \in PushRecord
  BY <1>1, <1>2, RestStep
<1> HIDE DEF q
<1>4. ASSUME NEW http, NEW sip, Evolves(q, http), Evolves(q, sip),
             Update(d, ByOwner(q, http, sip))
      PROVE  StepOf(d)
  BY <1>1, <1>2, <1>4, MapHandlerStep, UpdateStep DEF ByOwner, q
<1>5. /\ "FAILED_DIALOG_REJECTED" \in CdrStatuses
      /\ "FAILED_DIALOG_USER_ABORT" \in CdrStatuses
      /\ "FAILED_PROVIDER_ABORT" \in CdrStatuses
      /\ "FAILED_INVOKE_TIMEOUT" \in CdrStatuses
      /\ "FAILED_MAP_REJECT_COMPONENT" \in CdrStatuses
      /\ "FAILED_MAP_ERROR_COMPONENT" \in CdrStatuses
  BY DEF CdrStatuses
<1>6. CASE HandleUnstructuredSSResponse(d)
  BY <1>3, <1>4, <1>6, HttpAnswersEvolve, SipAnswersEvolve
  DEF HandleUnstructuredSSResponse, q
<1>7. CASE HandleNotifyResponse(d)
  BY <1>3, <1>4, <1>7, HttpAnswersEvolve, SipAnswersEvolve DEF HandleNotifyResponse, q
<1>8. CASE HandleOtherMessage(d)
  BY <1>3, <1>4, <1>8, ProcessReceivedEvolves, SipAnswersEvolve DEF HandleOtherMessage, q
<1>9. CASE HandleAccept(d)
  BY <1>3, <1>4, <1>9, HttpOnDialogAcceptEvolves, SipAnswersEvolve DEF HandleAccept, q
<1>10. ASSUME NEW e, NEW status \in CdrStatuses, OnAbortIndication(d, e, status)
       PROVE  StepOf(d)
  BY <1>3, <1>4, <1>10, HttpOnSriErrorEvolves, SipOnSriErrorEvolves
  DEF OnAbortIndication, q
<1>11. ASSUME NEW e, NEW status \in CdrStatuses, OnComponentFailure(d, e, status)
       PROVE  StepOf(d)
  BY <1>3, <1>4, <1>11, HttpFailuresEvolve, SipFailuresEvolve DEF OnComponentFailure, q
<1>12. CASE HandleErrorComponent(d)
  BY <1>3, <1>4, <1>5, <1>12, HttpFailuresEvolve, SipFailuresEvolve
  DEF HandleErrorComponent, q
<1>13. CASE HandleDialogTimeout(d)
  BY <1>3, <1>4, <1>5, <1>13, HttpFailuresEvolve, SipFailuresEvolve
  DEF HandleDialogTimeout, q
<1>14. CASE HandleTimer(d)
  BY <1>3, <1>4, <1>5, <1>14, HttpFailuresEvolve, SipOnTimerEventEvolves DEF HandleTimer, q
<1>15. CASE HandleRelease(d)
  <2>1. /\ Head(r.mapq) = "Release" /\ Becomes(d, OnDialogRelease(r))
        /\ inProcess' = inProcess + (-1) /\ -1 \in Int
    BY <1>1, <1>15 DEF HandleRelease, Delivered
  <2>2. StepTo(r, OnDialogRelease(r), -1)
    BY <1>1, <1>2, <2>1, ReleaseStep
  <2> QED
    BY <2>1, <2>2 DEF StepOf
<1> QED
  BY <1>5, <1>6, <1>7, <1>8, <1>9, <1>10, <1>11, <1>12, <1>13, <1>14, <1>15
  DEF HandleMap, HandleReject, HandleUserAbort, HandleProviderAbort, HandleInvokeTimeout,
      HandleRejectComponent

\* The server SBB, on the session or the SIP dialog.
LEMMA AppStep ==
  ASSUME TypeOK, NEW d \in Dialogs, HandleApp(d)
  PROVE  StepOf(d)
<1> DEFINE r == dlg[d]
           q == AppRest(r)
<1>1. r \in PushRecord
  BY DEF TypeOK
<1>2. r.appq # << >>
  BY DEF HandleApp, HandleSessionPost, HandleInfo, HandleBye, HandleTransportError, Received
<1>3. q \in PushRecord
  BY <1>1, <1>2, AppRestStep
<1> HIDE DEF q
<1>4. ASSUME NEW s, Evolves(q, s), Update(d, s)
      PROVE  StepOf(d)
  BY <1>1, <1>2, <1>4, AppHandlerStep, UpdateStep DEF q
<1>5. CASE HandleSessionPost(d)
  BY <1>3, <1>4, <1>5, OnSessionPostEvolves DEF HandleSessionPost, Received, q
<1>6. CASE HandleInfo(d)
  BY <1>3, <1>4, <1>6, OnDialogInfoEvolves DEF HandleInfo, Received, q
<1>7. CASE HandleBye(d)
  BY <1>3, <1>4, <1>7, OnDialogByeEvolves DEF HandleBye, q
<1>8. CASE HandleTransportError(d)
  <2>1. "FAILED_TRANSPORT_ERROR" \in CdrStatuses
    BY DEF CdrStatuses
  <2> QED
    BY <1>3, <1>4, <1>8, <2>1, SipFailuresEvolve DEF HandleTransportError, q
<1> QED
  BY <1>5, <1>6, <1>7, <1>8 DEF HandleApp

-----------------------------------------------------------------------------
(***************************************************************************)
(* The applications.                                                       *)
(***************************************************************************)
\* A message of an application, or its side of a SIP dialog, changes.
LEMMA ApplicationEvent ==
  ASSUME NEW r \in PushRecord, NEW s \in PushRecord,
         << s.owner, s.sri, s.sriq, s.located, s.queries, s.answers, s.aci, s.map,
            s.mapq, s.cdr >>
         = << r.owner, r.sri, r.sriq, r.located, r.queries, r.answers, r.aci, r.map,
              r.mapq, r.cdr >>,
         r.conn # "none" \/ r.info,
         s.conn = r.conn \/ s.conn = "over",
         s.posts = r.posts \/ r.conn # "over"
  PROVE  StepTo(r, s, 0)
<1>1. ASSUME Consistent(r)
      PROVE  Consistent(s) /\ (Forgotten(s) <=> Forgotten(r))
  <2>1. r.owner # "none"
    BY <1>1 DEF Consistent, Untouched
  <2>2. r.owner = "sip" /\ r.queries = 0 => r.conn = "over"
    BY <1>1 DEF Consistent, RefusedInvite
  <2> QED
    BY <1>1, <2>1, <2>2
    DEF Consistent, QueryConsistent, Pending, MapConsistent, Untouched, RefusedInvite,
        Forgotten
<1> QED
  BY <1>1, OutsideStep

\* A record that an application takes: refused, or to be located.
LEMMA StartStep ==
  ASSUME NEW r \in PushRecord, NEW s \in PushRecord, NEW delta,
         r.owner = "none", s.owner \in {"http", "sip"},
         << s.answers, s.aci, s.map, s.mapq, s.cdr >>
         = << r.answers, r.aci, r.map, r.mapq, r.cdr >>,
         \/ /\ s.queries = r.queries /\ s.sri = r.sri /\ s.sriq = r.sriq
            /\ s.owner = "sip" => s.conn = "over"
            /\ r.posts = 0 /\ r.queries = 0 => delta = IF Forgotten(s) THEN 1 ELSE 0
         \/ /\ s.queries = r.queries + 1 /\ s.sri = "open" /\ s.sriq = << >>
            /\ delta = 1
  PROVE  StepTo(r, s, delta)
<1>1. ASSUME Consistent(r)
      PROVE  Consistent(s) /\ Starts(r, s, delta)
  <2>1. Phase(r) = "idle"
    BY <1>1, PhaseCounts
  <2>2. /\ r.queries = 0 /\ r.posts = 0 /\ r.answers = 0 /\ ~r.aci /\ r.map \notin Running
        /\ r.mapq = << >> /\ r.sri # "open" /\ r.sriq = << >>
    BY <1>1 DEF Consistent, Untouched, QueryConsistent, MapConsistent
  <2>3. NoRelease(<< >>)
    BY DEF NoRelease
  <2>4. CASE s.queries = r.queries
    <3>1. /\ s.queries = 0 /\ s.answers = 0 /\ ~s.aci
          /\ s.map \notin Running /\ s.mapq = << >>
          /\ s.sri # "open" /\ s.sriq = << >>
          /\ s.owner = "sip" => s.conn = "over"
          /\ delta = IF Forgotten(s) THEN 1 ELSE 0
      BY <2>2, <2>4
    <3>2. Phase(s) = "refused"
      BY <3>1 DEF Phase, Locating
    <3>3. Consistent(s)
      BY <2>3, <3>1
      DEF Consistent, Untouched, RefusedInvite, QueryConsistent, MapConsistent
    <3> QED
      BY <2>1, <3>1, <3>2, <3>3 DEF Starts
  <2>5. CASE s.queries = r.queries + 1 /\ s.sri = "open" /\ s.sriq = << >> /\ delta = 1
    <3>1. s.queries = 1
      BY <2>2, <2>5
    <3>2. Consistent(s) /\ Phase(s) = "locating"
      BY <2>2, <2>3, <2>5, <3>1
      DEF Consistent, Untouched, RefusedInvite, QueryConsistent, MapConsistent, Pending,
          Phase, Locating
    <3> QED
      BY <2>1, <2>5, <3>2 DEF Starts
  <2> QED
    BY <2>4, <2>5
<1> QED
  BY <1>1 DEF StepTo, CdrKept, Moves

\* The fields of PerformSriQuery, on a record that was just taken.
LEMMA QuerySent ==
  ASSUME NEW q \in PushRecord
  PROVE  LET s == PerformSriQuery(q)
         IN  /\ s \in PushRecord
             /\ s.queries = q.queries + 1 /\ s.sri = "open" /\ s.sriq = << >>
             /\ << s.owner, s.answers, s.aci, s.map, s.mapq, s.cdr >>
                = << q.owner, q.answers, q.aci, q.map, q.mapq, q.cdr >>
<1>1. q.queries + 1 \in Nat /\ << >> \in Seq(SriEvents)
  BY DEF PushRecord
<1> QED
  BY <1>1 DEF PerformSriQuery, PushRecord, SriStates

\* A POST that is refused.
LEMMA PostRefused ==
  ASSUME NEW r \in PushRecord, r.owner = "none"
  PROVE  StepTo(r, OnUnusablePost(r), 0)
<1> DEFINE u == OnUnusablePost(r)
<1>1. u \in PushRecord
  BY DEF OnUnusablePost, UpdateDialogFailureStat, PushRecord, Owners
<1>2. /\ u.owner = "http" /\ ~Forgotten(u)
      /\ << u.answers, u.aci, u.map, u.mapq, u.cdr, u.queries, u.sri, u.sriq >>
         = << r.answers, r.aci, r.map, r.mapq, r.cdr, r.queries, r.sri, r.sriq >>
  BY DEF OnUnusablePost, UpdateDialogFailureStat, PushRecord, Forgotten
<1> HIDE DEF u
<1>3. StepTo(r, u, 0)
  BY <1>1, <1>2, StartStep
<1> QED
  BY <1>3 DEF u

\* onPost.
LEMMA PostStep ==
  ASSUME NEW r \in PushRecord, r.owner = "none", NEW first \in Firsts
  PROVE  /\ StepTo(r, OnPost(r, first), 1)
         /\ StepTo(r, OnPostNoQuery(r, first), 0)
<1> DEFINE q == StartPush(r, first)
           a == AbortHttpDialog(q)
           n == UpdateDialogFailureStat(a)
<1>1. /\ first.op \in Operations /\ first.handshake \in BOOLEAN /\ first.last \in BOOLEAN
  BY InputsAssumption
<1>3. q \in PushRecord
  BY <1>1 DEF StartPush, PushRecord, Owners, Contexts, ConnStates
<1>4. q.owner = "http"
      /\ << q.answers, q.aci, q.map, q.mapq, q.cdr, q.queries, q.sri, q.sriq >>
         = << r.answers, r.aci, r.map, r.mapq, r.cdr, r.queries, r.sri, r.sriq >>
  BY DEF StartPush, PushRecord
<1> HIDE DEF q
<1>5. StepTo(r, OnPost(r, first), 1)
  <2> DEFINE s == PerformSriQuery(q)
  <2>1. /\ s \in PushRecord
        /\ s.queries = q.queries + 1 /\ s.sri = "open" /\ s.sriq = << >>
        /\ << s.owner, s.answers, s.aci, s.map, s.mapq, s.cdr >>
           = << q.owner, q.answers, q.aci, q.map, q.mapq, q.cdr >>
    BY <1>3, QuerySent
  <2> HIDE DEF s
  <2>2. StepTo(r, s, 1)
    BY <1>4, <2>1, StartStep
  <2> QED
    BY <2>2 DEF OnPost, s, q
<1>6. StepTo(r, n, 0)
  <2>1. Evolves(q, a)
    BY <1>3, AbortHttpDialogEvolves
  <2>2. a.map = q.map /\ a.mapq = q.mapq /\ a.cdr = q.cdr
    BY <1>3 DEF AbortHttpDialog, EndHttpSessionActivity, ResumeHttpEventContext, PushRecord
  <2> HIDE DEF a
  <2>3. /\ a \in PushRecord
        /\ << a.owner, a.answers, a.aci, a.queries, a.sri, a.sriq >>
           = << q.owner, q.answers, q.aci, q.queries, q.sri, q.sriq >>
    BY <2>1 DEF Evolves, Kept
  <2>4. n \in PushRecord
    BY <2>3 DEF UpdateDialogFailureStat, PushRecord
  <2>5. << n.owner, n.answers, n.aci, n.queries, n.sri, n.sriq, n.map, n.mapq, n.cdr >>
        = << a.owner, a.answers, a.aci, a.queries, a.sri, a.sriq, a.map, a.mapq, a.cdr >>
    BY <2>3 DEF UpdateDialogFailureStat, PushRecord
  <2> HIDE DEF n
  <2>6. ~Forgotten(n)
    BY <1>4, <2>3, <2>5 DEF Forgotten
  <2> QED
    BY <1>4, <2>2, <2>3, <2>4, <2>5, <2>6, StartStep
<1> QED
  BY <1>5, <1>6 DEF OnPostNoQuery, n, a, q

\* onInvite.
LEMMA InviteStep ==
  ASSUME NEW r \in PushRecord, r.owner = "none", NEW op \in Operations
  PROVE  /\ StepTo(r, OnUnusableInvite(r), 0)
         /\ StepTo(r, OnInvite(r, op), 1)
         /\ StepTo(r, OnInviteNoReply(r, op), 1)
         /\ StepTo(r, OnInviteNoQuery(r, op), 1)
<1> DEFINE u == OnUnusableInvite(r)
           q == StartSipPush(r, op)
           s == PerformSriQuery(q)
           n == OnInviteNoReply(r, op)
           x == OnInviteNoQuery(r, op)
<1>1. StepTo(r, u, 0)
  <2>1. u \in PushRecord
    BY DEF OnUnusableInvite, UpdateDialogFailureStat, PushRecord, Owners, ConnStates
  <2>2. /\ u.owner = "sip" /\ u.conn = "over" /\ u.posts = r.posts
        /\ << u.answers, u.aci, u.map, u.mapq, u.cdr, u.queries, u.sri, u.sriq >>
           = << r.answers, r.aci, r.map, r.mapq, r.cdr, r.queries, r.sri, r.sriq >>
    BY DEF OnUnusableInvite, UpdateDialogFailureStat, PushRecord
  <2> HIDE DEF u
  <2>3. r.posts = 0 => ~Forgotten(u)
    BY <2>2 DEF Forgotten
  <2> QED
    BY <2>1, <2>2, <2>3, StartStep
<1>2. q \in PushRecord
  BY DEF StartSipPush, PushRecord, Owners, ConnStates
<1>3. /\ q.owner = "sip" /\ q.posts = 1
      /\ << q.answers, q.aci, q.map, q.mapq, q.cdr, q.queries, q.sri, q.sriq >>
         = << r.answers, r.aci, r.map, r.mapq, r.cdr, r.queries, r.sri, r.sriq >>
  BY DEF StartSipPush, PushRecord
<1>4. x \in PushRecord
  BY <1>2 DEF OnInviteNoQuery, UpdateDialogFailureStat, PushRecord, ConnStates
<1>5. /\ x.owner = "sip" /\ x.posts = 1 /\ x.conn = "over"
      /\ << x.answers, x.aci, x.map, x.mapq, x.cdr, x.queries, x.sri, x.sriq >>
         = << q.answers, q.aci, q.map, q.mapq, q.cdr, q.queries, q.sri, q.sriq >>
  BY <1>2, <1>3 DEF OnInviteNoQuery, UpdateDialogFailureStat, PushRecord
<1> HIDE DEF q, x
<1>6. StepTo(r, x, 1)
  <2>1. r.queries = 0 => Forgotten(x)
    BY <1>3, <1>5 DEF Forgotten
  <2> QED
    BY <1>3, <1>4, <1>5, <2>1, StartStep
<1>7. /\ s \in PushRecord
      /\ s.queries = q.queries + 1 /\ s.sri = "open" /\ s.sriq = << >>
      /\ << s.owner, s.answers, s.aci, s.map, s.mapq, s.cdr >>
         = << q.owner, q.answers, q.aci, q.map, q.mapq, q.cdr >>
  BY <1>2, QuerySent
<1> HIDE DEF s
<1>8. StepTo(r, s, 1)
  BY <1>3, <1>7, StartStep
<1>9. n = UpdateDialogFailureStat([s EXCEPT !.conn = "over"])
  BY DEF OnInviteNoReply, OnInvite, s, q
<1> HIDE DEF n
<1>10. n \in PushRecord
  BY <1>7, <1>9 DEF UpdateDialogFailureStat, PushRecord, ConnStates
<1>11. << n.owner, n.answers, n.aci, n.map, n.mapq, n.cdr, n.queries, n.sri, n.sriq >>
       = << s.owner, s.answers, s.aci, s.map, s.mapq, s.cdr, s.queries, s.sri, s.sriq >>
  BY <1>7, <1>9 DEF UpdateDialogFailureStat, PushRecord
<1>12. StepTo(r, n, 1)
  BY <1>3, <1>7, <1>10, <1>11, StartStep
<1> QED
  BY <1>1, <1>6, <1>8, <1>12 DEF u, x, n, s, q, OnInvite

\* What an application does.
LEMMA ApplicationStep ==
  ASSUME TypeOK, NEW d \in Dialogs, Application(d)
  PROVE  StepOf(d)
<1> DEFINE r == dlg[d]
<1>1. r \in PushRecord /\ inProcess \in Int
  BY DEF TypeOK
<1>2. CASE HttpPostUnusable(d)
  <2>1. r.owner = "none" /\ Update(d, OnUnusablePost(r))
    BY <1>2 DEF HttpPostUnusable, New
  <2>2. StepTo(r, OnUnusablePost(r), 0)
    BY <1>1, <2>1, PostRefused
  <2> QED
    BY <2>1, <2>2, UpdateStep
<1>3. CASE HttpPost(d)
  <2>1. PICK first \in Firsts : r.owner = "none" /\ Becomes(d, OnPost(r, first))
    BY <1>3 DEF HttpPost, New
  <2>2. StepTo(r, OnPost(r, first), 1)
    BY <1>1, <2>1, PostStep
  <2>3. inProcess' = inProcess + 1 /\ 1 \in Int
    BY <1>3 DEF HttpPost
  <2> QED
    BY <2>1, <2>2, <2>3 DEF StepOf
<1>4. CASE HttpPostNoQuery(d)
  <2>1. PICK first \in Firsts : r.owner = "none" /\ Update(d, OnPostNoQuery(r, first))
    BY <1>4 DEF HttpPostNoQuery, New
  <2>2. StepTo(r, OnPostNoQuery(r, first), 0)
    BY <1>1, <2>1, PostStep
  <2> QED
    BY <2>1, <2>2, UpdateStep
<1>5. SipOperations \subseteq Operations
  BY InputsAssumption DEF SipOperations
<1>6. CASE SipInviteUnusable(d)
  <2>1. r.owner = "none" /\ Update(d, OnUnusableInvite(r)) /\ "notify" \in Operations
    BY <1>6 DEF SipInviteUnusable, New, Operations
  <2>2. StepTo(r, OnUnusableInvite(r), 0)
    BY <1>1, <2>1, InviteStep
  <2> QED
    BY <2>1, <2>2, UpdateStep
<1>7. CASE SipInvite(d)
  <2>1. PICK op \in SipOperations :
          \/ Becomes(d, OnInvite(r, op))
          \/ Becomes(d, OnInviteNoReply(r, op))
    BY <1>7 DEF SipInvite
  <2>2. r.owner = "none" /\ op \in Operations
    BY <1>5, <1>7 DEF SipInvite, New
  <2>3. StepTo(r, OnInvite(r, op), 1) /\ StepTo(r, OnInviteNoReply(r, op), 1)
    BY <1>1, <2>2, InviteStep
  <2>4. inProcess' = inProcess + 1 /\ 1 \in Int
    BY <1>7 DEF SipInvite
  <2> QED
    BY <2>1, <2>3, <2>4 DEF StepOf
<1>8. CASE SipInviteNoQuery(d)
  <2>1. PICK op \in SipOperations : Becomes(d, OnInviteNoQuery(r, op))
    BY <1>8 DEF SipInviteNoQuery
  <2>2. r.owner = "none" /\ op \in Operations
    BY <1>5, <1>8 DEF SipInviteNoQuery, New
  <2>3. StepTo(r, OnInviteNoQuery(r, op), 1)
    BY <1>1, <2>2, InviteStep
  <2>4. inProcess' = inProcess + 1 /\ 1 \in Int
    BY <1>8 DEF SipInviteNoQuery
  <2> QED
    BY <2>1, <2>3, <2>4 DEF StepOf
<1>9. ASSUME NEW k \in AppEvents, r.conn \notin {"none", "over"}
      PROVE  StepTo(r, Sends(r, k), 0)
  <2>1. Append(r.appq, k) \in Seq(AppEvents) /\ r.posts + 1 \in Nat
    BY <1>1, <1>9, AppQueue DEF PushRecord
  <2>2. Sends(r, k) \in PushRecord
    BY <1>1, <2>1 DEF Sends, PushRecord
  <2> QED
    BY <1>1, <1>9, <2>2, ApplicationEvent DEF Sends, PushRecord
<1>10. CASE HttpAppPosts(d)
  BY <1>9, <1>10, UpdateStep DEF HttpAppPosts, AppEvents
<1>11. CASE SipAppSends(d)
  BY <1>9, <1>11, UpdateStep DEF SipAppSends, AppEvents, SipEvents
<1>12. CASE SuspendExpires(d)
  <2> DEFINE s == ResumeHttpEventContext(r)
  <2>1. Evolves(r, s)
    BY <1>1, ResumeEvolves
  <2>2. s.cdr = r.cdr /\ s.map = r.map /\ s.mapq = r.mapq /\ s.conn = r.conn /\ s.info = r.info
    BY <1>1 DEF ResumeHttpEventContext, PushRecord
  <2> HIDE DEF s
  <2>3. s \in PushRecord /\ Kept(s) = Kept(r)
    BY <2>1 DEF Evolves
  <2>4. Consistent(r) => Consistent(s) /\ (Forgotten(s) <=> Forgotten(r))
    BY <2>2, <2>3
    DEF Kept, Consistent, QueryConsistent, Pending, MapConsistent, Untouched,
        RefusedInvite, Forgotten
  <2>5. StepTo(r, s, 0)
    BY <1>1, <2>2, <2>3, <2>4, OutsideStep DEF Kept
  <2> QED
    BY <1>12, <2>5, UpdateStep DEF SuspendExpires, s
<1>13. ASSUME NEW s \in PushRecord, Update(d, s), r.conn # "none" \/ r.info,
              << s.owner, s.sri, s.sriq, s.located, s.queries, s.answers, s.aci, s.map,
                 s.mapq, s.cdr, s.posts >>
              = << r.owner, r.sri, r.sriq, r.located, r.queries, r.answers, r.aci, r.map,
                   r.mapq, r.cdr, r.posts >>,
              s.conn = r.conn \/ s.conn = "over"
       PROVE  StepOf(d)
  BY <1>1, <1>13, ApplicationEvent, UpdateStep
<1>14. \A k \in {"failure", "dialogTimeout"} : Append(r.appq, k) \in Seq(AppEvents)
  BY <1>1, AppQueue DEF PushRecord, AppEvents, SipEvents
<1>15. CASE SipAppRefuses(d)
  <2> DEFINE s == [r EXCEPT !.info = FALSE, !.appq = Append(@, "failure")]
             t == [r EXCEPT !.conn = "over", !.appq = Append(@, "failure")]
  <2>1. s \in PushRecord /\ t \in PushRecord
    BY <1>1, <1>14 DEF PushRecord, ConnStates
  <2>2. CASE r.info /\ Update(d, s)
    BY <1>1, <1>13, <2>1, <2>2 DEF PushRecord
  <2>3. CASE r.conn \in {"bye", "lateBye"} /\ Update(d, t)
    <3>1. << t.owner, t.sri, t.sriq, t.located, t.queries, t.answers, t.aci, t.map,
             t.mapq, t.cdr, t.posts >>
          = << r.owner, r.sri, r.sriq, r.located, r.queries, r.answers, r.aci, r.map,
               r.mapq, r.cdr, r.posts >>
          /\ t.conn = "over" /\ r.conn # "none"
      BY <1>1, <2>3 DEF PushRecord
    <3> QED
      BY <1>13, <2>1, <2>3, <3>1
  <2> QED
    BY <1>15, <2>2, <2>3 DEF SipAppRefuses
<1>16. CASE SipAppAcceptsBye(d)
  <2>1. [r EXCEPT !.conn = "over"] \in PushRecord
    BY <1>1 DEF PushRecord, ConnStates
  <2> QED
    BY <1>1, <1>13, <1>16, <2>1 DEF SipAppAcceptsBye, PushRecord
<1>17. CASE SipDialogExpires(d)
  <2>1. [r EXCEPT !.conn = "over", !.appq = Append(@, "dialogTimeout")] \in PushRecord
    BY <1>1, <1>14 DEF PushRecord, ConnStates
  <2> QED
    BY <1>1, <1>13, <1>17, <2>1 DEF SipDialogExpires, PushRecord
<1> QED
  BY <1>2, <1>3, <1>4, <1>6, <1>7, <1>8, <1>10, <1>11, <1>12, <1>15, <1>16, <1>17
  DEF Application

-----------------------------------------------------------------------------
(***************************************************************************)
(* Theorems.                                                               *)
(***************************************************************************)
AllConsistent == \A d \in Dialogs : Consistent(dlg[d])

\* Every step of the service is the step of one dialog.
LEMMA NextIsStep ==
  ASSUME TypeOK, Next
  PROVE  \E d \in Dialogs : StepOf(d)
BY RegisterStep, SriStep, MobileStep, MapStep, ApplicationStep, AppStep DEF Next

\* What a step of d leaves of the other records.
LEMMA Frame ==
  ASSUME TypeOK, NEW d \in Dialogs, NEW s, Becomes(d, s)
  PROVE  dlg'[d] = s /\ \A x \in Dialogs \ {d} : dlg'[x] = dlg[x]
BY DEF TypeOK, Becomes

\* The record before the first message.
LEMMA NoPushType ==
  /\ NoPush \in PushRecord /\ Consistent(NoPush)
  /\ Phase(NoPush) = "idle" /\ NoPush.cdr = "none" /\ ~Forgotten(NoPush)
  /\ ~Locating(NoPush) /\ ~NoPush.aci
<1>1. << >> \in Seq(SriEvents) /\ << >> \in Seq(MapEvents) /\ << >> \in Seq(AppEvents)
  OBVIOUS
<1>2. NoPush \in PushRecord
  BY <1>1 DEF NoPush, PushRecord, Owners, Operations, SriStates, Refusals, MapStates,
              TcapTypes, Endings, Contexts, ConnStates
<1>3. /\ NoPush.owner = "none" /\ NoPush.cdr = "none" /\ NoPush.queries = 0
      /\ NoPush.answers = 0 /\ NoPush.posts = 0 /\ NoPush.conn = "none"
      /\ NoPush.appq = << >> /\ NoPush.info = FALSE /\ NoPush.sri = "none"
      /\ NoPush.sriq = << >> /\ NoPush.map = "none" /\ NoPush.mapq = << >>
      /\ NoPush.aci = FALSE
  BY DEF NoPush
<1>4. NoRelease(<< >>)
  BY DEF NoRelease
<1>5. Consistent(NoPush)
  BY <1>3, <1>4
  DEF Consistent, Untouched, RefusedInvite, QueryConsistent, MapConsistent, Running
<1> QED
  BY <1>2, <1>3, <1>5 DEF Phase, Locating, Forgotten

\* Type correctness.
THEOREM TypeCorrect == Spec => []TypeOK
<1>1. Init => TypeOK
  BY NoPushType DEF Init, TypeOK
<1>2. TypeOK /\ [Next]_vars => TypeOK'
  <2> SUFFICES ASSUME TypeOK, [Next]_vars PROVE TypeOK'
    OBVIOUS
  <2>1. CASE UNCHANGED vars
    BY <2>1 DEF vars, TypeOK
  <2>2. CASE Next
    <3>1. PICK d, s, delta :
            /\ d \in Dialogs
            /\ s \in PushRecord /\ delta \in Int
            /\ Becomes(d, s) /\ inProcess' = inProcess + delta
      BY <2>2, NextIsStep DEF StepOf, StepTo
    <3> QED
      BY <3>1 DEF TypeOK, Becomes
  <2> QED
    BY <2>1, <2>2
<1> QED
  BY <1>1, <1>2, PTL DEF Spec

\* Whatever the register, the mobile and the application do, and however often the
\* SriSbb answers, the CDR of a dialog is written once.
THEOREM CdrWritten == Spec => CdrWriteOnce
<1>1. TypeOK /\ [Next]_vars =>
        [\A d \in Dialogs : dlg[d].cdr # "none" => dlg'[d].cdr = dlg[d].cdr]_vars
  <2> SUFFICES ASSUME TypeOK, Next, NEW x \in Dialogs, dlg[x].cdr # "none"
               PROVE  dlg'[x].cdr = dlg[x].cdr
    OBVIOUS
  <2>1. PICK d, s : d \in Dialogs /\ CdrKept(dlg[d], s) /\ Becomes(d, s)
    BY NextIsStep DEF StepOf, StepTo
  <2> QED
    BY <2>1, Frame DEF CdrKept
<1> QED
  BY <1>1, TypeCorrect, PTL DEF Spec, CdrWriteOnce

\* The invariant from which the others follow.
THEOREM Consistency == RegisterCloses => (Spec => [](TypeOK /\ AllConsistent))
<1> SUFFICES ASSUME RegisterCloses PROVE Spec => [](TypeOK /\ AllConsistent)
  OBVIOUS
<1>1. Init => AllConsistent
  BY NoPushType DEF Init, AllConsistent
<1>2. TypeOK /\ AllConsistent /\ [Next]_vars => AllConsistent'
  <2> SUFFICES ASSUME TypeOK, AllConsistent, [Next]_vars PROVE AllConsistent'
    OBVIOUS
  <2>1. CASE UNCHANGED vars
    BY <2>1 DEF vars, AllConsistent
  <2>2. CASE Next
    <3>1. PICK d, s, delta : d \in Dialogs /\ StepTo(dlg[d], s, delta) /\ Becomes(d, s)
      BY <2>2, NextIsStep DEF StepOf
    <3>2. Consistent(s)
      BY <3>1 DEF StepTo, AllConsistent
    <3> QED
      BY <3>1, <3>2, Frame DEF AllConsistent
  <2> QED
    BY <2>1, <2>2
<1> QED
  BY <1>1, <1>2, TypeCorrect, PTL DEF Spec

\* The parent is told once, if the register closes its dialogs.
THEOREM AnsweredOnce == RegisterCloses => (Spec => []SriAnsweredOnce)
<1> SUFFICES ASSUME RegisterCloses PROVE Spec => []SriAnsweredOnce
  OBVIOUS
<1>1. AllConsistent => SriAnsweredOnce
  BY DEF AllConsistent, Consistent, QueryConsistent, SriAnsweredOnce
<1> QED
  BY <1>1, Consistency, PTL

\* Sets of dialogs that differ in one.
LEMMA OneChanges ==
  ASSUME NEW A \in SUBSET Dialogs, NEW B \in SUBSET Dialogs, NEW d \in Dialogs,
         A \ {d} = B \ {d}
  PROVE  /\ Cardinality(A) \in Nat /\ Cardinality(B) \in Nat
         /\ Cardinality(B) = Cardinality(A) + (IF d \in B THEN 1 ELSE 0)
                                            - (IF d \in A THEN 1 ELSE 0)
<1> DEFINE C == A \ {d}
<1>1. IsFiniteSet(A) /\ IsFiniteSet(B) /\ IsFiniteSet(C)
  BY DialogsAssumption, FS_Subset
<1>2. Cardinality(A) \in Nat /\ Cardinality(B) \in Nat /\ Cardinality(C) \in Nat
  BY <1>1, FS_CardinalityType
<1>3. d \notin C
  OBVIOUS
<1>4. Cardinality(C \cup {d}) = Cardinality(C) + 1
  BY <1>1, <1>3, FS_AddElement
<1>5. Cardinality(A) = Cardinality(C) + (IF d \in A THEN 1 ELSE 0)
  <2>1. CASE d \in A
    <3>1. A = C \cup {d}
      BY <2>1
    <3> QED
      BY <1>4, <2>1, <3>1
  <2>2. CASE d \notin A
    <3>1. A = C
      BY <2>2
    <3> QED
      BY <1>2, <2>2, <3>1
  <2> QED
    BY <2>1, <2>2
<1>6. Cardinality(B) = Cardinality(C) + (IF d \in B THEN 1 ELSE 0)
  <2>1. CASE d \in B
    <3>1. B = C \cup {d}
      BY <2>1
    <3> QED
      BY <1>4, <2>1, <3>1
  <2>2. CASE d \notin B
    <3>1. B = C
      BY <2>2
    <3> QED
      BY <1>2, <2>2, <3>1
  <2> QED
    BY <2>1, <2>2
<1> HIDE DEF C
<1> QED
  BY <1>2, <1>5, <1>6

Counted(r) == Locating(r) \/ r.aci

InService == {x \in Dialogs : Counted(dlg[x])}

LeftCounted == {x \in Dialogs : Forgotten(dlg[x])}

\* What a move does to the share of its dialog in the counter.
LEMMA MoveCounts ==
  ASSUME NEW r \in PushRecord, NEW s \in PushRecord, NEW delta,
         Consistent(r), Consistent(s), Moves(r, s, delta)
  PROVE  /\ delta = (IF Counted(s) THEN 1 ELSE 0) - (IF Counted(r) THEN 1 ELSE 0)
                  + (IF Forgotten(s) THEN 1 ELSE 0) - (IF Forgotten(r) THEN 1 ELSE 0)
         /\ delta \in Int
<1>1. /\ Counted(r) <=> Phase(r) \in {"locating", "pushing"}
      /\ Counted(s) <=> Phase(s) \in {"locating", "pushing"}
      /\ Forgotten(r) => Phase(r) = "refused"
      /\ Forgotten(s) => Phase(s) = "refused"
  BY PhaseCounts DEF Counted
<1> QED
  BY <1>1 DEF Moves, Starts

\* What a consistent step does to the counter and the sets behind it.
LEMMA StepCounts ==
  ASSUME TypeOK, AllConsistent, RegisterCloses,
         NEW d \in Dialogs, NEW s, NEW delta, StepTo(dlg[d], s, delta), Becomes(d, s)
  PROVE  /\ Cardinality(InService) \in Nat /\ Cardinality(InService') \in Nat
         /\ Cardinality(LeftCounted) \in Nat /\ Cardinality(LeftCounted') \in Nat
         /\ Cardinality(LeftCounted') = Cardinality(LeftCounted)
                                        + (IF Forgotten(s) THEN 1 ELSE 0)
                                        - (IF Forgotten(dlg[d]) THEN 1 ELSE 0)
         /\ delta = Cardinality(InService') - Cardinality(InService)
                    + Cardinality(LeftCounted') - Cardinality(LeftCounted)
<1> DEFINE A == InService
           F == LeftCounted
           B == {x \in Dialogs : Counted(dlg'[x])}
           G == {x \in Dialogs : Forgotten(dlg'[x])}
<1>1. dlg'[d] = s /\ \A x \in Dialogs \ {d} : dlg'[x] = dlg[x]
  BY Frame
<1>2. /\ dlg[d] \in PushRecord /\ s \in PushRecord
      /\ Consistent(dlg[d]) /\ Consistent(s) /\ Moves(dlg[d], s, delta)
  BY DEF TypeOK, AllConsistent, StepTo
<1>3. /\ delta = (IF Counted(s) THEN 1 ELSE 0) - (IF Counted(dlg[d]) THEN 1 ELSE 0)
               + (IF Forgotten(s) THEN 1 ELSE 0) - (IF Forgotten(dlg[d]) THEN 1 ELSE 0)
      /\ delta \in Int
  BY <1>2, MoveCounts
<1>4. /\ d \in A <=> Counted(dlg[d])
      /\ d \in B <=> Counted(s)
      /\ d \in F <=> Forgotten(dlg[d])
      /\ d \in G <=> Forgotten(s)
  BY <1>1 DEF InService, LeftCounted
<1>5. A \ {d} = B \ {d} /\ F \ {d} = G \ {d}
  BY <1>1 DEF InService, LeftCounted
<1>6. A \in SUBSET Dialogs /\ B \in SUBSET Dialogs /\ F \in SUBSET Dialogs /\ G \in SUBSET Dialogs
  BY DEF InService, LeftCounted
<1>7. A' = B /\ F' = G
  BY DEF InService, LeftCounted, Counted, Locating, Forgotten
<1> HIDE DEF A, B, F, G
<1>8. /\ Cardinality(A) \in Nat /\ Cardinality(B) \in Nat
      /\ Cardinality(B) = Cardinality(A) + (IF d \in B THEN 1 ELSE 0)
                                         - (IF d \in A THEN 1 ELSE 0)
  BY <1>5, <1>6, OneChanges
<1>9. /\ Cardinality(F) \in Nat /\ Cardinality(G) \in Nat
      /\ Cardinality(G) = Cardinality(F) + (IF d \in G THEN 1 ELSE 0)
                                         - (IF d \in F THEN 1 ELSE 0)
  BY <1>5, <1>6, OneChanges
<1>10. /\ Cardinality(G) = Cardinality(F) + (IF Forgotten(s) THEN 1 ELSE 0)
                                          - (IF Forgotten(dlg[d]) THEN 1 ELSE 0)
       /\ delta = Cardinality(B) - Cardinality(A) + Cardinality(G) - Cardinality(F)
  BY <1>3, <1>4, <1>8, <1>9
<1> QED
  BY <1>7, <1>8, <1>9, <1>10 DEF A, F

\* The counter of dialogs in process is exact, but for those that onInvite forgot.
THEOREM InProcess == RegisterCloses => (Spec => []InProcessExact)
<1> SUFFICES ASSUME RegisterCloses PROVE Spec => []InProcessExact
  OBVIOUS
<1> DEFINE A == InService
           F == LeftCounted
           Exact == inProcess = Cardinality(A) + Cardinality(F)
<1>1. Init => Exact
  <2> SUFFICES ASSUME Init PROVE Exact
    OBVIOUS
  <2>1. A = {} /\ F = {}
    BY NoPushType DEF Init, InService, LeftCounted, Counted
  <2> QED
    BY <2>1, FS_EmptySet DEF Init
<1>2. TypeOK /\ AllConsistent /\ Exact /\ [Next]_vars => Exact'
  <2> SUFFICES ASSUME TypeOK, AllConsistent, Exact, [Next]_vars PROVE Exact'
    OBVIOUS
  <2>1. CASE UNCHANGED vars
    <3>1. A' = A /\ F' = F /\ inProcess' = inProcess
      BY <2>1 DEF vars, InService, LeftCounted, Counted, Locating, Forgotten
    <3> QED
      BY <3>1
  <2>2. CASE Next
    <3>1. PICK d, s, delta :
            /\ d \in Dialogs
            /\ StepTo(dlg[d], s, delta) /\ Becomes(d, s)
            /\ inProcess' = inProcess + delta
      BY <2>2, NextIsStep DEF StepOf
    <3>2. /\ Cardinality(A) \in Nat /\ Cardinality(A') \in Nat
          /\ Cardinality(F) \in Nat /\ Cardinality(F') \in Nat
          /\ delta = Cardinality(A') - Cardinality(A) + Cardinality(F') - Cardinality(F)
      BY <3>1, StepCounts
    <3> HIDE DEF A, F
    <3>3. inProcess' = Cardinality(A') + Cardinality(F')
      BY <3>1, <3>2
    <3> QED
      BY <3>3 DEF A, F
  <2> QED
    BY <2>1, <2>2
<1>3. Exact <=> InProcessExact
  BY DEF InProcessExact, InService, LeftCounted, Counted
<1> QED
  BY <1>1, <1>2, <1>3, Consistency, PTL DEF Spec

\* The service implements the abstract lifecycle.
THEOREM Refinement == RegisterCloses => (Spec => LifecycleSafe)
<1> SUFFICES ASSUME RegisterCloses PROVE Spec => LifecycleSafe
  OBVIOUS
<1> DEFINE F == LeftCounted
           phase == [x \in Dialogs |-> Phase(dlg[x])]
           record == [x \in Dialogs |-> dlg[x].cdr]
           count == inProcess - Cardinality(F)
<1>1. Init => Lifecycle!Init
  <2> SUFFICES ASSUME Init PROVE Lifecycle!Init
    OBVIOUS
  <2>1. F = {}
    BY NoPushType DEF Init, LeftCounted
  <2>2. count = 0
    BY <2>1, FS_EmptySet DEF Init
  <2>3. /\ phase = [x \in Dialogs |-> "idle"] /\ record = [x \in Dialogs |-> "none"]
    BY NoPushType DEF Init
  <2> QED
    BY <2>2, <2>3 DEF Lifecycle!Init, LeftCounted
<1>2. TypeOK /\ AllConsistent /\ [Next]_vars => [Lifecycle!Next]_(Lifecycle!vars)
  <2> SUFFICES ASSUME TypeOK, AllConsistent, [Next]_vars
               PROVE  [Lifecycle!Next]_(Lifecycle!vars)
    OBVIOUS
  <2>1. CASE UNCHANGED vars
    <3>1. phase' = phase /\ record' = record /\ count' = count
      BY <2>1 DEF vars, LeftCounted, Phase, Locating, Forgotten
    <3> QED
      BY <3>1 DEF Lifecycle!vars, LeftCounted
  <2>2. CASE Next
    <3>1. PICK d, s, delta :
            /\ d \in Dialogs
            /\ StepTo(dlg[d], s, delta) /\ Becomes(d, s)
            /\ inProcess' = inProcess + delta /\ delta \in Int
      BY <2>2, NextIsStep DEF StepOf
    <3>0. d \in Dialogs
      BY <3>1
    <3> USE <3>0
    <3> DEFINE r == dlg[d]
    <3>2. dlg'[d] = s /\ \A x \in Dialogs \ {d} : dlg'[x] = dlg[x]
      BY <3>1, Frame
    <3>3. /\ r \in PushRecord /\ s \in PushRecord /\ CdrKept(r, s) /\ Moves(r, s, delta)
          /\ Consistent(r) /\ Consistent(s) /\ inProcess \in Int
      BY <3>1 DEF TypeOK, AllConsistent, StepTo
    <3>4. /\ Cardinality(F) \in Nat /\ Cardinality(F') \in Nat
          /\ Cardinality(F') = Cardinality(F) + (IF Forgotten(s) THEN 1 ELSE 0)
                                              - (IF Forgotten(r) THEN 1 ELSE 0)
      BY <3>1, StepCounts
    <3>5. phase' = [phase EXCEPT ![d] = Phase(s)] /\ phase[d] = Phase(r)
      <4>1. phase' = [x \in Dialogs |-> Phase(dlg'[x])]
        BY DEF Phase, Locating
      <4> QED
        BY <3>2, <4>1
    <3>6. record' = [record EXCEPT ![d] = s.cdr] /\ record[d] = r.cdr
      BY <3>2
    <3>7. phase = [phase EXCEPT ![d] = phase[d]] /\ record = [record EXCEPT ![d] = record[d]]
      OBVIOUS
    <3>8. s.cdr = r.cdr => record' = record
      BY <3>6, <3>7
    <3>9. Phase(s) = Phase(r) => phase' = phase
      BY <3>5, <3>7
    <3>10. /\ Forgotten(r) => Phase(r) = "refused"
           /\ Forgotten(s) => Phase(s) = "refused"
      BY <3>3, PhaseCounts
    <3>11. /\ (Forgotten(s) <=> Forgotten(r)) => count' = count + delta
           /\ Forgotten(s) /\ ~Forgotten(r) => count' = count + delta - 1
      BY <3>1, <3>3, <3>4
    <3>12. s.cdr = r.cdr \/ (r.cdr = "none" /\ s.cdr \in CdrStatuses)
      BY <3>3 DEF CdrKept, PushRecord
    <3>13. count \in Int
      BY <3>3, <3>4
    <3> HIDE DEF phase, record, count, F, r
    <3>14. ASSUME s.cdr = r.cdr \/ Phase(r) # "idle"
           PROVE  Lifecycle!MayBill(d)
      <4>1. CASE s.cdr = r.cdr
        BY <3>8, <4>1 DEF Lifecycle!MayBill, record
      <4>2. CASE s.cdr # r.cdr
        BY <3>5, <3>6, <3>12, <3>14, <4>2 DEF Lifecycle!MayBill, record, phase
      <4> QED
        BY <4>1, <4>2
    <3>15. CASE Phase(s) = Phase(r) /\ (Forgotten(s) <=> Forgotten(r)) /\ delta = 0
                /\ (Phase(r) = "idle" => s.cdr = r.cdr)
      <4>1. phase' = phase /\ count' = count
        BY <3>9, <3>11, <3>13, <3>15
      <4>2. Lifecycle!MayBill(d)
        BY <3>14, <3>15
      <4>3. Lifecycle!Bill(d)
        BY <4>1, <4>2 DEF Lifecycle!Bill, phase, count, F, LeftCounted
      <4> QED
        BY <4>3 DEF Lifecycle!Next
    <3>16. CASE Phase(r) = "idle" /\ s.cdr = r.cdr /\ Phase(s) = "refused"
                /\ delta = IF Forgotten(s) THEN 1 ELSE 0
      <4>1. count' = count /\ record' = record
        BY <3>8, <3>10, <3>11, <3>13, <3>16
      <4>2. Lifecycle!Refuse(d)
        BY <3>5, <3>16, <4>1
        DEF Lifecycle!Refuse, Lifecycle!Move, phase, record, count, F, LeftCounted
      <4> QED
        BY <4>2 DEF Lifecycle!Next
    <3>17. CASE Phase(r) = "idle" /\ s.cdr = r.cdr /\ Phase(s) = "locating" /\ delta = 1
      <4>1. count' = count + 1 /\ record' = record
        BY <3>8, <3>10, <3>11, <3>17
      <4>2. Lifecycle!Start(d)
        BY <3>5, <3>17, <4>1
        DEF Lifecycle!Start, Lifecycle!Move, phase, record, count, F, LeftCounted
      <4> QED
        BY <4>2 DEF Lifecycle!Next
    <3>18. CASE Phase(r) = "locating" /\ Phase(s) = "pushing" /\ delta = 0
      <4>1. count' = count /\ Lifecycle!MayBill(d)
        BY <3>10, <3>11, <3>13, <3>14, <3>18
      <4>2. Lifecycle!Push(d)
        BY <3>5, <3>18, <4>1 DEF Lifecycle!Push, Lifecycle!Move, phase, count, F, LeftCounted
      <4> QED
        BY <4>2 DEF Lifecycle!Next
    <3>19. CASE Phase(r) = "locating" /\ Phase(s) = "done" /\ delta = -1
      <4>1. count' = count - 1 /\ Lifecycle!MayBill(d)
        BY <3>10, <3>11, <3>13, <3>14, <3>19
      <4>2. Lifecycle!GiveUp(d)
        BY <3>5, <3>19, <4>1
        DEF Lifecycle!GiveUp, Lifecycle!Move, phase, count, F, LeftCounted
      <4> QED
        BY <4>2 DEF Lifecycle!Next
    <3>20. CASE Phase(r) = "pushing" /\ Phase(s) = "done" /\ delta = -1 /\ s.cdr = r.cdr
      <4>1. count' = count - 1 /\ record' = record
        BY <3>8, <3>10, <3>11, <3>13, <3>20
      <4>2. Lifecycle!Finish(d)
        BY <3>5, <3>20, <4>1
        DEF Lifecycle!Finish, Lifecycle!Move, phase, record, count, F, LeftCounted
      <4> QED
        BY <4>2 DEF Lifecycle!Next
    <3> QED
      BY <3>3, <3>15, <3>16, <3>17, <3>18, <3>19, <3>20 DEF Moves, Starts
  <2> QED
    BY <2>1, <2>2
<1> QED
  BY <1>1, <1>2, Consistency, PTL DEF Spec, LifecycleSafe, LeftCounted, Lifecycle!Spec
=============================================================================

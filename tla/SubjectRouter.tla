---------------------------- MODULE SubjectRouter ----------------------------
(***************************************************************************)
(* The pure conversions of activities.rs that decide where an activity     *)
(* goes on the fan-out path:                                               *)
(*                                                                         *)
(*  - ActivityPayloadDiscriminants::to_subject, the subject of each kind;  *)
(*  - the multiplex key of ActivityMultiplexer::subscribe: the filter's    *)
(*    subjects joined with "." in the order given, or "everything";        *)
(*  - the filter subjects of ActivityStream::consumer_config, and how the  *)
(*    broker matches them (an empty list filters nothing).                 *)
(*                                                                         *)
(* Keys and subjects are the strings the code builds.                      *)
(***************************************************************************)
EXTENDS Sequences, TLC

LOCAL SeqExt == INSTANCE SequencesExt

CONSTANT Everything     \* the filter None

Discriminants ==
    {"RebaseRequest", "RebaseFinished", "IntegrationTest", "IntegrationTestAlt"}

(* ActivityPayloadDiscriminants::to_subject                                *)
ToSubject(d) ==
    CASE d = "RebaseRequest"      -> "rebase.request"
      [] d = "RebaseFinished"     -> "rebase.finished"
      [] d = "IntegrationTest"    -> "integration_test.test"
      [] d = "IntegrationTestAlt" -> "integration_test.alt"

(* The subjects of a filter, in the order given.                           *)
Subjects(f) == [i \in DOMAIN f |-> ToSubject(f[i])]

(* Vec<String>::join("."): "" for no element.                              *)
Join(seq) ==
    IF seq = <<>> THEN ""
    ELSE SeqExt!FoldLeft(LAMBDA acc, s : acc \o "." \o s, Head(seq), Tail(seq))

(* ActivityMultiplexer::subscribe: the key under which the broadcast       *)
(* sender of a filter is registered.                                       *)
MultiplexKey(f) ==
    IF f = Everything THEN "everything" ELSE Join(Subjects(f))

(* ActivityStream::consumer_config: filter_subjects is left empty for None *)
(* and otherwise lists the filter's subjects.                              *)
FilterSubjects(f) ==
    IF f = Everything THEN <<>> ELSE Subjects(f)

(* The broker delivers a message to a consumer whose filter subjects are   *)
(* empty or name the message's subject.                                    *)
Matches(f, d) ==
    LET fs == FilterSubjects(f) IN
    fs = <<>> \/ \E i \in DOMAIN fs : fs[i] = ToSubject(d)

=============================================================================

------------------------------ MODULE MCCodec ------------------------------
(* A small instance of Codec for TLC.                                     *)
EXTENDS Codec, TLC

CONSTANTS mailer, outboxMailer, report, secret, x

\* Two packages have an Email; a report is named by its content.
Shapes == mailer :> "omitempty" @@ outboxMailer :> "mixed" @@ report :> "both"
            @@ secret :> "hidden"

TypeNames == mailer :> "Email" @@ outboxMailer :> "Email" @@ report :> "Report"
                @@ secret :> ""

GivenNames == [s \in Structs |-> [c \in Contents |-> IF s = report /\ c = x THEN "Email" ELSE ""]]

\* Codecs are interchangeable.
Symmetry == Permutations(Codecs)
===========================================================================

----------------------------- MODULE MCWebmail -----------------------------
(***************************************************************************)
(* Writing mail, reading mail and taking a signed message apart share no   *)
(* state, so the instance checks them side by side and not in product:     *)
(* the initial state says which one a behaviour is about.                  *)
(***************************************************************************)
EXTENDS Webmail, MailFolders, SignedMime

CONSTANTS box, other, r1, r2, r3, bad, MaxSigned, MaxSignature

VARIABLES side, signed, signature

Letter(to, cc, bcc, fingerprint, subject, clean) ==
    [to |-> to, cc |-> cc, bcc |-> bcc, fingerprint |-> fingerprint,
     subject |-> subject, clean |-> clean]

\* A complete document, one without a Subject that names a recipient twice,
\* one that asks for another mailbox's key, one with a malformed recipient,
\* and one whose text BuildMIME refuses.
MCDocument ==
    {Letter(r1, <<r2>>, <<r3>>, None, TRUE, TRUE),
     Letter(r1, <<r1>>, <<>>, None, FALSE, TRUE),
     Letter(r1, <<>>, <<>>, other, TRUE, TRUE),
     Letter(r1, <<bad>>, <<>>, box, TRUE, TRUE),
     Letter(r2, <<>>, <<>>, box, TRUE, FALSE)}

Parts(n) == UNION {[1..k -> Token] : k \in 0..n}

MCInit ==
    /\ Init
    /\ FoldersInit
    /\ \/ side \in {"writing", "reading"} /\ signed = <<>> /\ signature = <<>>
       \/ side = "signed" /\ signed \in Parts(MaxSigned) /\ signature \in Parts(MaxSignature)

MCNext ==
    /\ \/ side = "writing" /\ Next /\ UNCHANGED foldersVars
       \/ side = "reading" /\ FoldersNext /\ UNCHANGED vars
    /\ UNCHANGED <<side, signed, signature>>

MCSpec ==
    /\ MCInit
    /\ [][MCNext]_<<vars, foldersVars, side, signed, signature>>
    /\ \A q \in Request : WF_vars(Submission(q))

\* The parts that SignMIME puts together come out of splitRawMIMEParts as they
\* went in, byte for byte, so the signature is checked over what was signed.
\* Lines that merely begin with the boundary, as those of a nested multipart
\* may, do not disturb it; a line beginning like the closing delimiter would.
SplitUndoesAssembly ==
    side = "signed" /\ ~LooksLikeBoundary(signed) /\ ~LooksLikeBoundary(signature) =>
        splitRawMIMEParts(Assembled(signed, signature)) = <<signed, signature>>
=============================================================================

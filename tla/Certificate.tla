---------------------------- MODULE Certificate ------------------------------
(***************************************************************************)
(* casdoor/config.go: NormalizedCertificate and the check of the PEM text. *)
(*                                                                         *)
(* A text is a sequence of chunks: "junk" between PEM blocks, "broken"     *)
(* blocks that pem.Decode cannot read, and blocks [type, parses, rsa].     *)
(* White space and flattened newlines are gone (normalizePEMText).         *)
(***************************************************************************)
EXTENDS Strings

Chunks == [type : STRING, parses : BOOLEAN, rsa : BOOLEAN]
Chunk(type, parses, rsa) == [type |-> type, parses |-> parses, rsa |-> rsa]
Junk == Chunk("junk", FALSE, FALSE)
Broken == Chunk("broken", FALSE, FALSE)

\* pem.Decode passes over everything up to the first block it can read.
Blocks(text) == {i \in DOMAIN text : text[i] \notin {Junk, Broken}}

ValidateJWTPublicCertificate(text) ==
    IF text = <<>> THEN "empty"
    ELSE IF Blocks(text) = {} THEN "not PEM"
    ELSE LET first == Min(Blocks(text))
             b == text[first]
         IN  FirstError(<< <<first # Len(text), "more than one PEM block">>,
                           <<b.type \in {"PRIVATE KEY", "RSA PRIVATE KEY", "EC PRIVATE KEY"}, "private key">>,
                           <<b.type \notin {"CERTIFICATE", "PUBLIC KEY", "RSA PUBLIC KEY"}, "unsupported type">>,
                           <<~b.parses, "parse">>,
                           <<~b.rsa, "not RSA">> >>)

\* The inline text has priority; file is what reading the file gives.
NormalizedCertificate(inline, hasFile, file) ==
    LET text == IF inline = <<>> /\ hasFile /\ file.err = "" THEN file.text ELSE inline
    IN  IF inline = <<>> /\ hasFile /\ file.err # "" THEN [err |-> "read", text |-> <<>>]
        ELSE LET err == IF text = <<>> THEN "required" ELSE ValidateJWTPublicCertificate(text)
             IN  [err |-> err, text |-> IF err = "" THEN text ELSE <<>>]
=============================================================================

----------------------------- MODULE ClientHello -----------------------------
(***************************************************************************)
(* The ClientHello that opens a session on a TLS port: src/proto.rs.       *)
(*                                                                         *)
(* A record is a sequence of tokens: a number of the wire format, of one,  *)
(* two or three bytes, is one token, and so is a letter of a name.  What   *)
(* the parser only skips (version, random, ciphers) is any token.          *)
(***************************************************************************)
EXTENDS Integers, Sequences, SequencesExt

MAX_TLS_RECORD == 16384
Header == 3         \* tokens: type, major version, length
NotUtf8 == 255
Dot == 46

probe_for_port(port) ==
    CASE port \in {993, 465} -> "TlsSni"
      [] port = 143 -> "ImapGreeting"
      [] port = 587 -> "SmtpGreeting"
      [] OTHER -> "None"

\* A letter in upper case is the letter plus 100.
normalize_name(name) ==
    LET lower == [i \in DOMAIN name |-> name[i] % 100]
        end == SelectLastInSeq(lower, LAMBDA c : c # Dot)
    IN SubSeq(lower, 1, end)

Some(x) == [err |-> "none", some |-> {x}]
None == [err |-> "none", some |-> {}]
Err(e) == [err |-> e, some |-> {}]

\* Tokens still missing.
tls_record_needed(buf) ==
    IF buf = <<>> THEN Some(Header)
    ELSE IF buf[1] # 22 THEN Err("NotTls")
    ELSE IF Len(buf) < Header THEN Some(Header - Len(buf))
    ELSE IF buf[2] # 3 THEN Err("NotTls")
    ELSE IF buf[3] \notin 1 .. MAX_TLS_RECORD THEN Err("Malformed")
    ELSE Some(IF Len(buf) >= Header + buf[3] THEN 0 ELSE Header + buf[3] - Len(buf))

\* The position after the vector whose length is at i.
Skip(s, i) == IF i \in DOMAIN s THEN i + 1 + s[i] ELSE Len(s) + 2

\* The data of the first entry of type 0 in a list of type, length, data.
FirstOfType0(list) ==
    LET scan[j \in 1 .. Len(list) + 1] ==
          IF j + 1 > Len(list) THEN None
          ELSE IF Skip(list, j + 1) > Len(list) + 1 THEN Err("Malformed")
          ELSE IF list[j] = 0 THEN Some(SubSeq(list, j + 2, Skip(list, j + 1) - 1))
          ELSE scan[Skip(list, j + 1)]
    IN scan[1]

parse_sni_extension(data) ==
    LET first == FirstOfType0(SubSeq(data, 2, Skip(data, 1) - 1)) IN
    IF Skip(data, 1) > Len(data) + 1 THEN Err("Malformed")
    ELSE IF \E name \in first.some : name = <<>> \/ NotUtf8 \in ToSet(name) THEN Err("Malformed")
    ELSE first

\* Mutated: the last thing that looks like a name is taken for one.
parse_sni_anywhere(record) ==
    LET hosts == {i \in DOMAIN record : record[i] = 0 /\ Skip(record, i + 1) <= Len(record) + 1}
    IN IF hosts = {} THEN None
       ELSE LET i == CHOOSE i \in hosts : \A j \in hosts : i >= j
            IN Some(SubSeq(record, i + 2, Skip(record, i + 1) - 1))

parse_sni(record) ==
    LET body == SubSeq(record, Header + 1, Header + record[3])
        hello == SubSeq(body, 3, 2 + body[2])
        exts == Skip(hello, Skip(hello, Skip(hello, 2)))
        sni == FirstOfType0(SubSeq(hello, exts + 1, Skip(hello, exts) - 1))
    IN IF Len(body) < 2 \/ body[1] # 1 THEN Err("NotTls")
       ELSE IF 2 + body[2] > Len(body) THEN Err("Malformed")
       ELSE IF exts = Len(hello) + 1 THEN None
       ELSE IF exts \notin DOMAIN hello \/ Skip(hello, exts) > Len(hello) + 1 THEN Err("Malformed")
       ELSE IF sni.some = {} THEN sni
       ELSE parse_sni_extension(CHOOSE data \in sni.some : TRUE)

\* "Ok" or the ProtoError.
validate_tls_client_hello(buf, expected, is_literal) ==
    LET sni == parse_sni(buf) IN
    IF tls_record_needed(buf) # Some(0)
    THEN IF tls_record_needed(buf).some = {} THEN tls_record_needed(buf).err ELSE "Malformed"
    ELSE IF sni.err # "none" THEN sni.err
    ELSE IF is_literal THEN "Ok"
    ELSE IF sni.some = {} THEN "MissingSni"
    ELSE IF {normalize_name(name) : name \in sni.some} = {normalize_name(expected)} THEN "Ok"
    ELSE "SniMismatch"
=============================================================================

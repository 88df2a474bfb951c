------------------------ MODULE ForwardedClientCert ------------------------
(***************************************************************************)
(* The X-Forwarded-Client-Cert header (internal/request/xfcc.go): how      *)
(* processXFCC finds the one certificate in it.  A header value is a       *)
(* sequence of lexical elements: the characters with a meaning, and words  *)
(* (a field name, the URL encoded PEM block of a certificate, a            *)
(* fingerprint), each of which stands for a run of other characters.       *)
(*                                                                         *)
(* An operator that fails in the code yields the empty set here, and the   *)
(* set of its only result where it succeeds.                               *)
(***************************************************************************)
EXTENDS Integers, Sequences, SequencesExt

CONSTANTS
    Certs,              \* the words that are PEM blocks of certificates
    CertHash,           \* certificate -> the word of its fingerprint
    Words,              \* other words, none of them a PEM block
    LineEnds            \* the words that end with a line break when decoded

Space == " "
Special == {"\"", "\\", ",", ";", "=", Space}
Names == {"Cert", "Hash", "Subject"}
Elements == Special \cup Names \cup Words \cup Certs \cup {CertHash[c] : c \in Certs}

ASSUME CertAssumption ==
    /\ Certs \cap (Special \cup Names \cup Words) = {}
    /\ \A c \in Certs : CertHash[c] \notin Certs \cup Special
    /\ \A c, d \in Certs : CertHash[c] = CertHash[d] => c = d
    /\ LineEnds \subseteq Words \cup Certs

-----------------------------------------------------------------------------
(* Splitting. *)

TrimSpace(s) ==
    LET first == SelectInSeq(s, LAMBDA r : r # Space)
    IN  IF first = 0 THEN << >>
        ELSE SubSeq(s, first, SelectLastInSeq(s, LAMBDA r : r # Space))

\* Mutant: a backslash is an ordinary character, also in a quoted string.
splitRuneUnescaped(a, r, sep) ==
    IF r = "\"" THEN [a EXCEPT !.current = Append(@, r), !.inQuotes = ~@]
    ELSE IF r = sep /\ ~a.inQuotes
    THEN [a EXCEPT !.result = Append(@, TrimSpace(a.current)), !.current = << >>]
    ELSE [a EXCEPT !.current = Append(@, r)]

\* The backslash escapes the next character only within quotes.
splitRune(a, r, sep) ==
    IF a.escaped THEN [a EXCEPT !.current = Append(@, r), !.escaped = FALSE]
    ELSE IF r = "\\" THEN [a EXCEPT !.current = Append(@, r), !.escaped = a.inQuotes]
    ELSE IF r = "\"" THEN [a EXCEPT !.current = Append(@, r), !.inQuotes = ~@]
    ELSE IF r = sep /\ ~a.inQuotes
    THEN [a EXCEPT !.result = Append(@, TrimSpace(a.current)), !.current = << >>]
    ELSE [a EXCEPT !.current = Append(@, r)]

splitOutsideQuotes(s, sep) ==
    LET scan[i \in 0..Len(s)] ==
            IF i = 0 THEN [result |-> << >>, current |-> << >>, inQuotes |-> FALSE, escaped |-> FALSE]
            ELSE splitRune(scan[i - 1], s[i], sep)
        last == scan[Len(s)]
    IN  IF last.escaped \/ last.inQuotes THEN {}
        ELSE {Append(last.result, TrimSpace(last.current))}

splitXFCCEntries(header) == splitOutsideQuotes(header, ",")

-----------------------------------------------------------------------------
(* The fields of an entry. *)

unescapeRune(a, r) ==
    IF r = "\\" /\ ~a.escaped THEN [a EXCEPT !.escaped = TRUE]
    ELSE [value |-> Append(a.value, r), escaped |-> FALSE]

unescapeQuoted(s) ==
    LET scan[i \in 0..Len(s)] ==
            IF i = 0 THEN [value |-> << >>, escaped |-> FALSE]
            ELSE unescapeRune(scan[i - 1], s[i])
        last == scan[Len(s)]
    IN  IF last.escaped THEN {} ELSE {last.value}

unquoteXFCCValue(v) ==
    IF Len(v) >= 2 /\ v[1] = "\"" /\ v[Len(v)] = "\""
    THEN unescapeQuoted(SubSeq(v, 2, Len(v) - 1))
    ELSE {v}

\* strings.Cut at the first "="; 0 where there is none.
Cut(part) == SelectInSeq(part, LAMBDA r : r = "=")
Key(part) == TrimSpace(SubSeq(part, 1, Cut(part) - 1))
Value(part) == unquoteXFCCValue(TrimSpace(SubSeq(part, Cut(part) + 1, Len(part))))

WellFormed(part) == Cut(part) # 0 /\ Key(part) # << >> /\ Value(part) # {}

\* Empty parts are skipped; of two fields with one name the last counts.
parseXFCCFields(entry) ==
    LET fields(parts) ==
            LET named == {i \in DOMAIN parts : parts[i] # << >>}
                last(key) == CHOOSE i \in named : /\ Key(parts[i]) = key
                                                  /\ \A j \in named : Key(parts[j]) = key => j <= i
            IN  [key \in {Key(parts[i]) : i \in named} |->
                    CHOOSE v \in Value(parts[last(key)]) : TRUE]
    IN  {fields(parts) : parts \in {p \in splitOutsideQuotes(entry, ";") :
                                       \A i \in DOMAIN p : p[i] # << >> => WellFormed(p[i])}}

-----------------------------------------------------------------------------
(* The certificate. *)

\* A PEM block has to begin a line, whatever text comes before it.
IsBlock(v, i) == v[i] \in Certs /\ (i = 1 \/ v[i - 1] \in LineEnds)

\* The first PEM block, after which only space may come.
parseXFCCCert(v) ==
    LET first == {i \in DOMAIN v : IsBlock(v, i) /\ \A k \in 1..(i - 1) : ~IsBlock(v, k)}
    IN  {v[i] : i \in {j \in first : \A k \in (j + 1)..Len(v) : v[k] = Space}}

verifyXFCCHash(c, provided) == TrimSpace(provided) = <<CertHash[c]>>

\* Whether the fields name certificate c.  A fingerprint, if there is one that
\* is not empty, has to be the certificate's.
FieldsName(fields, c) ==
    /\ <<"Cert">> \in DOMAIN fields
    /\ c \in parseXFCCCert(fields[<<"Cert">>])
    /\ <<"Hash">> \in DOMAIN fields /\ fields[<<"Hash">>] # << >>
         => verifyXFCCHash(c, fields[<<"Hash">>])

\* The certificates of the header's values: at most one.
ForwardedCerts(values) ==
    LET entries == IF Len(values) = 1 THEN splitXFCCEntries(values[1]) ELSE {}
        fields == UNION {parseXFCCFields(e[1]) : e \in {f \in entries : Len(f) = 1}}
    IN  {c \in Certs : \E f \in fields : FieldsName(f, c)}

-----------------------------------------------------------------------------
(* How a proxy in front writes a header of one entry: fields [name, text,   *)
(* quoted].  In quotes, quotes and backslashes of the text are escaped; a    *)
(* text without quotes is one word.                                          *)

Escaped(text) ==
    LET escaped[i \in 0..Len(text)] ==
            IF i = 0 THEN << >>
            ELSE escaped[i - 1] \o (IF text[i] \in {"\"", "\\"} THEN <<"\\", text[i]>>
                                    ELSE <<text[i]>>)
    IN  escaped[Len(text)]

Written(field) ==
    IF field.quoted THEN <<field.name, "=", "\"">> \o Escaped(field.text) \o <<"\"">>
    ELSE <<field.name, "=">> \o field.text

WrittenEntry(fields) ==
    LET entry[i \in 0..Len(fields)] ==
            IF i = 0 THEN << >>
            ELSE IF i = 1 THEN Written(fields[1])
            ELSE entry[i - 1] \o <<";">> \o Written(fields[i])
    IN  entry[Len(fields)]

=============================================================================

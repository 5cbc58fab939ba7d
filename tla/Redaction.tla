----------------------------- MODULE Redaction -----------------------------
(***************************************************************************)
(* What sync.recent-log shows of a line of the log.  A line is a sequence  *)
(* of tokens: the prefix of a ticket, a hex digit, a separator (white      *)
(* space, a quote, a comma) or any other character.  A token that is       *)
(* removed leaves a mark in its place, where the code leaves one mark for  *)
(* all those it removes together: a mark only has to part the digits       *)
(* before it from those after it, and this way places can be compared.     *)
(***************************************************************************)
EXTENDS Naturals, Sequences

CONSTANT MinHex  \* MIN_REDACT_HEX_LEN

ASSUME RedactionAssumption == MinHex \in Nat \ {0}

Token == {"dirhive1-", "hex", "sep", "other"}
Redacted == "redacted"

\* redact_pattern: a ticket goes, from its prefix to the next separator.
WithoutTickets(line) ==
    LET inside[i \in 0 .. Len(line)] ==
            /\ i > 0
            /\ line[i] = "dirhive1-" \/ (inside[i - 1] /\ line[i] # "sep")
    IN  [i \in DOMAIN line |-> IF inside[i] THEN Redacted ELSE line[i]]

\* Mutant: a run of just MinHex digits stays.
FlushedLonger(s) ==
    s.out \o [i \in 1 .. s.digits |-> IF s.digits > MinHex THEN Redacted ELSE "hex"]

\* The digits gathered so far go if they are MinHex or more.
Flushed(s) ==
    s.out \o [i \in 1 .. s.digits |-> IF s.digits >= MinHex THEN Redacted ELSE "hex"]

\* redact_hex_token: one character after the other; digits are gathered until
\* something else comes.
WithoutHex(text) ==
    LET upto[i \in 0 .. Len(text)] ==
            IF i = 0 THEN [out |-> <<>>, digits |-> 0]
            ELSE LET s == upto[i - 1] IN
                 IF text[i] = "hex" THEN [s EXCEPT !.digits = @ + 1]
                 ELSE [out |-> Append(Flushed(s), text[i]), digits |-> 0]
    IN  Flushed(upto[Len(text)])

\* redact_secrets
Redact(line) == WithoutHex(WithoutTickets(line))

-----------------------------------------------------------------------------
\* Reference: the places of a line that belong to a ticket, or to a run of
\* digits outside of tickets.
InTicket(line) ==
    {i \in DOMAIN line : \E j \in 1 .. i : /\ line[j] = "dirhive1-"
                                           /\ \A k \in j .. i : line[k] # "sep"}

Digit(line, i) == line[i] = "hex" /\ i \notin InTicket(line)

InRun(line) ==
    {i \in DOMAIN line :
        \E j \in 1 .. i : \E k \in i .. Len(line) :
            k - j + 1 >= MinHex /\ \A m \in j .. k : Digit(line, m)}

Secret(line) == InTicket(line) \cup InRun(line)

\* Exactly the secrets of a line are removed: the rest is there, in its place.
RedactsSecrets(line) ==
    Redact(line) = [i \in DOMAIN line |-> IF i \in Secret(line) THEN Redacted ELSE line[i]]
=============================================================================

------------------------------ MODULE NetConf ------------------------------
(***************************************************************************)
(* The parser of network.cfg: the loop of option_LoadNetConf and           *)
(* network_parse_config_value (ios_mcp/source/options/LoadNetConf.c).      *)
(*                                                                         *)
(* A file is a sequence of "=", "\n", "\r" and words, where a word stands  *)
(* for its characters.  Pointers are indices into the buffer, 0 for NULL,  *)
(* and the buffer ends with "NUL".  A string that is copied with a length   *)
(* is what that length covers.                                             *)
(***************************************************************************)
EXTENDS Integers, Sequences

Modes == {"NONE", "WEP", "WPA2_PSK_TKIP", "WPA_PSK_TKIP", "WPA2_PSK_AES", "WPA_PSK_AES"}

\* memset(&cfg, 0, sizeof(cfg)); the mode NONE is 0.
NoConfig == [wifi |-> FALSE, eth |-> FALSE, ssid |-> <<>>, aes_key |-> <<>>, mode |-> "NONE"]

\* The string at a pointer ends before the first "NUL".
StringAt(buf, ptr) ==
    SubSeq(buf, ptr, (CHOOSE i \in ptr .. Len(buf) + 1 :
                         /\ i = Len(buf) + 1 \/ buf[i] = "NUL"
                         /\ \A j \in ptr .. i - 1 : buf[j] # "NUL") - 1)

\* A key without a value, an unknown key and an unknown value change nothing.
network_parse_config_value(cfg, key, value) ==
    [wifi    |-> cfg.wifi \/ (key = <<"type">> /\ value = <<"wifi">>),
     eth     |-> cfg.eth \/ (key = <<"type">> /\ value = <<"eth">>),
     ssid    |-> IF key = <<"ssid">> THEN value ELSE cfg.ssid,
     aes_key |-> IF key = <<"key">> THEN value ELSE cfg.aes_key,
     mode    |-> IF key = <<"key_type">> /\ Len(value) = 1 /\ value[1] \in Modes THEN value[1] ELSE cfg.mode]

\* The loop begins with the first character of a file.
StartOf(file) == [i |-> 1, buf |-> file, keyPtr |-> 1, valuePtr |-> 0, cfg |-> NoConfig]

ParseLine(s, buf) ==
    IF s.valuePtr = 0 THEN s.cfg
    ELSE network_parse_config_value(s.cfg, StringAt(buf, s.keyPtr), StringAt(buf, s.valuePtr))

\* The ends of the strings in a line that ends at i: a "\r" before it is cut off.
\* A file that begins with an empty line reads the byte before the buffer.
Cut(buf, i) == {i} \cup {j \in {i - 1} : j > 0 /\ buf[j] = "\r"}

Cleared(buf, places) == [j \in DOMAIN buf |-> IF j \in places THEN "NUL" ELSE buf[j]]

\* Faulty: the value of an earlier line is still there.
Turn_KeepValue(s) ==
    CASE s.buf[s.i] = "=" -> [s EXCEPT !.i = s.i + 1, !.buf[s.i] = "NUL", !.valuePtr = s.i + 1]
      [] s.buf[s.i] = "\n" ->
            LET buf == Cleared(s.buf, Cut(s.buf, s.i))
            IN  [s EXCEPT !.i = s.i + 1, !.buf = buf, !.keyPtr = s.i + 1, !.cfg = ParseLine(s, buf)]
      [] OTHER -> [s EXCEPT !.i = s.i + 1]

\* One turn of the loop over the file.
Turn(s) ==
    CASE s.buf[s.i] = "=" -> [s EXCEPT !.i = s.i + 1, !.buf[s.i] = "NUL", !.valuePtr = s.i + 1]
      [] s.buf[s.i] = "\n" ->
            LET buf == Cleared(s.buf, Cut(s.buf, s.i))
            IN  [i |-> s.i + 1, buf |-> buf, keyPtr |-> s.i + 1, valuePtr |-> 0, cfg |-> ParseLine(s, buf)]
      [] OTHER -> [s EXCEPT !.i = s.i + 1]

AtEnd(s) == s.i > Len(s.buf)

\* What is left after the last line end is a line as well.
Parsed(s) == ParseLine(s, s.buf)

-----------------------------------------------------------------------------
(* What a file says, without buffer and pointers.                          *)

\* Where the lines begin, and where one ends.
Starts(file) == {1} \cup {i + 1 : i \in {j \in DOMAIN file : file[j] = "\n"}}

EndOf(file, a) ==
    CHOOSE b \in a - 1 .. Len(file) :
        /\ b = Len(file) \/ file[b + 1] = "\n"
        /\ \A j \in a .. b : file[j] # "\n"

\* A "\r" belongs to the line end, not to the value.
LastOf(file, a) ==
    LET b == EndOf(file, a)
    IN  IF b < Len(file) /\ b >= a /\ file[b] = "\r" THEN b - 1 ELSE b

Equals(file, a) == {j \in a .. LastOf(file, a) : file[j] = "="}

\* The values that the lines of the file give to a key, by where they begin.
Values(file, key) ==
    {[at |-> line[1], value |-> SubSeq(file, line[2] + 1, LastOf(file, line[1]))] :
        line \in {p \in Starts(file) \X DOMAIN file :
                     p[2] \in Equals(file, p[1]) /\ SubSeq(file, p[1], p[2] - 1) = <<key>>}}

\* The last of them that may be used, if there is one.
LastValue(values, otherwise) ==
    IF values = {} THEN otherwise
    ELSE (CHOOSE v \in values : \A w \in values : w.at <= v.at).value

Meaning(file) ==
    [wifi    |-> \E v \in Values(file, "type") : v.value = <<"wifi">>,
     eth     |-> \E v \in Values(file, "type") : v.value = <<"eth">>,
     ssid    |-> LastValue(Values(file, "ssid"), <<>>),
     aes_key |-> LastValue(Values(file, "key"), <<>>),
     mode    |-> LastValue({v \in Values(file, "key_type") : v.value \in {<<m>> : m \in Modes}}, <<"NONE">>)[1]]

\* A value in which there is no "=", which the code takes for its beginning.
Plain(file) == \A a \in Starts(file) : \A i, j \in Equals(file, a) : i = j
=============================================================================

---------------------------- MODULE NetConfProofs ----------------------------
(***************************************************************************)
(* The parser of network.cfg, for any text: turn by turn, the buffer with  *)
(* its cleared places and the two pointers stand for what the lines that   *)
(* ended mean, so that the configuration that is applied is the file's.    *)
(* With the parser inside its buffer every variable of the menu is typed.  *)
(***************************************************************************)
EXTENDS MenuOptionsProofs, SequenceTheorems

Words == STRING \cup {"NUL"}

Texts == Seq(STRING \ {"NUL"})

\* What the lines that begin before p give to a key.
Earlier(text, key, p) == {v \in Values(text, key) : v.at < p}

Usable(values) == {v \in values : v.value \in {<<m>> : m \in Modes}}

\* What these lines mean.
MeaningBefore(text, p) ==
    [wifi    |-> \E v \in Earlier(text, "type", p) : v.value = <<"wifi">>,
     eth     |-> \E v \in Earlier(text, "type", p) : v.value = <<"eth">>,
     ssid    |-> LastValue(Earlier(text, "ssid", p), <<>>),
     aes_key |-> LastValue(Earlier(text, "key", p), <<>>),
     mode    |-> LastValue(Usable(Earlier(text, "key_type", p)), <<"NONE">>)[1]]

Configurations ==
    [wifi : BOOLEAN, eth : BOOLEAN, ssid : Seq(Words), aes_key : Seq(Words), mode : Modes]

ParserStates ==
    [i : Nat, buf : Seq(Words), keyPtr : Nat, valuePtr : Nat, cfg : Configurations]

\* The buffer is the file with the ends of its strings cleared, the pointers are
\* those of the line that is under way, and its "=", if it had one, is before
\* valuePtr.
BufferInv(s, text) ==
    /\ s \in ParserStates
    /\ Len(s.buf) = Len(text)
    /\ s.keyPtr \in Starts(text) /\ s.i \in s.keyPtr .. Len(text) + 1
    /\ \A j \in s.keyPtr .. s.i - 1 : text[j] # "\n"
    /\ \A j \in s.keyPtr .. Len(text) : s.buf[j] = IF j < s.i /\ text[j] = "=" THEN "NUL" ELSE text[j]
    /\ s.keyPtr > 1 => s.buf[s.keyPtr - 1] # "\r"
    /\ IF s.valuePtr = 0
       THEN \A j \in s.keyPtr .. s.i - 1 : text[j] # "="
       ELSE /\ s.valuePtr - 1 \in s.keyPtr .. s.i - 1 /\ text[s.valuePtr - 1] = "="
            /\ \A j \in s.valuePtr .. s.i - 1 : text[j] # "="

\* The lines that ended are in the configuration.
ParserInv(s, text) ==
    /\ BufferInv(s, text)
    /\ Plain(text) => s.cfg = MeaningBefore(text, s.keyPtr)

\* The parser works on network.cfg, and what was applied is what the file says.
ConfigInv ==
    /\ ifmgr_handle \in {"open", "none"} /\ socket_handle \in {"open", "none"} /\ dns_entry \in BOOLEAN
    /\ cfgFile \in CfgFiles
    /\ IF Here = "netconfApply" THEN ParserInv(parse, cfgFile) ELSE parse = StartOf(<<>>)
    /\ running = <<>> \/ running \in [1 .. 1 -> Configurations]
    /\ Here \in {"netconfDone", "netconfFree"} /\ Plain(cfgFile) => running = <<Meaning(cfgFile)>>

-----------------------------------------------------------------------------
(* Strings and lines.                                                      *)

\* A text is a sequence of words without "NUL".
LEMMA TextIs ==
    ASSUME NEW text \in Texts
    PROVE  /\ text \in Seq(Words) /\ Len(text) \in Nat /\ DOMAIN text = 1 .. Len(text)
           /\ \A j \in 1 .. Len(text) : text[j] # "NUL"
<1>1. text \in Seq(Words)
  BY SeqMonotonic DEF Texts, Words
<1>2. Len(text) \in Nat /\ DOMAIN text = 1 .. Len(text)
  BY <1>1
<1>3. \A j \in 1 .. Len(text) : text[j] # "NUL"
  BY ElementOfSeq DEF Texts
<1> QED
  BY <1>1, <1>2, <1>3

\* A string is what is before the first "NUL".
LEMMA StringIs ==
    ASSUME NEW buf \in Seq(Words), NEW ptr \in Nat \ {0}, NEW n \in ptr - 1 .. Len(buf),
           n = Len(buf) \/ buf[n + 1] = "NUL", \A j \in ptr .. n : buf[j] # "NUL"
    PROVE  StringAt(buf, ptr) = SubSeq(buf, ptr, n)
<1> DEFINE P(i) == /\ i = Len(buf) + 1 \/ buf[i] = "NUL"
                   /\ \A j \in ptr .. i - 1 : buf[j] # "NUL"
<1>1. Len(buf) \in Nat
  OBVIOUS
<1>2. n + 1 \in ptr .. Len(buf) + 1 /\ P(n + 1)
  BY <1>1
<1>3. ASSUME NEW i \in ptr .. Len(buf) + 1, P(i) PROVE i = n + 1
  <2>1. CASE i < n + 1
    BY <1>1, <1>3, <2>1
  <2>2. CASE i > n + 1
    BY <1>1, <1>3, <2>2
  <2> QED
    BY <1>1, <2>1, <2>2
<1> DEFINE end == CHOOSE i \in ptr .. Len(buf) + 1 : P(i)
<1>4. end = n + 1
  <2> HIDE DEF P
  <2> QED
    BY <1>2, <1>3
<1>5. StringAt(buf, ptr) = SubSeq(buf, ptr, end - 1)
  BY Zenon DEF StringAt
<1>6. n + 1 - 1 = n
  BY <1>1
<1> HIDE DEF P, end
<1> QED
  BY <1>4, <1>5, <1>6

\* Buffers that agree on a range have the same string there.
LEMMA SameString ==
    ASSUME NEW s \in Seq(Words), NEW t \in Seq(Words), NEW m \in Nat \ {0}, NEW n \in Nat,
           n <= Len(s), n <= Len(t), \A j \in m .. n : s[j] = t[j]
    PROVE  SubSeq(s, m, n) = SubSeq(t, m, n) /\ SubSeq(t, m, n) \in Seq(Words)
<1>1. Len(s) \in Nat /\ Len(t) \in Nat
  OBVIOUS
<1>2. (\A j \in m .. n : s[j] \in Words) /\ (\A j \in m .. n : t[j] \in Words)
  BY <1>1, ElementOfSeq
<1>3. /\ SubSeq(s, m, n) \in Seq(Words) /\ SubSeq(t, m, n) \in Seq(Words)
      /\ Len(SubSeq(s, m, n)) = Len(SubSeq(t, m, n))
      /\ Len(SubSeq(t, m, n)) = IF m <= n THEN n - m + 1 ELSE 0
      /\ \A i \in 1 .. n - m + 1 : SubSeq(s, m, n)[i] = s[m + i - 1] /\ SubSeq(t, m, n)[i] = t[m + i - 1]
  BY <1>2, SubSeqProperties
<1>4. \A i \in 1 .. Len(SubSeq(s, m, n)) : SubSeq(s, m, n)[i] = SubSeq(t, m, n)[i]
  BY <1>3
<1> QED
  BY <1>3, <1>4, SeqEqual

\* A line ends before the first "\n".
LEMMA EndIs ==
    ASSUME NEW text \in Texts, NEW a \in Nat \ {0}, NEW b \in a - 1 .. Len(text),
           b = Len(text) \/ text[b + 1] = "\n", \A j \in a .. b : text[j] # "\n"
    PROVE  EndOf(text, a) = b
<1> DEFINE P(c) == (c = Len(text) \/ text[c + 1] = "\n") /\ (\A j \in a .. c : text[j] # "\n")
<1>1. Len(text) \in Nat
  BY DEF Texts
<1>2. P(b)
  OBVIOUS
<1>3. ASSUME NEW c \in a - 1 .. Len(text), P(c) PROVE c = b
  <2>1. CASE c < b
    BY <1>1, <1>3, <2>1
  <2>2. CASE c > b
    BY <1>1, <1>3, <2>2
  <2> QED
    BY <1>1, <2>1, <2>2
<1>4. (CHOOSE c \in a - 1 .. Len(text) : P(c)) = b
  <2> HIDE DEF P
  <2> QED
    BY <1>2, <1>3
<1> QED
  BY <1>4 DEF EndOf

\* The values of a file, line by line.
LEMMA ValuesAre ==
    ASSUME NEW text, NEW key, NEW v
    PROVE  v \in Values(text, key) <=>
             \E a \in Starts(text), e \in DOMAIN text :
                 /\ e \in Equals(text, a) /\ SubSeq(text, a, e - 1) = <<key>>
                 /\ v = [at |-> a, value |-> SubSeq(text, e + 1, LastOf(text, a))]
<1> DEFINE ValueOf(line) == [at |-> line[1], value |-> SubSeq(text, line[2] + 1, LastOf(text, line[1]))]
           Gives(line) == line[2] \in Equals(text, line[1]) /\ SubSeq(text, line[1], line[2] - 1) = <<key>>
           lines == {p \in Starts(text) \X DOMAIN text : Gives(p)}
<1>1. Values(text, key) = {ValueOf(line) : line \in lines}
  BY Zenon DEF Values
<1>2. \A line : line \in lines <=> \E a \in Starts(text), e \in DOMAIN text : line = <<a, e>> /\ Gives(line)
  OBVIOUS
<1>3. \A a, e : /\ Gives(<<a, e>>) <=> e \in Equals(text, a) /\ SubSeq(text, a, e - 1) = <<key>>
               /\ ValueOf(<<a, e>>) = [at |-> a, value |-> SubSeq(text, e + 1, LastOf(text, a))]
  OBVIOUS
<1> HIDE DEF ValueOf, Gives, lines
<1>4. v \in Values(text, key) <=> \E line \in lines : v = ValueOf(line)
  BY <1>1
<1>5. (\E line \in lines : v = ValueOf(line)) <=>
        \E a \in Starts(text), e \in DOMAIN text : Gives(<<a, e>>) /\ v = ValueOf(<<a, e>>)
  <2>1. ASSUME NEW line \in lines, v = ValueOf(line)
        PROVE  \E a \in Starts(text), e \in DOMAIN text : Gives(<<a, e>>) /\ v = ValueOf(<<a, e>>)
    <3>1. PICK a \in Starts(text), e \in DOMAIN text : line = <<a, e>> /\ Gives(line)
      BY <1>2
    <3> QED
      BY <2>1, <3>1
  <2>2. ASSUME NEW a \in Starts(text), NEW e \in DOMAIN text, Gives(<<a, e>>), v = ValueOf(<<a, e>>)
        PROVE  \E line \in lines : v = ValueOf(line)
    <3>1. <<a, e>> \in lines
      BY <1>2, <2>2
    <3> QED
      BY <2>2, <3>1
  <2> QED
    BY <2>1, <2>2
<1> QED
  BY <1>3, <1>4, <1>5

\* The last value is the one of the line that was added.
LEMMA LastIsNew ==
    ASSUME NEW values, NEW a \in Nat, NEW value, NEW otherwise,
           \A v \in values : v.at \in Nat /\ v.at < a
    PROVE  LastValue(values \cup {[at |-> a, value |-> value]}, otherwise) = value
<1> DEFINE new == [at |-> a, value |-> value]
           all == values \cup {new}
<1>1. \A w \in all : w.at <= new.at
  OBVIOUS
<1>2. ASSUME NEW v \in all, \A w \in all : w.at <= v.at PROVE v = new
  <2>1. new \in all /\ new.at = a
    OBVIOUS
  <2>2. CASE v \in values
    <3>1. a <= v.at
      BY <1>2, <2>1
    <3> QED
      BY <2>2, <3>1
  <2> QED
    BY <1>2, <2>2
<1>3. (CHOOSE v \in all : \A w \in all : w.at <= v.at) = new
  <2>1. new \in all
    OBVIOUS
  <2> HIDE DEF all, new
  <2> QED
    BY <1>1, <1>2, <2>1
<1>4. all # {} /\ new.value = value
  OBVIOUS
<1> QED
  BY <1>3, <1>4 DEF LastValue

\* A line that has no "=" gives no value.
LEMMA LineGivesNothing ==
    ASSUME NEW text \in Texts, NEW a \in Starts(text), NEW b \in Nat, a < b,
           \A c \in Starts(text) : c < b => c <= a,
           NEW key, Equals(text, a) = {}
    PROVE  Earlier(text, key, b) = Earlier(text, key, a)
<1>1. Starts(text) \subseteq Nat
  BY DEF Starts, Texts
<1>2. ASSUME NEW v \in Values(text, key) PROVE v.at \in Starts(text) /\ v.at # a
  BY ValuesAre
<1>3. ASSUME NEW v \in Values(text, key) PROVE v.at < b <=> v.at < a
  BY <1>1, <1>2
<1> QED
  BY <1>3 DEF Earlier

\* The line at a is the last that begins before b, and has a value for a key.
Assigns(text, a, b, key, value) ==
    /\ text \in Texts /\ Plain(text)
    /\ a \in Starts(text) /\ b \in Nat /\ a < b
    /\ \A c \in Starts(text) : c < b => c <= a
    /\ \E e \in DOMAIN text : /\ e \in Equals(text, a)
                              /\ key = SubSeq(text, a, e - 1)
                              /\ value = SubSeq(text, e + 1, LastOf(text, a))

\* Such a line adds its value to those of the key.
LEMMA LineGives ==
    ASSUME NEW text, NEW a, NEW b, NEW key, NEW value, Assigns(text, a, b, key, value), NEW name
    PROVE  /\ \A v \in Earlier(text, name, a) : v.at \in Nat /\ v.at < a
           /\ Earlier(text, name, b) = Earlier(text, name, a) \cup
                IF key = <<name>> THEN {[at |-> a, value |-> value]} ELSE {}
<1> DEFINE new == [at |-> a, value |-> value]
<1> USE DEF Assigns
<1>0. PICK e \in DOMAIN text : /\ e \in Equals(text, a) /\ key = SubSeq(text, a, e - 1)
                               /\ value = SubSeq(text, e + 1, LastOf(text, a))
  OBVIOUS
<1>1. Starts(text) \subseteq Nat
  BY DEF Starts, Texts
<1>2. ASSUME NEW v \in Values(text, name)
      PROVE  v.at \in Starts(text) /\ (v.at = a => v = new /\ key = <<name>>)
  <2>1. PICK c \in Starts(text), d \in DOMAIN text :
            /\ d \in Equals(text, c) /\ SubSeq(text, c, d - 1) = <<name>>
            /\ v = [at |-> c, value |-> SubSeq(text, d + 1, LastOf(text, c))]
    BY <1>2, ValuesAre
  <2>2. v.at = c
    BY <2>1
  <2>3. c = a => d = e
    BY <1>0, <2>1 DEF Plain
  <2> QED
    BY <1>0, <2>1, <2>2, <2>3
<1>3. key = <<name>> => new \in Values(text, name)
  BY <1>0, ValuesAre
<1>4. ASSUME NEW v \in Values(text, name) PROVE v.at < b <=> v.at < a \/ v.at = a
  BY <1>1, <1>2
<1>5. new.at = a
  OBVIOUS
<1> HIDE DEF new
<1>6. \A v \in Earlier(text, name, a) : v.at \in Nat /\ v.at < a
  BY <1>1, <1>2 DEF Earlier
<1>7. Earlier(text, name, b) = Earlier(text, name, a) \cup IF key = <<name>> THEN {new} ELSE {}
  BY <1>2, <1>3, <1>4, <1>5 DEF Earlier
<1> QED
  BY <1>6, <1>7 DEF new

\* The values of a mode are the strings of one word that is a mode.
LEMMA ModeValues ==
    ASSUME NEW value \in Seq(Words)
    PROVE  value \in {<<m>> : m \in Modes} <=> Len(value) = 1 /\ value[1] \in Modes
<1>1. ASSUME Len(value) = 1, value[1] \in Modes PROVE value = <<value[1]>>
  BY <1>1
<1> QED
  BY <1>1

\* What a line adds to the meaning of those before it is what the code makes of it.
LEMMA LineMeaning ==
    ASSUME NEW text, NEW a, NEW b, NEW key, NEW value \in Seq(Words), Assigns(text, a, b, key, value)
    PROVE  MeaningBefore(text, b) = network_parse_config_value(MeaningBefore(text, a), key, value)
<1> DEFINE new == [at |-> a, value |-> value]
<1>0. new.value = value
  OBVIOUS
<1>1. ASSUME NEW name
      PROVE  /\ \A v \in Earlier(text, name, a) : v.at \in Nat /\ v.at < a
             /\ Earlier(text, name, b) = Earlier(text, name, a) \cup IF key = <<name>> THEN {new} ELSE {}
  BY LineGives
<1>2. a \in Nat
  BY DEF Assigns, Starts, Texts
<1>7. ASSUME NEW values, \A v \in values : v.at \in Nat /\ v.at < a, NEW otherwise
      PROVE  LastValue(values \cup {new}, otherwise) = value
  BY <1>2, <1>7, LastIsNew
<1> HIDE DEF new
<1>3. ASSUME NEW name, NEW wanted
      PROVE  (\E v \in Earlier(text, name, b) : v.value = wanted) <=>
             (\E v \in Earlier(text, name, a) : v.value = wanted) \/ (key = <<name>> /\ value = wanted)
  BY <1>0, <1>1
<1>4. ASSUME NEW name, NEW otherwise
      PROVE  LastValue(Earlier(text, name, b), otherwise) =
             IF key = <<name>> THEN value ELSE LastValue(Earlier(text, name, a), otherwise)
  BY <1>1, <1>7
<1>5. LastValue(Usable(Earlier(text, "key_type", b)), <<"NONE">>) =
      IF key = <<"key_type">> /\ value \in {<<m>> : m \in Modes} THEN value
      ELSE LastValue(Usable(Earlier(text, "key_type", a)), <<"NONE">>)
  <2>1. CASE key = <<"key_type">> /\ value \in {<<m>> : m \in Modes}
    <3>1. Usable(Earlier(text, "key_type", b)) =
          Usable(Earlier(text, "key_type", a)) \cup {new}
      BY <1>0, <1>1, <2>1 DEF Usable
    <3>2. \A v \in Usable(Earlier(text, "key_type", a)) : v.at \in Nat /\ v.at < a
      BY <1>1 DEF Usable
    <3> QED
      BY <1>7, <2>1, <3>1, <3>2
  <2>2. CASE ~(key = <<"key_type">> /\ value \in {<<m>> : m \in Modes})
    <3>1. Usable(Earlier(text, "key_type", b)) = Usable(Earlier(text, "key_type", a))
      BY <1>0, <1>1, <2>2 DEF Usable
    <3> QED
      BY <2>2, <3>1
  <2> QED
    BY <2>1, <2>2
<1>6. LastValue(Usable(Earlier(text, "key_type", b)), <<"NONE">>)[1] =
      IF key = <<"key_type">> /\ Len(value) = 1 /\ value[1] \in Modes THEN value[1]
      ELSE LastValue(Usable(Earlier(text, "key_type", a)), <<"NONE">>)[1]
  BY <1>5, ModeValues
<1>8. /\ (\E v \in Earlier(text, "type", b) : v.value = <<"wifi">>) =
         ((\E v \in Earlier(text, "type", a) : v.value = <<"wifi">>) \/ (key = <<"type">> /\ value = <<"wifi">>))
      /\ (\E v \in Earlier(text, "type", b) : v.value = <<"eth">>) =
         ((\E v \in Earlier(text, "type", a) : v.value = <<"eth">>) \/ (key = <<"type">> /\ value = <<"eth">>))
  <2>1. ASSUME NEW s
        PROVE  (\E v \in Earlier(text, "type", b) : v.value = s) =
               ((\E v \in Earlier(text, "type", a) : v.value = s) \/ (key = <<"type">> /\ value = s))
    BY <1>3
  <2> QED
    BY <2>1
<1>9. MeaningBefore(text, b) =
      [wifi    |-> MeaningBefore(text, a).wifi \/ (key = <<"type">> /\ value = <<"wifi">>),
       eth     |-> MeaningBefore(text, a).eth \/ (key = <<"type">> /\ value = <<"eth">>),
       ssid    |-> IF key = <<"ssid">> THEN value ELSE MeaningBefore(text, a).ssid,
       aes_key |-> IF key = <<"key">> THEN value ELSE MeaningBefore(text, a).aes_key,
       mode    |-> IF key = <<"key_type">> /\ Len(value) = 1 /\ value[1] \in Modes THEN value[1]
                   ELSE MeaningBefore(text, a).mode]
  BY <1>4, <1>6, <1>8 DEF MeaningBefore
<1> QED
  BY <1>9 DEF network_parse_config_value

-----------------------------------------------------------------------------
(* The turns of the parser.                                                *)

\* The line that is under way ends with final, in the file and in the buffer.
LineEnds(s, text, buf, final) ==
    /\ buf \in Seq(Words) /\ Len(buf) = Len(text)
    /\ final \in s.keyPtr - 1 .. s.i - 1 /\ final = LastOf(text, s.keyPtr)
    /\ final = Len(text) \/ buf[final + 1] = "NUL"
    /\ \A j \in s.keyPtr .. final : buf[j] = s.buf[j]
    /\ \A j \in final + 1 .. s.i - 1 : text[j] # "="

\* What the buffer has of a line that ends: its characters, each "=" cleared.
LEMMA LineIs ==
    ASSUME NEW text \in Texts, NEW s, NEW buf, NEW final, BufferInv(s, text),
           LineEnds(s, text, buf, final)
    PROVE  /\ Len(text) \in Nat /\ s.keyPtr \in Nat \ {0} /\ s.i \in Nat /\ final \in Nat
           /\ final <= Len(text) /\ buf \in Seq(Words) /\ Len(buf) = Len(text)
           /\ final = Len(buf) \/ buf[final + 1] = "NUL"
           /\ \A j \in s.keyPtr .. final :
                 buf[j] = (IF text[j] = "=" THEN "NUL" ELSE text[j]) /\ text[j] # "NUL"
           /\ s.valuePtr # 0 =>
                 /\ s.valuePtr \in Nat \ {0} /\ s.valuePtr - 1 \in s.keyPtr .. final
                 /\ text[s.valuePtr - 1] = "=" /\ \A j \in s.valuePtr .. final : text[j] # "="
<1>1. Len(text) \in Nat /\ (\A j \in 1 .. Len(text) : text[j] # "NUL")
  BY TextIs
<1>2. s.keyPtr \in Nat \ {0} /\ s.i \in Nat /\ s.valuePtr \in Nat /\ s.i <= Len(text) + 1
  BY <1>1 DEF BufferInv, ParserStates, Starts
<1>3. final \in s.keyPtr - 1 .. s.i - 1
  BY DEF LineEnds
<1>4. final \in Nat /\ final <= Len(text) /\ final < s.i
  BY <1>1, <1>2, <1>3
<1>5. buf \in Seq(Words) /\ Len(buf) = Len(text) /\ (final = Len(text) \/ buf[final + 1] = "NUL")
  BY DEF LineEnds
<1>6. ASSUME NEW j \in s.keyPtr .. final
      PROVE  buf[j] = (IF text[j] = "=" THEN "NUL" ELSE text[j]) /\ text[j] # "NUL"
  <2>1. j \in s.keyPtr .. Len(text) /\ j \in 1 .. Len(text) /\ j < s.i
    BY <1>1, <1>2, <1>4
  <2>2. buf[j] = s.buf[j]
    BY DEF LineEnds
  <2>3. s.buf[j] = IF j < s.i /\ text[j] = "=" THEN "NUL" ELSE text[j]
    BY <2>1 DEF BufferInv
  <2> QED
    BY <1>1, <2>1, <2>2, <2>3
<1>7. ASSUME s.valuePtr # 0
      PROVE  /\ s.valuePtr - 1 \in s.keyPtr .. final /\ text[s.valuePtr - 1] = "="
             /\ \A j \in s.valuePtr .. final : text[j] # "="
  <2>1. /\ s.valuePtr - 1 \in s.keyPtr .. s.i - 1 /\ text[s.valuePtr - 1] = "="
        /\ \A j \in s.valuePtr .. s.i - 1 : text[j] # "="
    BY <1>7 DEF BufferInv
  <2>2. s.valuePtr - 1 \notin final + 1 .. s.i - 1
    BY <2>1 DEF LineEnds
  <2> QED
    BY <1>2, <1>4, <2>1, <2>2
<1> QED
  BY <1>1, <1>2, <1>4, <1>5, <1>6, <1>7

\* The value is what the file has behind the last "=" of the line.
LEMMA ValueIs ==
    ASSUME NEW text \in Texts, NEW s, NEW buf, NEW final,
           BufferInv(s, text), LineEnds(s, text, buf, final), s.valuePtr # 0
    PROVE  /\ StringAt(buf, s.valuePtr) = SubSeq(text, s.valuePtr, final)
           /\ StringAt(buf, s.valuePtr) \in Seq(Words)
           /\ s.valuePtr - 1 \in Equals(text, s.keyPtr)
<1> DEFINE v == s.valuePtr
           a == s.keyPtr
<1>1. text \in Seq(Words) /\ buf \in Seq(Words)
  BY TextIs, LineIs
<1>2. final = Len(buf) \/ buf[final + 1] = "NUL"
  BY LineIs
<1>3. /\ a \in Nat \ {0} /\ v \in Nat \ {0} /\ final \in Nat /\ v - 1 \in a .. final
      /\ final <= Len(text) /\ final <= Len(buf) /\ Len(buf) \in Nat
  BY LineIs
<1>4. \A j \in a .. final : buf[j] = (IF text[j] = "=" THEN "NUL" ELSE text[j]) /\ text[j] # "NUL"
  BY LineIs
<1>5. text[v - 1] = "=" /\ \A j \in v .. final : text[j] # "="
  BY LineIs
<1>6. v - 1 \in Equals(text, a)
  <2>1. final = LastOf(text, a)
    BY DEF LineEnds
  <2> HIDE DEF v, a
  <2> QED
    BY <1>3, <1>5, <2>1 DEF Equals
<1> HIDE DEF v, a
<1>7. \A j \in v .. final : buf[j] = text[j] /\ buf[j] # "NUL"
  <2>1. \A j \in v .. final : j \in a .. final
    BY <1>3
  <2> QED
    BY <1>4, <1>5, <2>1
<1>8. StringAt(buf, v) = SubSeq(buf, v, final)
  <2>1. final \in v - 1 .. Len(buf)
    BY <1>3
  <2>2. \A j \in v .. final : buf[j] # "NUL"
    BY <1>7
  <2> QED
    BY <1>1, <1>2, <1>3, <2>1, <2>2, StringIs
<1>9. SubSeq(buf, v, final) = SubSeq(text, v, final) /\ SubSeq(text, v, final) \in Seq(Words)
  <2>1. /\ text \in Seq(Words) /\ buf \in Seq(Words) /\ v \in Nat \ {0} /\ final \in Nat
        /\ final <= Len(text) /\ final <= Len(buf) /\ \A j \in v .. final : buf[j] = text[j]
    BY <1>1, <1>3, <1>7
  <2> QED
    BY <2>1, SameString, Zenon
<1> QED
  BY <1>6, <1>8, <1>9 DEF v, a

\* The key is what the file has before the only "=" of the line.
LEMMA KeyIs ==
    ASSUME NEW text \in Texts, NEW s, NEW buf, NEW final, Plain(text),
           BufferInv(s, text), LineEnds(s, text, buf, final), s.valuePtr # 0
    PROVE  StringAt(buf, s.keyPtr) = SubSeq(text, s.keyPtr, s.valuePtr - 1 - 1)
<1> DEFINE e == s.valuePtr - 1
           a == s.keyPtr
<1>1. text \in Seq(Words) /\ buf \in Seq(Words)
  BY TextIs, LineIs
<1>2. /\ a \in Nat \ {0} /\ e \in a .. final /\ e \in Nat \ {0} /\ final \in Nat
      /\ final <= Len(text) /\ final <= Len(buf) /\ Len(buf) \in Nat
  BY LineIs
<1>3. \A j \in a .. final : buf[j] = (IF text[j] = "=" THEN "NUL" ELSE text[j]) /\ text[j] # "NUL"
  BY LineIs
<1>4. text[e] = "=" /\ e \in Equals(text, a) /\ a \in Starts(text) /\ final = LastOf(text, a)
  BY LineIs, ValueIs DEF BufferInv, LineEnds
<1> HIDE DEF e, a
<1>5. \A j \in a .. e - 1 : j \in a .. final /\ j # e
  BY <1>2
<1>6. \A j \in a .. e - 1 : text[j] # "="
  <2>1. \A j \in a .. final : text[j] = "=" => j \in Equals(text, a)
    BY <1>4 DEF Equals
  <2>2. \A j \in Equals(text, a) : j = e
    BY <1>4 DEF Plain
  <2> QED
    BY <1>5, <2>1, <2>2
<1>7. \A j \in a .. e - 1 : buf[j] = text[j] /\ buf[j] # "NUL"
  BY <1>3, <1>5, <1>6
<1>8. buf[e - 1 + 1] = "NUL"
  <2>1. buf[e] = "NUL"
    BY <1>2, <1>3, <1>4
  <2>2. e - 1 + 1 = e
    BY <1>2
  <2> QED
    BY <2>1, <2>2
<1>9. e - 1 \in a - 1 .. Len(buf) /\ e - 1 \in Nat /\ e - 1 <= Len(text) /\ e - 1 <= Len(buf)
  BY <1>2
<1>10. StringAt(buf, a) = SubSeq(buf, a, e - 1)
  <2>1. \A j \in a .. e - 1 : buf[j] # "NUL"
    BY <1>7
  <2> QED
    BY <1>1, <1>2, <1>8, <1>9, <2>1, StringIs
<1>11. SubSeq(buf, a, e - 1) = SubSeq(text, a, e - 1)
  <2>1. /\ text \in Seq(Words) /\ buf \in Seq(Words) /\ a \in Nat \ {0} /\ e - 1 \in Nat
        /\ e - 1 <= Len(text) /\ e - 1 <= Len(buf) /\ \A j \in a .. e - 1 : buf[j] = text[j]
    BY <1>1, <1>2, <1>7, <1>9
  <2> QED
    BY <2>1, SameString, Zenon
<1> QED
  BY <1>10, <1>11 DEF e, a

\* A line that ended is in the configuration as the file means it.
LEMMA LineParsed ==
    ASSUME NEW text \in Texts, NEW s, NEW buf, NEW final,
           ParserInv(s, text), LineEnds(s, text, buf, final)
    PROVE  /\ ParseLine(s, buf) \in Configurations
           /\ Plain(text) => ParseLine(s, buf) = MeaningBefore(text, s.i + 1)
<1>1. BufferInv(s, text) /\ s \in ParserStates /\ Len(text) \in Nat /\ s.cfg \in Configurations
  BY DEF ParserInv, BufferInv, Texts, ParserStates
<1>2. /\ s.keyPtr \in Starts(text) /\ s.keyPtr \in Nat \ {0} /\ s.i \in Nat
      /\ s.keyPtr < s.i + 1 /\ s.i + 1 \in Nat /\ s.valuePtr \in Nat
  BY <1>1 DEF BufferInv, ParserStates, Starts
<1>3. ASSUME NEW c \in Starts(text), c < s.i + 1 PROVE c <= s.keyPtr
  <2>1. c = 1 \/ (c \in Nat /\ c - 1 \in DOMAIN text /\ text[c - 1] = "\n")
    BY <1>1 DEF Starts, Texts
  <2>2. c \in Nat /\ (c - 1 \in s.keyPtr .. s.i - 1 => text[c - 1] # "\n")
    BY <1>1, <2>1 DEF BufferInv
  <2> QED
    BY <1>2, <1>3, <2>1, <2>2
<1>4. CASE s.valuePtr = 0
  <2>1. ParseLine(s, buf) = s.cfg
    BY <1>4 DEF ParseLine
  <2>2. Equals(text, s.keyPtr) = {}
    <3>1. \A j \in s.keyPtr .. s.i - 1 : text[j] # "="
      BY <1>1, <1>4, Zenon DEF BufferInv
    <3>2. final \in s.keyPtr - 1 .. s.i - 1 /\ final = LastOf(text, s.keyPtr)
      BY DEF LineEnds
    <3>3. \A j \in Equals(text, s.keyPtr) : j \in s.keyPtr .. s.i - 1 /\ text[j] = "="
      BY <1>2, <3>2 DEF Equals
    <3> QED
      BY <3>1, <3>3
  <2>3. ASSUME NEW key PROVE Earlier(text, key, s.i + 1) = Earlier(text, key, s.keyPtr)
    BY <1>2, <1>3, <2>2, LineGivesNothing
  <2>4. MeaningBefore(text, s.i + 1) = MeaningBefore(text, s.keyPtr)
    <3>1. /\ Earlier(text, "type", s.i + 1) = Earlier(text, "type", s.keyPtr)
          /\ Earlier(text, "ssid", s.i + 1) = Earlier(text, "ssid", s.keyPtr)
          /\ Earlier(text, "key", s.i + 1) = Earlier(text, "key", s.keyPtr)
          /\ Earlier(text, "key_type", s.i + 1) = Earlier(text, "key_type", s.keyPtr)
      BY <2>3
    <3> QED
      BY <3>1 DEF MeaningBefore
  <2> QED
    BY <1>1, <2>1, <2>4 DEF ParserInv
<1>5. CASE s.valuePtr # 0
  <2> DEFINE key == StringAt(buf, s.keyPtr)
             value == StringAt(buf, s.valuePtr)
  <2>1. ParseLine(s, buf) = network_parse_config_value(s.cfg, key, value)
    BY <1>5 DEF ParseLine
  <2>2. value = SubSeq(text, s.valuePtr, final) /\ value \in Seq(Words) /\ s.valuePtr - 1 \in Equals(text, s.keyPtr)
    BY <1>1, <1>5, ValueIs
  <2>3. ASSUME Plain(text) PROVE Assigns(text, s.keyPtr, s.i + 1, key, value)
    <3>1. key = SubSeq(text, s.keyPtr, s.valuePtr - 1 - 1)
      BY <1>1, <1>5, <2>3, KeyIs
    <3>2. s.valuePtr - 1 \in DOMAIN text
      <4>1. s.valuePtr - 1 \in s.keyPtr .. final /\ final <= Len(text) /\ final \in Nat
        BY <1>1, <1>5, LineIs
      <4> QED
        BY <1>2, <4>1, TextIs
    <3>3. final = LastOf(text, s.keyPtr) /\ s.valuePtr - 1 + 1 = s.valuePtr
      BY <1>2 DEF LineEnds
    <3> HIDE DEF key, value
    <3> QED
      BY <1>2, <1>3, <2>2, <2>3, <3>1, <3>2, <3>3 DEF Assigns
  <2> HIDE DEF key, value
  <2>4. network_parse_config_value(s.cfg, key, value) \in Configurations
    BY <1>1, <2>2 DEF network_parse_config_value, Configurations
  <2>5. ASSUME Plain(text)
        PROVE  MeaningBefore(text, s.i + 1) =
               network_parse_config_value(MeaningBefore(text, s.keyPtr), key, value)
    <3>1. value \in Seq(Words) /\ Assigns(text, s.keyPtr, s.i + 1, key, value)
      BY <2>2, <2>3, <2>5
    <3> QED
      BY <3>1, LineMeaning
  <2> QED
    BY <2>1, <2>4, <2>5 DEF ParserInv
<1> QED
  BY <1>4, <1>5

\* At a "\n" the line ends, without its "\r".
LEMMA LineEndsAt ==
    ASSUME NEW text \in Texts, NEW s, BufferInv(s, text), s.i <= Len(text), text[s.i] = "\n",
           NEW buf, buf = Cleared(s.buf, Cut(s.buf, s.i))
    PROVE  /\ \E final : LineEnds(s, text, buf, final)
           /\ buf \in Seq(Words) /\ Len(buf) = Len(text)
           /\ buf[s.i] = "NUL" /\ \A j \in s.i + 1 .. Len(text) : buf[j] = text[j]
<1>1. /\ Len(text) \in Nat /\ s.i \in Nat \ {0} /\ s.keyPtr \in Nat \ {0} /\ s.keyPtr <= s.i
      /\ s.buf \in Seq(Words) /\ Len(s.buf) = Len(text) /\ DOMAIN s.buf = 1 .. Len(text)
  BY TextIs DEF BufferInv, ParserStates, Starts
<1>2. \A j \in 1 .. Len(text) : s.buf[j] \in Words
  BY <1>1, ElementOfSeq
<1>3. /\ buf \in [1 .. Len(text) -> Words]
      /\ \A j \in 1 .. Len(text) :
            buf[j] = IF j = s.i \/ (j = s.i - 1 /\ s.buf[j] = "\r") THEN "NUL" ELSE s.buf[j]
  <2>1. buf = [j \in 1 .. Len(text) |-> IF j \in Cut(s.buf, s.i) THEN "NUL" ELSE s.buf[j]]
    BY <1>1 DEF Cleared
  <2>2. \A j \in 1 .. Len(text) : j \in Cut(s.buf, s.i) <=> j = s.i \/ (j = s.i - 1 /\ s.buf[j] = "\r")
    BY <1>1 DEF Cut
  <2>3. "NUL" \in Words
    BY DEF Words
  <2> QED
    BY <1>2, <2>1, <2>2, <2>3
<1>4. buf \in Seq(Words) /\ Len(buf) = Len(text)
  <2>1. buf \in Seq(Words)
    BY <1>1, <1>3, SeqDef
  <2> QED
    BY <1>1, <1>3, <2>1, LenProperties
<1>5. \A j \in s.keyPtr .. Len(text) : s.buf[j] = IF j < s.i /\ text[j] = "=" THEN "NUL" ELSE text[j]
  BY DEF BufferInv
<1>6. buf[s.i] = "NUL" /\ \A j \in s.i + 1 .. Len(text) : buf[j] = text[j]
  <2>1. s.i \in 1 .. Len(text)
    BY <1>1
  <2>2. ASSUME NEW j \in s.i + 1 .. Len(text) PROVE buf[j] = text[j]
    <3>1. buf[j] = s.buf[j]
      BY <1>1, <1>3
    <3>2. s.buf[j] = text[j]
      BY <1>1, <1>5
    <3> QED
      BY <3>1, <3>2
  <2> QED
    BY <1>3, <2>1, <2>2
<1>7. EndOf(text, s.keyPtr) = s.i - 1
  <2>1. s.i - 1 \in s.keyPtr - 1 .. Len(text) /\ text[s.i - 1 + 1] = "\n"
    BY <1>1
  <2>2. \A j \in s.keyPtr .. s.i - 1 : text[j] # "\n"
    BY DEF BufferInv
  <2> QED
    BY <1>1, <2>1, <2>2, EndIs
<1>8. \E final : LineEnds(s, text, buf, final)
  <2>1. CASE s.i - 1 >= s.keyPtr /\ text[s.i - 1] = "\r"
    <3>1. LastOf(text, s.keyPtr) = s.i - 2
      BY <1>1, <1>7, <2>1 DEF LastOf
    <3>2. buf[s.i - 2 + 1] = "NUL" /\ \A j \in s.keyPtr .. s.i - 2 : buf[j] = s.buf[j]
      <4>1. s.i - 1 \in s.keyPtr .. Len(text) /\ s.buf[s.i - 1] = "\r"
        BY <1>1, <1>5, <2>1
      <4>2. buf[s.i - 1] = "NUL"
        BY <1>1, <1>3, <4>1
      <4>3. ASSUME NEW j \in s.keyPtr .. s.i - 2 PROVE buf[j] = s.buf[j]
        <5>1. j \in 1 .. Len(text) /\ j # s.i /\ j # s.i - 1
          BY <1>1
        <5> QED
          BY <1>3, <5>1
      <4>4. s.i - 2 + 1 = s.i - 1
        BY <1>1
      <4> QED
        BY <4>2, <4>3, <4>4
    <3>3. \A j \in s.i - 2 + 1 .. s.i - 1 : text[j] # "="
      BY <1>1, <2>1
    <3>4. LineEnds(s, text, buf, s.i - 2)
      BY <1>1, <1>4, <2>1, <3>1, <3>2, <3>3 DEF LineEnds
    <3> QED
      BY <3>4
  <2>2. CASE ~(s.i - 1 >= s.keyPtr /\ text[s.i - 1] = "\r")
    <3>1. LastOf(text, s.keyPtr) = s.i - 1
      BY <1>1, <1>7, <2>2 DEF LastOf
    <3>2. s.i - 1 > 0 => s.buf[s.i - 1] # "\r"
      <4>1. CASE s.i = s.keyPtr
        BY <4>1 DEF BufferInv
      <4>2. CASE s.i # s.keyPtr
        <5>1. s.i - 1 \in s.keyPtr .. Len(text) /\ s.i - 1 >= s.keyPtr
          BY <1>1, <4>2
        <5>2. s.buf[s.i - 1] \in {"NUL", text[s.i - 1]}
          BY <1>5, <5>1
        <5> QED
          BY <2>2, <5>1, <5>2
      <4> QED
        BY <4>1, <4>2
    <3>3. buf[s.i - 1 + 1] = "NUL" /\ \A j \in s.keyPtr .. s.i - 1 : buf[j] = s.buf[j]
      <4>1. ASSUME NEW j \in s.keyPtr .. s.i - 1 PROVE buf[j] = s.buf[j]
        <5>1. j \in 1 .. Len(text) /\ j # s.i /\ (j = s.i - 1 => s.buf[j] # "\r")
          BY <1>1, <3>2
        <5> QED
          BY <1>3, <5>1
      <4>2. s.i - 1 + 1 = s.i
        BY <1>1
      <4> QED
        BY <1>6, <4>1, <4>2
    <3>4. LineEnds(s, text, buf, s.i - 1)
      BY <1>1, <1>4, <3>1, <3>3 DEF LineEnds
    <3> QED
      BY <3>4
  <2> QED
    BY <2>1, <2>2
<1> QED
  BY <1>4, <1>6, <1>8

\* What one turn makes of the loop's variables.
LEMMA TurnIs ==
    ASSUME NEW s \in ParserStates
    PROVE  /\ s.buf[s.i] = "=" =>
                Turn(s) = [i |-> s.i + 1, buf |-> [s.buf EXCEPT ![s.i] = "NUL"], keyPtr |-> s.keyPtr,
                           valuePtr |-> s.i + 1, cfg |-> s.cfg]
           /\ s.buf[s.i] = "\n" =>
                Turn(s) = [i |-> s.i + 1, buf |-> Cleared(s.buf, Cut(s.buf, s.i)), keyPtr |-> s.i + 1,
                           valuePtr |-> 0, cfg |-> ParseLine(s, Cleared(s.buf, Cut(s.buf, s.i)))]
           /\ s.buf[s.i] \notin {"=", "\n"} =>
                Turn(s) = [i |-> s.i + 1, buf |-> s.buf, keyPtr |-> s.keyPtr, valuePtr |-> s.valuePtr,
                           cfg |-> s.cfg]
BY DEF Turn, ParserStates

\* A turn keeps what the buffer and the pointers stand for.
LEMMA TurnKeeps ==
    ASSUME NEW text \in Texts, NEW s, ParserInv(s, text), ~AtEnd(s)
    PROVE  ParserInv(Turn(s), text)
<1>1. BufferInv(s, text) /\ s \in ParserStates
  BY DEF ParserInv, BufferInv
<1>2. /\ Len(text) \in Nat /\ s.i \in Nat \ {0} /\ s.keyPtr \in Nat \ {0} /\ s.keyPtr <= s.i
      /\ s.buf \in Seq(Words) /\ Len(s.buf) = Len(text) /\ s.i \in 1 .. Len(text)
      /\ s.valuePtr \in Nat /\ s.cfg \in Configurations
  BY <1>1, TextIs DEF BufferInv, ParserStates, Starts, AtEnd
<1>3. s.buf[s.i] = text[s.i]
  BY <1>1, <1>2 DEF BufferInv
<1>4. CASE text[s.i] = "="
  <2> DEFINE buf == [s.buf EXCEPT ![s.i] = "NUL"]
             t == [i |-> s.i + 1, buf |-> buf, keyPtr |-> s.keyPtr, valuePtr |-> s.i + 1, cfg |-> s.cfg]
  <2>1. Turn(s) = t
    BY <1>1, <1>3, <1>4, TurnIs
  <2>2. /\ buf \in Seq(Words) /\ Len(buf) = Len(text)
        /\ \A j \in 1 .. Len(text) : buf[j] = IF j = s.i THEN "NUL" ELSE s.buf[j]
    <3>1. s.i \in 1 .. Len(s.buf) /\ "NUL" \in Words
      BY <1>2 DEF Words
    <3> QED
      BY <1>2, <3>1, ExceptSeq
  <2> HIDE DEF buf
  <2>3. t \in ParserStates
    BY <1>2, <2>2 DEF ParserStates
  <2>4. /\ s.keyPtr \in Starts(text) /\ s.i + 1 \in s.keyPtr .. Len(text) + 1
        /\ \A j \in s.keyPtr .. s.i + 1 - 1 : text[j] # "\n"
        /\ s.keyPtr > 1 => buf[s.keyPtr - 1] # "\r"
    <3>1. s.keyPtr > 1 => s.keyPtr - 1 \in 1 .. Len(text) /\ s.keyPtr - 1 # s.i
      BY <1>2
    <3>2. s.keyPtr > 1 => buf[s.keyPtr - 1] # "\r"
      BY <1>1, <2>2, <3>1 DEF BufferInv
    <3>3. s.keyPtr \in Starts(text) /\ \A j \in s.keyPtr .. s.i - 1 : text[j] # "\n"
      BY <1>1 DEF BufferInv
    <3>4. s.i + 1 \in s.keyPtr .. Len(text) + 1 /\ \A j \in s.keyPtr .. s.i + 1 - 1 : text[j] # "\n"
      BY <1>2, <1>4, <3>3
    <3> QED
      BY <2>2, <3>2, <3>3, <3>4
  <2>5. ASSUME NEW j \in s.keyPtr .. Len(text)
        PROVE  buf[j] = IF j < s.i + 1 /\ text[j] = "=" THEN "NUL" ELSE text[j]
    <3>1. s.buf[j] = IF j < s.i /\ text[j] = "=" THEN "NUL" ELSE text[j]
      BY <1>1 DEF BufferInv
    <3>2. j \in 1 .. Len(text) /\ j \in Nat
      BY <1>2
    <3>3. CASE j = s.i
      BY <1>2, <1>4, <2>2, <3>2, <3>3
    <3>4. CASE j # s.i
      BY <1>2, <2>2, <3>1, <3>2, <3>4
    <3> QED
      BY <3>3, <3>4
  <2>6. /\ s.i + 1 # 0
        /\ s.i + 1 - 1 \in s.keyPtr .. s.i + 1 - 1 /\ text[s.i + 1 - 1] = "="
        /\ \A j \in s.i + 1 .. s.i + 1 - 1 : text[j] # "="
    BY <1>2, <1>4
  <2>7. BufferInv(t, text)
    <3>1. t.i = s.i + 1 /\ t.buf = buf /\ t.keyPtr = s.keyPtr /\ t.valuePtr = s.i + 1
      OBVIOUS
    <3> HIDE DEF t
    <3>2. Len(t.buf) = Len(text)
      BY <2>2, <3>1
    <3>3. t.keyPtr \in Starts(text) /\ t.i \in t.keyPtr .. Len(text) + 1
      BY <2>4, <3>1
    <3>4. \A j \in t.keyPtr .. t.i - 1 : text[j] # "\n"
      BY <1>2, <2>4, <3>1
    <3>5. t.keyPtr > 1 => t.buf[t.keyPtr - 1] # "\r"
      BY <2>4, <3>1
    <3>6. \A j \in t.keyPtr .. Len(text) : t.buf[j] = IF j < t.i /\ text[j] = "=" THEN "NUL" ELSE text[j]
      BY <2>5, <3>1
    <3>7. /\ t.valuePtr # 0 /\ t.valuePtr - 1 \in t.keyPtr .. t.i - 1 /\ text[t.valuePtr - 1] = "="
          /\ \A j \in t.valuePtr .. t.i - 1 : text[j] # "="
      BY <1>2, <2>6, <3>1
    <3> QED
      BY <2>3, <3>2, <3>3, <3>4, <3>5, <3>6, <3>7 DEF BufferInv
  <2> QED
    BY <2>1, <2>7 DEF ParserInv
<1>5. CASE text[s.i] = "\n"
  <2> DEFINE buf == Cleared(s.buf, Cut(s.buf, s.i))
             cfg == ParseLine(s, buf)
             t == [i |-> s.i + 1, buf |-> buf, keyPtr |-> s.i + 1, valuePtr |-> 0, cfg |-> cfg]
  <2>1. Turn(s) = t
    BY <1>1, <1>3, <1>5, TurnIs
  <2>2. /\ \E final : LineEnds(s, text, buf, final)
        /\ buf \in Seq(Words) /\ Len(buf) = Len(text)
        /\ buf[s.i] = "NUL" /\ \A j \in s.i + 1 .. Len(text) : buf[j] = text[j]
    BY <1>1, <1>2, <1>5, LineEndsAt
  <2> HIDE DEF buf
  <2>3. cfg \in Configurations /\ (Plain(text) => cfg = MeaningBefore(text, s.i + 1))
    BY <2>2, LineParsed
  <2> HIDE DEF cfg
  <2>4. t \in ParserStates
    BY <1>2, <2>2, <2>3 DEF ParserStates
  <2>5. s.i + 1 \in Starts(text)
    BY <1>2, <1>5, TextIs DEF Starts
  <2>6. BufferInv(t, text)
    BY <1>2, <2>2, <2>4, <2>5 DEF BufferInv
  <2> QED
    BY <2>1, <2>3, <2>6 DEF ParserInv
<1>6. CASE text[s.i] \notin {"=", "\n"}
  <2> DEFINE t == [i |-> s.i + 1, buf |-> s.buf, keyPtr |-> s.keyPtr, valuePtr |-> s.valuePtr, cfg |-> s.cfg]
  <2>1. Turn(s) = t
    BY <1>1, <1>3, <1>6, TurnIs
  <2>2. t \in ParserStates
    BY <1>2 DEF ParserStates
  <2>3. /\ Len(t.buf) = Len(text) /\ t.keyPtr \in Starts(text) /\ t.i \in t.keyPtr .. Len(text) + 1
        /\ \A j \in t.keyPtr .. t.i - 1 : text[j] # "\n"
        /\ t.keyPtr > 1 => t.buf[t.keyPtr - 1] # "\r"
    BY <1>1, <1>2, <1>6 DEF BufferInv
  <2>4. \A j \in t.keyPtr .. Len(text) : t.buf[j] = IF j < t.i /\ text[j] = "=" THEN "NUL" ELSE text[j]
    BY <1>1, <1>2, <1>6 DEF BufferInv
  <2>5. IF t.valuePtr = 0
        THEN \A j \in t.keyPtr .. t.i - 1 : text[j] # "="
        ELSE /\ t.valuePtr - 1 \in t.keyPtr .. t.i - 1 /\ text[t.valuePtr - 1] = "="
             /\ \A j \in t.valuePtr .. t.i - 1 : text[j] # "="
    BY <1>1, <1>2, <1>6 DEF BufferInv
  <2>6. BufferInv(t, text)
    BY <2>2, <2>3, <2>4, <2>5 DEF BufferInv
  <2> QED
    BY <2>1, <2>6 DEF ParserInv
<1> QED
  BY <1>4, <1>5, <1>6

\* The loop starts with nothing parsed.
LEMMA ParserStarts == ASSUME NEW text \in Texts PROVE ParserInv(StartOf(text), text)
<1>1. text \in Seq(Words) /\ Len(text) \in Nat /\ DOMAIN text = 1 .. Len(text)
  BY TextIs
<1>2. NoConfig \in Configurations
  BY DEF NoConfig, Configurations, Modes
<1>3. BufferInv(StartOf(text), text)
  BY <1>1, <1>2 DEF BufferInv, StartOf, ParserStates, Starts
<1>4. ASSUME NEW key PROVE Earlier(text, key, 1) = {}
  <2>1. ASSUME NEW v \in Values(text, key) PROVE v.at \in Nat \ {0}
    BY <1>1, ValuesAre DEF Starts
  <2> QED
    BY <2>1 DEF Earlier
<1>5. NoConfig = MeaningBefore(text, 1)
  <2>1. /\ Earlier(text, "type", 1) = {} /\ Earlier(text, "ssid", 1) = {}
        /\ Earlier(text, "key", 1) = {} /\ Earlier(text, "key_type", 1) = {}
    BY <1>4
  <2> QED
    BY <2>1 DEF MeaningBefore, NoConfig, LastValue, Usable
<1> QED
  BY <1>3, <1>5 DEF ParserInv, StartOf

\* When it is over, what was parsed is what the file says.
LEMMA ParserEnds ==
    ASSUME NEW text \in Texts, NEW s, ParserInv(s, text), AtEnd(s)
    PROVE  Parsed(s) \in Configurations /\ (Plain(text) => Parsed(s) = Meaning(text))
<1>1. BufferInv(s, text)
  BY DEF ParserInv
<1>2. /\ Len(text) \in Nat /\ s.i = Len(text) + 1 /\ s.keyPtr \in Nat \ {0} /\ s.keyPtr <= s.i
      /\ s.buf \in Seq(Words) /\ Len(s.buf) = Len(text)
  <2>1. /\ Len(text) \in Nat /\ s.i \in Nat /\ s.keyPtr \in Nat \ {0} /\ s.keyPtr <= s.i
        /\ s.i <= Len(text) + 1 /\ s.buf \in Seq(Words) /\ Len(s.buf) = Len(text)
    BY <1>1, TextIs DEF BufferInv, ParserStates, Starts
  <2> QED
    BY <2>1 DEF AtEnd
<1>3. EndOf(text, s.keyPtr) = Len(text)
  <2>1. Len(text) \in s.keyPtr - 1 .. Len(text) /\ \A j \in s.keyPtr .. Len(text) : text[j] # "\n"
    BY <1>1, <1>2 DEF BufferInv
  <2> QED
    BY <1>2, <2>1, EndIs
<1>4. LastOf(text, s.keyPtr) = Len(text)
  BY <1>2, <1>3 DEF LastOf
<1>5. LineEnds(s, text, s.buf, Len(text))
  BY <1>2, <1>4 DEF LineEnds
<1>6. ASSUME NEW key PROVE Earlier(text, key, s.i + 1) = Values(text, key)
  <2>1. ASSUME NEW v \in Values(text, key) PROVE v.at < s.i + 1
    BY <1>2, ValuesAre, TextIs DEF Starts
  <2> QED
    BY <2>1 DEF Earlier
<1>7. MeaningBefore(text, s.i + 1) = Meaning(text)
  <2>1. /\ Earlier(text, "type", s.i + 1) = Values(text, "type")
        /\ Earlier(text, "ssid", s.i + 1) = Values(text, "ssid")
        /\ Earlier(text, "key", s.i + 1) = Values(text, "key")
        /\ Earlier(text, "key_type", s.i + 1) = Values(text, "key_type")
    BY <1>6
  <2> QED
    BY <2>1 DEF MeaningBefore, Meaning, Usable
<1> QED
  BY <1>5, <1>7, LineParsed DEF Parsed

-----------------------------------------------------------------------------
(* The option that reads, parses and applies network.cfg.                  *)

ConfigPlaces == {"netconfApply", "netconfDone", "netconfFree"}

\* Elsewhere the configuration is left alone.
LEMMA ConfigStays ==
    ASSUME ConfigInv, Here' \notin ConfigPlaces \/ Here' = Here, Here # "netconfApply" \/ Here' = Here,
           UNCHANGED <<cfgFile, parse, running>>,
           ifmgr_handle' \in {"open", "none"}, socket_handle' \in {"open", "none"}, dns_entry' \in BOOLEAN
    PROVE  ConfigInv'
BY DEF ConfigInv, ConfigPlaces

\* What initNetconf opens are devices.
LEMMA InitNetconfOpens ==
    ASSUME NEW here, NEW there, NEW failed, initNetconf(here, there, failed),
           ifmgr_handle \in {"open", "none"}, socket_handle \in {"open", "none"}
    PROVE  /\ ifmgr_handle' \in {"open", "none"} /\ socket_handle' \in {"open", "none"}
           /\ UNCHANGED <<dns_entry, running, cfgFile, parse>>
BY DEF initNetconf, Opened

\* The steps of the option keep the parser's invariant and apply what was parsed.
LEMMA LoadKeeps ==
    ASSUME ConfigInv, TalkInv, option_LoadNetConf PROVE ConfigInv'
<1> USE DEF Here
<1>1. cfgFile \in Texts
  BY NetworkConstants DEF ConfigInv, Texts
<1>2. CASE OpenIfmgr
  <2>1. ifmgr_handle' \in {"open", "none"}
    BY <1>2 DEF OpenIfmgr, Opened, ConfigInv
  <2>2. Here = "netconf" /\ Here' \in {"netconfOpen", "main"}
    BY <1>2 DEF OpenIfmgr, Check, Step, Wait, print_error
  <2> HIDE DEF Here
  <2> QED
    BY <1>2, <2>1, <2>2, ConfigStays DEF OpenIfmgr, ConfigPlaces, ConfigInv
<1>3. CASE ReadConfig
  <2>1. /\ Here = "netconfRead" /\ UNCHANGED <<ifmgr_handle, socket_handle, dns_entry, running, cfgFile>>
        /\ \/ Here' = "netconfApply" /\ parse' = StartOf(cfgFile)
           \/ Here' = "main" /\ parse' = parse
    BY <1>3 DEF ReadConfig, Check, Step, Wait, print_error
  <2>2. ParserInv(StartOf(cfgFile), cfgFile)
    BY <1>1, ParserStarts
  <2> HIDE DEF Here
  <2> QED
    BY <2>1, <2>2 DEF ConfigInv
<1>4. CASE ParseConfig
  <2>1. /\ Here = "netconfApply" /\ Here' = "netconfApply" /\ ~AtEnd(parse) /\ parse' = Turn(parse)
        /\ UNCHANGED <<ifmgr_handle, socket_handle, dns_entry, running, cfgFile>>
    BY <1>4 DEF ParseConfig, Step
  <2> HIDE DEF Here
  <2>2. ParserInv(parse', cfgFile)
    BY <1>1, <2>1, TurnKeeps DEF ConfigInv
  <2> QED
    BY <2>1, <2>2 DEF ConfigInv
<1>5. CASE ApplyConfig
  <2>1. /\ Here = "netconfApply" /\ AtEnd(parse) /\ parse' = StartOf(<<>>)
        /\ UNCHANGED <<ifmgr_handle, socket_handle, dns_entry, cfgFile>>
        /\ \/ Here' = "netconfDone" /\ running' = <<Parsed(parse)>>
           \/ Here' = "main" /\ running' = running
    BY <1>5 DEF ApplyConfig, Check, Step, Wait, print_error
  <2> HIDE DEF Here
  <2>2. Parsed(parse) \in Configurations /\ (Plain(cfgFile) => Parsed(parse) = Meaning(cfgFile))
    BY <1>1, <2>1, ParserEnds DEF ConfigInv
  <2>3. <<Parsed(parse)>> \in [1 .. 1 -> Configurations]
    BY <2>2
  <2> QED
    BY <2>1, <2>2, <2>3 DEF ConfigInv
<1>6. CASE /\ Here \notin {"netconfApply", "netconfDone"} \/ Here' = "netconfFree"
           /\ Here' \notin ConfigPlaces \/ (Here = "netconfDone" /\ Here' = "netconfFree")
           /\ UNCHANGED networkVars
  <2> HIDE DEF Here
  <2> QED
    BY <1>6 DEF networkVars, ConfigInv, ConfigPlaces
<1>7. CASE \/ Check("netconfOpen", "netconfStat", FSA_OpenFile("openCfg", TRUE), {"cfg"}, {})
           \/ Check("netconfStat", "netconfAlloc", FSA_StatFile, {}, FSA_CloseFile("cfg"))
           \/ Check("netconfAlloc", "netconfRead", Outcomes("alloc"), {"cfgBuffer"}, FSA_CloseFile("cfg"))
           \/ Wait("netconfDone", "netconfFree")
           \/ Return("netconfFree")
  <2>1. /\ Here \notin {"netconfApply", "netconfDone"} \/ Here' = "netconfFree"
        /\ Here' \notin ConfigPlaces \/ (Here = "netconfDone" /\ Here' = "netconfFree")
    BY <1>7 DEF Check, Step, Wait, print_error, Return, ConfigPlaces
  <2> QED
    BY <1>2, <1>3, <1>4, <1>5, <1>6, <1>7, <2>1 DEF option_LoadNetConf
<1> QED
  BY <1>2, <1>3, <1>4, <1>5, <1>7 DEF option_LoadNetConf

\* The configuration that is applied is the one on the card, wherever the menu is.
LEMMA ConfigSafety == Spec => []ConfigInv
<1>1. Init => ConfigInv
  BY DEF Init, InputInit, NetworkInit, ConfigInv, Here
<1>2. ConfigInv /\ TalkInv /\ EntryInv /\ [Next]_vars => ConfigInv'
  <2> SUFFICES ASSUME ConfigInv, TalkInv, EntryInv, [Next]_vars PROVE ConfigInv'
    OBVIOUS
  <2>1. ASSUME UNCHANGED networkVars, Here' \notin ConfigPlaces \/ Here' = Here,
               Here # "netconfApply" \/ Here' = Here
        PROVE  ConfigInv'
    BY <2>1, ConfigStays DEF networkVars, ConfigInv
  <2>2. CASE UserStep
    <3>1. UNCHANGED networkVars
      BY <2>2 DEF UserStep, ChooseOption
    <3>2. Here' = Here \/ (Here' \notin ConfigPlaces /\ Here # "netconfApply")
      BY <2>2, UserFrame, EntriesAre DEF Here, ConfigPlaces, EntryInv, TalkInv
    <3> QED
      BY <2>1, <3>1, <3>2
  <2>3. CASE OthersStep
    BY <2>1, <2>3 DEF OthersStep, DrhStep, ServerStep, inputVars, Here
  <2>4. CASE Boot \/ Elsewhere \/ option_Shutdown
    BY <2>1, <2>4, MenuFrame DEF Frame, Boot, Elsewhere, option_Shutdown, Here, ConfigPlaces
  <2>5. CASE DrawMain
    BY <2>1, <2>5 DEF DrawMain, drawMenu, Here, ConfigPlaces
  <2>6. CASE DumpNext /\ UNCHANGED networkVars
    BY <2>1, <2>6, DumpFrame DEF Frame, DumpPlaces, Here, ConfigPlaces
  <2>7. CASE NetworkNext
    <3>1. CASE option_LoadNetConf
      BY <3>1, LoadKeeps
    <3>2. CASE option_StartWupserver
      <4>1. Here # "netconfApply" /\ Here' \notin ConfigPlaces
        BY <3>2 DEF option_StartWupserver, initNetconf, Step, Wait, print_error, Here, ConfigPlaces
      <4>2. CASE initNetconf("wup", "wupRuns", "wupFailed")
        BY <4>1, <4>2, InitNetconfOpens, ConfigStays DEF ConfigInv
      <4> QED
        BY <2>1, <3>2, <4>1, <4>2 DEF option_StartWupserver
    <3> QED
      BY <2>7, <3>1, <3>2 DEF NetworkNext
  <2>8. CASE /\ option_SetColdbootTitle \/ option_EditParental \/ option_SystemInformation
             /\ UNCHANGED networkVars
    BY <2>1, <2>8, SettingsFrame DEF Frame, SettingsPlaces, Here, ConfigPlaces
  <2>9. CASE option_DebugSystemRegion /\ UNCHANGED networkVars
    BY <2>1, <2>9, RegionFrame DEF Frame, RegionPlaces, Here, ConfigPlaces
  <2>10. CASE option_PairDRC /\ UNCHANGED networkVars
    BY <2>1, <2>10, PairFrame DEF Frame, PairPlaces, Here, ConfigPlaces
  <2>11. CASE option_SubmitSystemData
    <3>1. Here # "netconfApply" /\ Here' \notin ConfigPlaces
      BY <2>11, SubmitFrame DEF Frame, SubmitPlaces, Here, ConfigPlaces
    <3>2. CASE initNetconf("submitNet", "submitSocket", "submitNoNet")
      BY <3>1, <3>2, InitNetconfOpens, ConfigStays DEF ConfigInv
    <3>3. CASE LookUpHost
      <4>1. dns_entry' \in BOOLEAN
        BY <3>3 DEF LookUpHost, gethostbyname, ConfigInv
      <4> QED
        BY <3>1, <3>3, <4>1, ConfigStays DEF LookUpHost, ConfigInv
    <3> QED
      BY <2>1, <2>11, <3>1, <3>2, <3>3 DEF option_SubmitSystemData
  <2>12. CASE UNCHANGED vars
    BY <2>1, <2>12 DEF vars, inputVars, Here
  <2> QED
    BY <2>2, <2>3, <2>4, <2>5, <2>6, <2>7, <2>8, <2>9, <2>10, <2>11, <2>12
       DEF Next, MenuStep, OptionStep, RegionOption
<1> QED
  BY <1>1, <1>2, PlaceSafety, TalkSafety, PTL DEF Spec

\* When the option says "Done!", what was applied is what the file says, for any text
\* whose values have no "=" in them, whatever failed before.
THEOREM ConfigIsFileSafety == Spec => []ConfigIsFile
<1>1. ConfigInv => ConfigIsFile
  BY DEF ConfigInv, ConfigIsFile, Here
<1> QED
  BY <1>1, ConfigSafety, PTL

-----------------------------------------------------------------------------
(* The types of the menu as a whole.                                       *)

\* Every variable of the menu keeps its type, for any faults, files, regions,
\* titles, sockets and sessions: a selection is an entry of its menu, no more sockets
\* are lost than there are, and the parser stays inside its buffer.
THEOREM TypeCorrect == Spec => []TypeOK
<1>1. ASSUME ConfigInv PROVE NetworkTypeOK
  <2>1. /\ parse.i \in 1 .. Len(parse.buf) + 1 /\ parse.keyPtr \in 1 .. parse.i
        /\ parse.valuePtr \in 0 .. parse.i /\ parse.cfg \in Configurations
    <3>1. CASE parse = StartOf(<<>>)
      BY <3>1 DEF StartOf, NoConfig, Configurations, Modes
    <3>2. CASE ParserInv(parse, cfgFile)
      <4>1. cfgFile \in Texts
        BY <1>1, NetworkConstants DEF ConfigInv, Texts
      <4>2. BufferInv(parse, cfgFile) /\ parse \in ParserStates
        BY <3>2 DEF ParserInv, BufferInv
      <4>3. /\ Len(cfgFile) \in Nat /\ Len(parse.buf) = Len(cfgFile) /\ parse.keyPtr \in Nat \ {0}
            /\ parse.i \in parse.keyPtr .. Len(cfgFile) + 1
        BY <4>1, <4>2, TextIs DEF BufferInv, Starts
      <4>4. parse.valuePtr \in 0 .. parse.i
        BY <4>2, <4>3 DEF BufferInv, ParserStates
      <4>5. parse.cfg \in Configurations
        BY <4>2 DEF ParserStates
      <4> QED
        BY <4>3, <4>4, <4>5
    <3> QED
      BY <1>1, <3>1, <3>2 DEF ConfigInv
  <2>2. \A j \in DOMAIN running : running[j] \in Configurations
    BY <1>1 DEF ConfigInv
  <2>3. \A cfg \in {parse.cfg} \cup {running[j] : j \in DOMAIN running} : cfg \in Configurations
    BY <2>1, <2>2
  <2> QED
    BY <1>1, <2>1, <2>3 DEF NetworkTypeOK, ConfigInv, Configurations
<1>2. ValuesInv /\ EntryInv /\ ConfigInv => TypeOK
  BY <1>1 DEF TypeOK, ValuesInv, EntryInv
<1> QED
  BY <1>2, ValuesSafety, PlaceSafety, ConfigSafety, PTL
=============================================================================

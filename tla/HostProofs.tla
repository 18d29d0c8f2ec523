----------------------------- MODULE HostProofs -----------------------------
(***************************************************************************)
(* The commands of the host, for every set of commands that end with an    *)
(* end of line and fit into the buffer, and every size of the buffer and   *)
(* of names.                                                               *)
(*                                                                         *)
(* main() parses a buffer that holds the command and, behind it, what      *)
(* older commands left.  Three facts about a complete command carry the    *)
(* proof: its colon is the first one of the buffer, so the name is its     *)
(* own; white space behind the colon ends within it; and so does the       *)
(* number, because the last word is no digit.  That the buffer keeps still *)
(* meanwhile is the invariant.                                             *)
(***************************************************************************)
EXTENDS HostCommand, TLAPS, WellFoundedInduction, SequenceTheorems

\* Words the host has sent are in the buffer, and the channel stands behind them
\* until the idle line restarts it.
LineInv ==
  /\ answered \/ idle => sent = Len(cmd)
  /\ answered => ~idle
  /\ ~answered => cmd \in Commands
  /\ pos = IF idle \/ sent < Len(cmd) THEN sent + 1 ELSE 1
  /\ \A i \in 1..sent : uart1_rx_buffer[i] = cmd[i]

\* A raised flag means a complete command that waits for its answer, except
\* between the answer and the reset; while main() parses it the line is silent.
FlagInv ==
  /\ rx1_flag /\ pc # "reset" => ~answered /\ sent = Len(cmd)
  /\ pc \in {"colon", "name", "store", "answer"} => rx1_flag /\ ~idle

\* What the parser has found, of the buffer as it is.
ParserInv ==
  /\ pc \in {"name", "store"} => /\ colon = Colon(uart1_rx_buffer)
                                 /\ colon # 0 /\ colon - 1 < NameSize
  /\ pc = "store" => /\ name = NameBefore(uart1_rx_buffer, colon)
                     /\ Recognised(name)

Settings == [Groups -> [Keys -> Nat]]
Flags == [Groups -> [SetKeys -> 0..255]]

\* Two sets of flags that hand over the same parameters.
SameRequests(f, h) == \A g \in Groups, s \in SetKeys : f[g][s] = 0 <=> h[g][s] = 0

\* main() works on what the answered commands made, and on what cmd, when it is
\* complete, makes of it once the value is stored; a request is pending from there
\* to its application.
ParamsInv ==
  LET meant == Meaning(cmd, expected[1], NoRequest)
  IN  /\ expected \in Settings \X Settings
      /\ pc # "answer" => pid_params = expected[1]
      /\ pc = "answer" /\ Complete(cmd) => /\ pid_params = meant[1]
                                            /\ SameRequests(set_flag, meant[2])
      /\ pc \in {"check", "colon", "name", "store"} =>
           SameRequests(set_flag, NoRequest)
      /\ pc \in {"check", "colon", "name", "store", "answer"} =>
           drive = expected[2]
      /\ pc \in {"reset", "apply"} =>
           expected[2] = Applied(pid_params, set_flag, drive)

IInv == TypeOK /\ LineInv /\ FlagInv /\ ParserInv /\ ParamsInv

-----------------------------------------------------------------------------
(***************************************************************************)
(* Induction on natural numbers, said of a set.                            *)
(***************************************************************************)

\* A nonempty set of natural numbers has a least element.
LEMMA Least ==
  ASSUME NEW S \in SUBSET Nat, S # {}
  PROVE  \E m \in S : \A n \in S : m <= n
<1> DEFINE R == OpToRel(<, Nat)
<1>1. \A x, y \in Nat : y < x => <<y, x>> \in R
  BY DEF OpToRel
<1>2. IsWellFoundedOn(R, Nat)
  BY NatLessThanWellFounded
<1> HIDE DEF R
<1>3. PICK m \in S : \A n \in S : ~ (<<n, m>> \in R)
  BY <1>2, WFMin, Zenon
<1>4. \A n \in S : ~ (n < m)
  BY <1>1, <1>3, Zenon
<1>5. QED
  BY <1>4

\* A set with 0 and with the successor of each of its numbers has them all.
LEMMA Induction ==
  ASSUME NEW S, 0 \in S, \A n \in Nat : n \in S => n + 1 \in S
  PROVE  Nat \subseteq S
<1> SUFFICES ASSUME Nat \ S # {} PROVE FALSE
  OBVIOUS
<1>1. PICK m \in Nat \ S : \A n \in Nat \ S : m <= n
  BY Least
<1>2. m # 0 /\ m - 1 \in Nat /\ m - 1 \notin Nat \ S
  BY <1>1
<1>3. (m - 1) + 1 \in S
  BY <1>2
<1>4. QED
  BY <1>1, <1>3

-----------------------------------------------------------------------------
(***************************************************************************)
(* Numbers.                                                                *)
(***************************************************************************)

\* A digit has a value.
LEMMA DigitValueIsNat ==
  ASSUME NEW d \in Digit
  PROVE  DigitValue(d) \in Nat
<1>1. PICK i \in DOMAIN Digits : Digits[i] = d
  BY DEF Digit, Range
<1> DEFINE at == CHOOSE j \in DOMAIN Digits : Digits[j] = d
<1>2. at \in DOMAIN Digits
  BY <1>1
<1>3. DOMAIN Digits = 1..10
  BY DEF Digits
<1>4. DigitValue(d) = at - 1
  BY DEF DigitValue
<1> HIDE DEF at
<1>5. QED
  BY <1>2, <1>3, <1>4

\* The recursion of Number, line by line.
Fills(value, digits) ==
  /\ value[0] = 0
  /\ \A i \in 1..Len(digits) : value[i] = 10 * value[i - 1] + DigitValue(digits[i])

\* It leaves no choice.
LEMMA FilledAlike ==
  ASSUME NEW digits \in Seq(Digit), NEW v, NEW w, Fills(v, digits), Fills(w, digits)
  PROVE  \A i \in 0..Len(digits) : v[i] = w[i]
<1> DEFINE n == Len(digits)
           A == {i \in Nat : i <= n => v[i] = w[i]}
<1>1. 0 \in A
  BY DEF Fills
<1>2. ASSUME NEW i \in Nat, i \in A PROVE i + 1 \in A
  BY <1>2 DEF Fills
<1>3. Nat \subseteq A
  <2> HIDE DEF A
  <2>1. QED
    BY <1>1, <1>2, Induction
<1>4. QED
  BY <1>3

\* The recursion has a result: Number is what it leaves in its last line.
LEMMA NumberTable ==
  ASSUME NEW digits \in Seq(Digit)
  PROVE  \E value \in [0..Len(digits) -> Nat] :
           /\ Fills(value, digits)
           /\ Number(digits) = value[Len(digits)]
<1> DEFINE n == Len(digits)
           Row(g, i) == IF i = 0 THEN 0 ELSE 10 * g[i - 1] + DigitValue(digits[i])
           Table(g) == g = [i \in 0..n |-> Row(g, i)]
           Filled(i) == \E g \in [0..i -> Nat] : \A j \in 0..i : g[j] = Row(g, j)
           F == {i \in Nat : i <= n => Filled(i)}
<1>1. n \in Nat /\ \A i \in 1..n : DigitValue(digits[i]) \in Nat
  BY DigitValueIsNat
<1>2. 0 \in F
  <2> DEFINE g == [i \in 0..0 |-> 0]
  <2>1. g \in [0..0 -> Nat] /\ \A j \in 0..0 : g[j] = Row(g, j)
    OBVIOUS
  <2>2. QED
    BY <2>1
<1>3. ASSUME NEW i \in Nat, i \in F PROVE i + 1 \in F
  <2> HIDE DEF Filled
  <2> SUFFICES ASSUME i + 1 <= n PROVE Filled(i + 1)
    OBVIOUS
  <2>0. Filled(i)
    BY <1>1, <1>3
  <2> USE DEF Filled
  <2>1. PICK g \in [0..i -> Nat] : \A j \in 0..i : g[j] = Row(g, j)
    BY <2>0
  <2> DEFINE h == [j \in 0..(i + 1) |->
                     IF j <= i THEN g[j] ELSE 10 * g[i] + DigitValue(digits[i + 1])]
  <2>2. g[i] \in Nat /\ DigitValue(digits[i + 1]) \in Nat
    BY <1>1
  <2>3. h \in [0..(i + 1) -> Nat]
    BY <2>2
  <2>4. ASSUME NEW j \in 0..(i + 1) PROVE h[j] = Row(h, j)
    <3>1. CASE j <= i
      <4>1. h[j] = g[j] /\ (j # 0 => h[j - 1] = g[j - 1])
        BY <3>1
      <4>2. g[j] = Row(g, j)
        BY <2>1, <3>1
      <4> HIDE DEF h
      <4>3. QED
        BY <4>1, <4>2
    <3>2. CASE j = i + 1
      BY <3>2
    <3>3. QED
      BY <3>1, <3>2
  <2>5. QED
    BY <2>3, <2>4
<1>4. n \in F
  <2> HIDE DEF F
  <2>1. Nat \subseteq F
    BY <1>2, <1>3, Induction
  <2>2. QED
    BY <1>1, <2>1
<1>5. PICK g \in [0..n -> Nat] : \A j \in 0..n : g[j] = Row(g, j)
  BY <1>1, <1>4
<1>6. \E f : Table(f)
  <2>1. Table(g)
    BY <1>5
  <2>2. QED
    BY <2>1
<1> DEFINE value == CHOOSE f : Table(f)
<1>7. Number(digits) = value[n]
  BY DEF Number
<1>8. Table(value)
  <2> HIDE DEF Table
  <2>1. QED
    BY <1>6
<1> HIDE DEF value
<1>9. Fills(value, digits) /\ DOMAIN value = 0..n
  BY <1>1, <1>8 DEF Fills
<1>10. \A i \in 0..n : value[i] = g[i]
  <2>1. Fills(g, digits)
    BY <1>1, <1>5 DEF Fills
  <2>2. QED
    BY <1>9, <2>1, FilledAlike
<1>11. value \in [0..n -> Nat]
  BY <1>8, <1>10
<1>12. QED
  BY <1>7, <1>9, <1>11

\* Digits make a natural number.
LEMMA NumberIsNat ==
  ASSUME NEW digits \in Seq(Digit)
  PROVE  Number(digits) \in Nat
BY NumberTable

-----------------------------------------------------------------------------
(***************************************************************************)
(* Texts.                                                                  *)
(***************************************************************************)

\* What Colon looks for.
IsColon(text, i) == text[i] = ":" /\ \A j \in 1..i : text[j] # nul

\* Colon finds the first one, or none.
LEMMA ColonIsFirst ==
  ASSUME NEW text, Len(text) \in Nat
  PROVE  \/ Colon(text) = 0 /\ \A i \in 1..Len(text) : ~ IsColon(text, i)
         \/ /\ Colon(text) \in 1..Len(text) /\ IsColon(text, Colon(text))
            /\ \A i \in 1..(Colon(text) - 1) : ~ IsColon(text, i)
<1> DEFINE found == {i \in 1..Len(text) : IsColon(text, i)}
           First(i) == \A j \in found : i <= j
<1>1. Colon(text) = IF found = {} THEN 0 ELSE CHOOSE i \in found : First(i)
  BY DEF Colon, IsColon
<1>2. CASE found = {}
  BY <1>1, <1>2
<1>3. CASE found # {}
  <2>1. \E i \in found : First(i)
    <3> HIDE DEF IsColon
    <3>1. found \in SUBSET Nat
      OBVIOUS
    <3> HIDE DEF found
    <3>2. QED
      BY <1>3, <3>1, Least
  <2>2. (CHOOSE i \in found : First(i)) \in found /\ First(CHOOSE i \in found : First(i))
    <3> HIDE DEF found, First
    <3>1. QED
      BY <2>1
  <2>3. Colon(text) \in found /\ First(Colon(text))
    BY <1>1, <1>3, <2>2
  <2> HIDE DEF IsColon
  <2>4. QED
    BY <2>3
<1>4. QED
  BY <1>2, <1>3

\* The words of one text are the first words of another.
Begins(text, other) ==
  /\ Len(text) \in Nat /\ Len(other) \in Nat /\ Len(text) <= Len(other)
  /\ \A i \in 1..Len(text) : other[i] = text[i]

\* A colon in a text is the colon of every longer one.
LEMMA SameColon ==
  ASSUME NEW text, NEW other, Begins(text, other), Colon(text) # 0
  PROVE  Colon(other) = Colon(text)
<1>1. \A i \in 1..Len(text) : IsColon(other, i) <=> IsColon(text, i)
  BY DEF Begins, IsColon
<1> DEFINE c == Colon(text)
           o == Colon(other)
<1>2. c \in 1..Len(text) /\ IsColon(text, c) /\ \A i \in 1..(c - 1) : ~ IsColon(text, i)
  BY ColonIsFirst DEF Begins
<1>3. \/ o = 0 /\ \A i \in 1..Len(other) : ~ IsColon(other, i)
      \/ /\ o \in 1..Len(other) /\ IsColon(other, o)
         /\ \A i \in 1..(o - 1) : ~ IsColon(other, i)
  BY ColonIsFirst DEF Begins
<1> HIDE DEF c, o
<1>4. c \in 1..Len(other) /\ IsColon(other, c)
  BY <1>1, <1>2 DEF Begins
<1>5. o \in 1..c /\ IsColon(other, o)
  BY <1>2, <1>3, <1>4 DEF Begins
<1>6. o = c
  BY <1>1, <1>2, <1>5 DEF Begins
<1>7. QED
  BY <1>6 DEF c, o

\* There is a first place that holds no word of a class.
LEMMA BeyondFound ==
  ASSUME NEW text, Len(text) \in Nat, NEW from \in 1..(Len(text) + 1), NEW class
  PROVE  LET b == Beyond(text, from, class)
         IN  /\ b \in from..(Len(text) + 1)
             /\ b > Len(text) \/ text[b] \notin class
             /\ \A j \in from..(b - 1) : text[j] \in class
<1> DEFINE Ends(i) == i > Len(text) \/ text[i] \notin class
           Inside(i) == \A j \in from..(i - 1) : text[j] \in class
           E == {i \in from..(Len(text) + 1) : Ends(i)}
<1>1. E \in SUBSET Nat /\ Len(text) + 1 \in E
  OBVIOUS
<1>2. PICK i \in E : \A j \in E : i <= j
  <2> HIDE DEF E
  <2>1. QED
    BY <1>1, Least
<1>3. i \in from..(Len(text) + 1) /\ Ends(i) /\ Inside(i)
  BY <1>2
<1>4. Beyond(text, from, class) =
        CHOOSE k \in from..(Len(text) + 1) : Ends(k) /\ Inside(k)
  BY DEF Beyond
<1>5. Beyond(text, from, class) \in from..(Len(text) + 1)
      /\ Ends(Beyond(text, from, class)) /\ Inside(Beyond(text, from, class))
  <2> HIDE DEF Ends, Inside
  <2>1. QED
    BY <1>3, <1>4
<1>6. QED
  BY <1>5

\* It is the same in every longer text, when it comes before the end.
LEMMA SameBeyond ==
  ASSUME NEW text, NEW other, Begins(text, other), NEW from \in 1..Len(text),
         NEW class, \E i \in from..Len(text) : text[i] \notin class
  PROVE  /\ Beyond(text, from, class) \in from..Len(text)
         /\ Beyond(other, from, class) = Beyond(text, from, class)
<1> DEFINE b == Beyond(text, from, class)
           o == Beyond(other, from, class)
<1>1. /\ b \in from..(Len(text) + 1)
      /\ b > Len(text) \/ text[b] \notin class
      /\ \A j \in from..(b - 1) : text[j] \in class
  BY BeyondFound DEF Begins
<1>2. /\ o \in from..(Len(other) + 1)
      /\ o > Len(other) \/ other[o] \notin class
      /\ \A j \in from..(o - 1) : other[j] \in class
  BY BeyondFound DEF Begins
<1> HIDE DEF b, o
<1>3. b \in from..Len(text) /\ text[b] \notin class
  BY <1>1 DEF Begins
<1>4. ~ (o < b)
  <2>1. o < b => o \in from..(b - 1) /\ o <= Len(text) /\ other[o] = text[o]
    BY <1>2, <1>3 DEF Begins
  <2>2. QED
    BY <1>1, <1>2, <1>3, <2>1 DEF Begins
<1>5. ~ (b < o)
  <2>1. b < o => b \in from..(o - 1) /\ other[b] = text[b]
    BY <1>2, <1>3 DEF Begins
  <2>2. QED
    BY <1>2, <1>3, <2>1
<1>6. o = b
  BY <1>2, <1>3, <1>4, <1>5
<1>7. QED
  BY <1>3, <1>6 DEF b, o

\* What Store takes for the value is a natural number, whatever the text.
LEMMA NumberAfterIsNat ==
  ASSUME NEW text, Len(text) \in Nat, NEW at \in 1..Len(text)
  PROVE  NumberAfter(text, at) \in Nat
<1> DEFINE start == Beyond(text, at + 1, Space)
           last == Beyond(text, start, Digit) - 1
<1>1. start \in 1..(Len(text) + 1)
  BY BeyondFound
<1> HIDE DEF start
<1>2. last \in Int /\ \A j \in start..last : text[j] \in Digit
  BY <1>1, BeyondFound
<1>3. SubSeq(text, start, last) \in Seq(Digit)
  <2> HIDE DEF last
  <2>1. QED
    BY <1>1, <1>2, SubSeqProperties
<1>4. QED
  BY <1>3, NumberIsNat DEF NumberAfter, start

\* A number that begins in a text is over before the text is.
LEMMA SameNumber ==
  ASSUME NEW text, NEW other, Begins(text, other),
         NEW at \in 1..(Len(text) - 1),
         \E i \in (at + 1)..Len(text) : text[i] \notin Space,
         text[Len(text)] \notin Digit
  PROVE  NumberAfter(other, at) = NumberAfter(text, at)
<1> DEFINE start == Beyond(text, at + 1, Space)
           last == Beyond(text, start, Digit) - 1
<1>1. at + 1 \in 1..Len(text) /\ Len(text) \in Nat
  BY DEF Begins
<1>2. start \in 1..Len(text) /\ Beyond(other, at + 1, Space) = start
  BY <1>1, SameBeyond
<1> HIDE DEF start
<1>3. last < Len(text) /\ Beyond(other, start, Digit) - 1 = last
  BY <1>1, <1>2, SameBeyond
<1> HIDE DEF last
<1>4. last \in Int
  BY <1>1, <1>2, BeyondFound DEF last
<1>5. SubSeq(other, start, last) = SubSeq(text, start, last)
  BY <1>2, <1>3, <1>4 DEF Begins
<1>6. QED
  BY <1>2, <1>3, <1>5 DEF NumberAfter, start, last

-----------------------------------------------------------------------------
\* A text that parse_and_set_pid executes.
Valid(text) == /\ Colon(text) # 0 /\ Colon(text) - 1 < NameSize
               /\ Recognised(NameBefore(text, Colon(text)))

\* Parsing a complete command and parsing the buffer it begins come to the same.
LEMMA SameParse ==
  ASSUME NEW text, NEW other, Begins(text, other), Complete(text),
         Len(text) > 0, text[Len(text)] = "nl"
  PROVE  /\ Valid(other) <=> Valid(text)
         /\ Colon(text) \in 1..Len(text) /\ Colon(other) = Colon(text)
         /\ NameBefore(other, Colon(text)) = NameBefore(text, Colon(text))
         /\ NumberAfter(other, Colon(text)) = NumberAfter(text, Colon(text))
<1> DEFINE at == Colon(text)
<1>1. at \in 1..Len(text) /\ text[at] = ":" /\ Colon(other) = at
  BY ColonIsFirst, SameColon DEF Begins, IsColon, Complete
<1>2. at \in 1..(Len(text) - 1) /\ text[Len(text)] \notin Digit
  BY <1>1 DEF Begins, Digit, Digits, Range
<1>3. NumberAfter(other, at) = NumberAfter(text, at)
  BY <1>2, SameNumber DEF Complete
<1>4. NameBefore(other, at) = NameBefore(text, at)
  BY <1>1 DEF NameBefore, Begins
<1>5. QED
  BY <1>1, <1>3, <1>4 DEF Valid

-----------------------------------------------------------------------------
(***************************************************************************)
(* Parameters and requests.                                                *)
(***************************************************************************)

\* Assign, SetFlag and Applied return settings and flags.
LEMMA AssignType ==
  ASSUME NEW p \in Settings, NEW n, Recognised(n), NEW value \in Nat
  PROVE  Assign(p, n, value) \in Settings
BY DEF Settings, Assign, Recognised, Group, Groups

\* (see AssignType)
LEMMA SetFlagType ==
  ASSUME NEW f \in Flags, NEW n, Recognised(n), NEW value \in Nat
  PROVE  SetFlag(f, n, value) \in Flags
<1>1. Flag(value) \in 0..255
  BY DEF Flag, LONG_MAX
<1>2. QED
  BY <1>1 DEF Flags, SetFlag, Recognised, Group, Groups

\* (see AssignType)
LEMMA AppliedType ==
  ASSUME NEW p \in Settings, NEW f, NEW d \in Settings
  PROVE  Applied(p, f, d) \in Settings
BY DEF Settings, Applied

\* Only which flags are 0 matters to Applied.
LEMMA AppliedByRequests ==
  ASSUME NEW f, NEW h, SameRequests(f, h), NEW p, NEW d
  PROVE  Applied(p, f, d) = Applied(p, h, d)
BY DEF SameRequests, Applied

\* Without a request the controllers keep what they have.
LEMMA NothingRequested ==
  ASSUME NEW f, SameRequests(f, NoRequest), NEW p, NEW d \in Settings
  PROVE  Applied(p, f, d) = d
<1>1. \A g \in Groups, s \in SetKeys : f[g][s] # 0
  BY DEF SameRequests, NoRequest
<1>2. QED
  BY <1>1 DEF Applied, Settings

\* A command adds the same request to flags that request the same.
LEMMA SetFlagRequests ==
  ASSUME NEW f \in Flags, NEW h \in Flags, SameRequests(f, h),
         NEW n, Recognised(n), NEW value \in Nat
  PROVE  SameRequests(SetFlag(f, n, value), SetFlag(h, n, value))
BY DEF SameRequests, SetFlag, Flags
-----------------------------------------------------------------------------
(***************************************************************************)
(* The invariant.                                                          *)
(***************************************************************************)

\* A command that is sent and not answered begins the buffer.
LEMMA CommandInBuffer ==
  ASSUME TypeOK, LineInv, ~answered, sent = Len(cmd)
  PROVE  /\ Begins(cmd, uart1_rx_buffer)
         /\ Len(cmd) > 0 /\ cmd[Len(cmd)] = "nl"
<1>1. cmd \in Seq(Words) /\ Len(cmd) \in 1..(BufferSize - 1) /\ Last(cmd) = "nl"
  BY HostAssumption DEF LineInv
<1>2. Len(uart1_rx_buffer) = BufferSize
  BY HostAssumption DEF TypeOK
<1>3. QED
  BY <1>1, <1>2, HostAssumption DEF LineInv, Begins, Last

\* While main() parses, the buffer means what the complete command means.
LEMMA MeaningOfBuffer ==
  ASSUME IInv, Complete(cmd), pc \in {"colon", "name", "store", "answer"}, NEW p, NEW f
  PROVE  Meaning(cmd, p, f) =
           LET at == Colon(uart1_rx_buffer)
               n == NameBefore(uart1_rx_buffer, at)
           IN  IF Valid(uart1_rx_buffer)
               THEN <<Assign(p, n, NumberAfter(uart1_rx_buffer, at)),
                      SetFlag(f, n, NumberAfter(uart1_rx_buffer, at))>>
               ELSE <<p, f>>
<1>1. ~answered /\ sent = Len(cmd)
  BY DEF IInv, FlagInv
<1>2. Begins(cmd, uart1_rx_buffer) /\ Len(cmd) > 0 /\ cmd[Len(cmd)] = "nl"
  BY <1>1, CommandInBuffer DEF IInv
<1>3. CASE Valid(cmd)
  BY <1>2, <1>3, SameParse DEF Meaning, Valid
<1>4. CASE ~ Valid(cmd)
  BY <1>2, <1>4, SameParse DEF Meaning, Valid
<1>5. QED
  BY <1>3, <1>4

\* The invariant holds when main() enters its loop, ...
LEMMA InitInv == Init => IInv
<1> SUFFICES ASSUME Init PROVE IInv
  OBVIOUS
<1> USE HostAssumption
<1>1. Defaults \in [Keys -> Nat]
  <2>1. Defaults \in [Keys -> {0, 1, 4, 30}]
    BY Zenon DEF Defaults
  <2>2. QED
    BY <2>1
<1>2. cmd = <<>> /\ Len(cmd) = 0 /\ sent = 0
  BY DEF Init
<1>3. pid_params \in Settings /\ drive \in Settings /\ set_flag = NoRequest
  BY <1>1 DEF Init, Settings, NoRequest
<1>4. NoRequest \in Flags
  BY DEF NoRequest, Flags
<1>5. TypeOK
  <2>1. {answered, idle, rx1_flag} \subseteq BOOLEAN
    BY DEF Init
  <2>2. uart1_rx_buffer \in [1..BufferSize -> Words \cup {nul}] /\ pos \in 1..BufferSize
        /\ colon \in 0..BufferSize /\ Len(name) < NameSize
    BY DEF Init
  <2>3. cmd \in Commands \cup {<<>>} /\ sent \in 0..Len(cmd)
    BY <1>2
  <2>4. pc \in {"apply", "check", "colon", "name", "store", "answer", "reset"}
    BY DEF Init
  <2>5. QED
    BY <1>3, <1>4, <2>1, <2>2, <2>3, <2>4 DEF TypeOK, Settings, Flags
<1>6. LineInv
  BY <1>2 DEF Init, LineInv
<1>7. FlagInv /\ ParserInv
  BY DEF Init, FlagInv, ParserInv
<1>8. Applied(pid_params, set_flag, drive) = drive
  BY <1>3, NothingRequested DEF SameRequests
<1>9. ParamsInv
  BY <1>3, <1>8 DEF Init, ParamsInv
<1>10. QED
  BY <1>5, <1>6, <1>7, <1>9 DEF IInv
-----------------------------------------------------------------------------
\* What most steps of main() leave alone.
LEMMA LineUnchanged ==
  ASSUME LineInv, UNCHANGED <<line, idle, channel>>
  PROVE  LineInv'
BY DEF LineInv, line, channel

\* ... and every action keeps it.
LEMMA NextCommandStep == IInv /\ NextCommand => IInv'
<1> SUFFICES ASSUME IInv, NextCommand PROVE IInv'
  OBVIOUS
<1> USE DEF IInv, NextCommand
<1>1. cmd' \in Commands /\ Len(cmd') \in 1..(BufferSize - 1) /\ pos = 1
  BY HostAssumption DEF LineInv
<1>2. pc \notin {"colon", "name", "store", "answer"}
  BY DEF FlagInv
<1>3. TypeOK'
  <2>1. {answered, idle, rx1_flag}' \subseteq BOOLEAN
    BY DEF TypeOK
  <2>2. QED
    BY <1>1, <2>1, HostAssumption DEF TypeOK, channel, parser, params
<1>4. LineInv'
  BY <1>1 DEF LineInv, channel
<1>5. FlagInv'
  BY <1>2 DEF FlagInv
<1>6. ParserInv'
  BY DEF ParserInv, channel, parser
<1>7. ParamsInv'
  BY <1>2 DEF ParamsInv, params
<1>8. QED
  BY <1>3, <1>4, <1>5, <1>6, <1>7

\* A lost command is sent again only when nothing of it is under way.
LEMMA ResendStep == IInv /\ Resend => IInv'
<1> SUFFICES ASSUME IInv, Resend PROVE IInv'
  OBVIOUS
<1> USE DEF IInv, Resend
<1>1. cmd \in Commands /\ Len(cmd) \in 1..(BufferSize - 1) /\ pos = 1
  BY HostAssumption DEF LineInv
<1>2. TypeOK'
  <2>1. {answered, idle, rx1_flag}' \subseteq BOOLEAN
    BY DEF TypeOK
  <2>2. QED
    BY <1>1, <2>1 DEF TypeOK, channel, parser, params
<1>3. LineInv'
  BY <1>1 DEF LineInv, channel
<1>4. FlagInv' /\ ParserInv'
  BY DEF FlagInv, ParserInv, channel, parser
<1>5. ParamsInv'
  BY DEF ParamsInv, params
<1>6. QED
  BY <1>2, <1>3, <1>4, <1>5

\* Nothing is received while main() parses.
LEMMA ReceiveStep == IInv /\ Receive => IInv'
<1> SUFFICES ASSUME IInv, Receive PROVE IInv'
  OBVIOUS
<1> USE DEF IInv, Receive
<1>1. ~answered /\ ~idle /\ cmd \in Commands
  BY DEF LineInv, TypeOK
<1>2. cmd \in Seq(Words) /\ Len(cmd) \in 1..(BufferSize - 1)
  BY <1>1, HostAssumption
<1>3. sent \in Nat /\ sent' \in 1..Len(cmd) /\ pos = sent'
  BY <1>2 DEF TypeOK, LineInv
<1>4. pos \in 1..(BufferSize - 1) /\ pos' = pos + 1
  <2>1. BufferSize \in Nat \ {0} /\ pos \in 1..(BufferSize - 1)
    BY <1>2, <1>3, HostAssumption
  <2>2. pos % BufferSize = pos
    BY <2>1
  <2>3. QED
    BY <2>1, <2>2
<1>5. pc \notin {"colon", "name", "store", "answer"}
  BY <1>3 DEF FlagInv, TypeOK
<1>6. TypeOK'
  <2>1. {answered, idle, rx1_flag}' \subseteq BOOLEAN
    BY DEF TypeOK
  <2>2. cmd[sent'] \in Words
    BY <1>2, <1>3
  <2>3. uart1_rx_buffer' \in [1..BufferSize -> Words \cup {nul}]
    BY <2>2 DEF TypeOK
  <2>4. pos' \in 1..BufferSize /\ sent' \in 0..Len(cmd)
    BY <1>2, <1>3, <1>4, HostAssumption
  <2>5. QED
    BY <2>1, <2>3, <2>4 DEF TypeOK, parser, params
<1>7. LineInv'
  <2>1. \A i \in 1..sent' : uart1_rx_buffer'[i] = cmd[i]
    BY <1>2, <1>3, <1>4, HostAssumption DEF LineInv, TypeOK
  <2>2. idle' \/ sent' < Len(cmd)
    <3>1. CASE sent' = Len(cmd)
      BY <3>1, Zenon
    <3>2. CASE sent' # Len(cmd)
      BY <1>2, <1>3, <3>2
    <3>3. QED
      BY <3>1, <3>2
  <2>3. pos' = sent' + 1
    BY <1>3, <1>4
  <2>4. QED
    BY <1>1, <2>1, <2>2, <2>3 DEF LineInv
<1>8. FlagInv'
  BY <1>3, <1>5 DEF FlagInv, TypeOK
<1>9. ParserInv'
  BY <1>5 DEF ParserInv
<1>10. ParamsInv'
  BY <1>5 DEF ParamsInv, params
<1>11. QED
  BY <1>6, <1>7, <1>8, <1>9, <1>10

\* The idle line announces a complete command that has no answer.
LEMMA IdleStep == IInv /\ USART1_IRQHandler => IInv'
<1> SUFFICES ASSUME IInv, USART1_IRQHandler PROVE IInv'
  OBVIOUS
<1> USE DEF IInv, USART1_IRQHandler
<1>1. ~answered /\ sent = Len(cmd) /\ cmd \in Commands
  BY DEF LineInv
<1>2. pc \notin {"colon", "name", "store", "answer"}
  BY DEF FlagInv
<1>3. TypeOK'
  <2>1. {answered, idle, rx1_flag}' \subseteq BOOLEAN
    BY DEF TypeOK, line
  <2>2. pos' \in 1..BufferSize
    BY HostAssumption
  <2>3. QED
    BY <2>1, <2>2 DEF TypeOK, line, parser, params
<1>4. LineInv'
  BY <1>1, HostAssumption DEF LineInv, line
<1>5. FlagInv'
  BY <1>1, <1>2 DEF FlagInv, line
<1>6. ParserInv'
  BY <1>2 DEF ParserInv
<1>7. ParamsInv'
  BY <1>2 DEF ParamsInv, params
<1>8. QED
  BY <1>3, <1>4, <1>5, <1>6, <1>7
\* Requested sets go to the controllers, and their flags are done with.
LEMMA ApplyStep == IInv /\ ApplySettings => IInv'
<1> SUFFICES ASSUME IInv, ApplySettings PROVE IInv'
  OBVIOUS
<1> USE DEF IInv, ApplySettings, Main
<1>1. pid_params \in Settings /\ set_flag \in Flags /\ drive \in Settings
  BY DEF TypeOK, Settings, Flags
<1>2. set_flag' \in Flags /\ SameRequests(set_flag', NoRequest)
  BY <1>1 DEF Flags, SameRequests, NoRequest
<1>3. drive' \in Settings /\ drive' = expected[2]
  BY <1>1, AppliedType DEF ParamsInv
<1>4. TypeOK'
  BY <1>2, <1>3 DEF TypeOK, Settings, Flags, line, channel, parser
<1>5. LineInv'
  BY LineUnchanged
<1>6. FlagInv' /\ ParserInv'
  BY DEF FlagInv, ParserInv, line
<1>7. ParamsInv'
  BY <1>2, <1>3 DEF ParamsInv
<1>8. QED
  BY <1>4, <1>5, <1>6, <1>7

\* A command is parsed, or there is none.
LEMMA CheckStep == IInv /\ CheckFlag => IInv'
<1> SUFFICES ASSUME IInv, CheckFlag PROVE IInv'
  OBVIOUS
<1> USE DEF IInv, CheckFlag, Main
<1>1. TypeOK'
  BY DEF TypeOK, line, channel, parser, params
<1>2. LineInv'
  BY LineUnchanged
<1>3. FlagInv' /\ ParserInv'
  BY DEF FlagInv, ParserInv, line
<1>4. Applied(pid_params, set_flag, drive) = drive
  BY NothingRequested DEF ParamsInv, TypeOK, Settings
<1>5. ParamsInv'
  BY <1>4 DEF ParamsInv, params
<1>6. QED
  BY <1>1, <1>2, <1>3, <1>5

\* A text that is rejected for its colon means nothing.
LEMMA FindStep == IInv /\ FindColon => IInv'
<1> SUFFICES ASSUME IInv, FindColon PROVE IInv'
  OBVIOUS
<1> USE DEF IInv, FindColon, Main
<1>1. Colon(uart1_rx_buffer) \in 0..BufferSize
  BY ColonIsFirst, HostAssumption DEF TypeOK
<1>2. TypeOK'
  BY <1>1 DEF TypeOK, line, channel, params
<1>3. LineInv'
  BY LineUnchanged
<1>4. FlagInv'
  BY DEF FlagInv, line
<1>5. ParserInv'
  BY DEF ParserInv, channel
<1>6. ParamsInv'
  <2>1. CASE pc' = "name"
    BY <2>1 DEF ParamsInv, params
  <2>2. CASE pc' = "answer"
    <3>1. Complete(cmd) =>
            Meaning(cmd, expected[1], NoRequest) = <<expected[1], NoRequest>>
      BY <2>2, MeaningOfBuffer DEF Valid
    <3>2. QED
      BY <2>2, <3>1 DEF ParamsInv, params, Meaning, Complete, line
  <2>3. QED
    BY <2>1, <2>2
<1>7. QED
  BY <1>2, <1>3, <1>4, <1>5, <1>6

\* A name that is not recognised means nothing.
LEMMA CopyStep == IInv /\ CopyName => IInv'
<1> SUFFICES ASSUME IInv, CopyName PROVE IInv'
  OBVIOUS
<1> USE DEF IInv, CopyName, Main
<1>1. colon = Colon(uart1_rx_buffer) /\ colon \in 1..BufferSize /\ colon - 1 < NameSize
  BY DEF ParserInv, TypeOK
<1>2. TypeOK'
  <2>1. Len(name') < NameSize
    BY <1>1 DEF NameBefore
  <2>2. QED
    BY <2>1 DEF TypeOK, line, channel, params
<1>3. LineInv'
  BY LineUnchanged
<1>4. FlagInv'
  BY DEF FlagInv, line
<1>5. ParserInv'
  BY DEF ParserInv, channel
<1>6. ParamsInv'
  <2>1. CASE pc' = "store"
    BY <2>1 DEF ParamsInv, params
  <2>2. CASE pc' = "answer"
    <3>1. Complete(cmd) =>
            Meaning(cmd, expected[1], NoRequest) = <<expected[1], NoRequest>>
      BY <1>1, <2>2, MeaningOfBuffer DEF Valid
    <3>2. QED
      BY <2>2, <3>1 DEF ParamsInv, params, Meaning, Complete, line
  <2>3. QED
    BY <2>1, <2>2
<1>7. QED
  BY <1>2, <1>3, <1>4, <1>5, <1>6

\* The value stored is the one the command means.
LEMMA StoreStep == IInv /\ Store => IInv'
<1> SUFFICES ASSUME IInv, Store PROVE IInv'
  OBVIOUS
<1> USE DEF IInv, Store, Main
<1> DEFINE value == NumberAfter(uart1_rx_buffer, colon)
<1>1. /\ colon = Colon(uart1_rx_buffer) /\ colon \in 1..BufferSize
      /\ name = NameBefore(uart1_rx_buffer, colon)
      /\ Recognised(name) /\ Valid(uart1_rx_buffer)
  BY DEF ParserInv, TypeOK, Valid
<1>2. value \in Nat
  <2>1. Len(uart1_rx_buffer) = BufferSize /\ BufferSize \in Nat
    BY HostAssumption DEF TypeOK
  <2>2. QED
    BY <1>1, <2>1, NumberAfterIsNat
<1>3. pid_params \in Settings /\ set_flag \in Flags /\ NoRequest \in Flags
  BY DEF TypeOK, Settings, Flags, NoRequest
<1>4. pid_params' \in Settings /\ set_flag' \in Flags
  BY <1>1, <1>2, <1>3, AssignType, SetFlagType
<1>5. TypeOK'
  BY <1>4 DEF TypeOK, Settings, Flags, line, channel, parser
<1>6. LineInv'
  BY LineUnchanged
<1>7. FlagInv' /\ ParserInv'
  BY DEF FlagInv, ParserInv, line
<1>8. ParamsInv'
  <2>1. Complete(cmd) =>
          Meaning(cmd, expected[1], NoRequest) =
            <<Assign(expected[1], name, value), SetFlag(NoRequest, name, value)>>
    BY <1>1, MeaningOfBuffer
  <2>2. Meaning(cmd, expected[1], NoRequest)' = Meaning(cmd, expected[1], NoRequest)
        /\ (Complete(cmd)' <=> Complete(cmd))
    BY DEF Meaning, Complete, line
  <2>3. pid_params' = Assign(expected[1], name, value)
    BY DEF ParamsInv
  <2>4. SameRequests(set_flag', SetFlag(NoRequest, name, value))
    BY <1>1, <1>2, <1>3, SetFlagRequests DEF ParamsInv
  <2>5. QED
    BY <2>1, <2>2, <2>3, <2>4 DEF ParamsInv
<1>9. QED
  BY <1>5, <1>6, <1>7, <1>8

\* The answer comes after what it confirms.
LEMMA AnswerStep == IInv /\ Answer => IInv'
<1> SUFFICES ASSUME IInv, Answer PROVE IInv'
  OBVIOUS
<1> USE DEF IInv, Answer, Main
<1> DEFINE meant == Meaning(cmd, expected[1], NoRequest)
<1>1. sent = Len(cmd) /\ ~idle
  BY DEF FlagInv
<1>2. TypeOK'
  <2>1. {answered, idle, rx1_flag}' \subseteq BOOLEAN
    BY DEF TypeOK
  <2>2. QED
    BY <2>1 DEF TypeOK, channel, parser, params
<1>3. LineInv'
  BY <1>1 DEF LineInv, channel
<1>4. FlagInv' /\ ParserInv'
  BY DEF FlagInv, ParserInv
<1>5. ParamsInv'
  <2>1. Complete(cmd) =>
          expected' = <<meant[1], Applied(meant[1], meant[2], expected[2])>>
    BY DEF Effect
  <2>2. /\ Complete(cmd) => pid_params = meant[1] /\ SameRequests(set_flag, meant[2])
        /\ drive = expected[2]
    BY DEF ParamsInv
  <2> HIDE DEF meant
  <2>3. expected' = Result
    BY <2>1, <2>2, AppliedByRequests DEF Result
  <2>4. pid_params \in Settings /\ Applied(pid_params, set_flag, drive) \in Settings
    BY AppliedType DEF TypeOK, Settings
  <2>5. QED
    BY <2>3, <2>4 DEF ParamsInv, params, Result
<1>6. QED
  BY <1>2, <1>3, <1>4, <1>5

\* The flag may be reset for a command that has come since: that one is lost.
LEMMA ResetStep == IInv /\ ResetFlag => IInv'
<1> SUFFICES ASSUME IInv, ResetFlag PROVE IInv'
  OBVIOUS
<1> USE DEF IInv, ResetFlag, Main
<1>1. TypeOK'
  <2>1. {answered, idle, rx1_flag}' \subseteq BOOLEAN
    BY DEF TypeOK, line
  <2>2. QED
    BY <2>1 DEF TypeOK, line, channel, parser, params
<1>2. LineInv'
  BY LineUnchanged
<1>3. FlagInv' /\ ParserInv'
  BY DEF FlagInv, ParserInv
<1>4. ParamsInv'
  BY DEF ParamsInv, params
<1>5. QED
  BY <1>1, <1>2, <1>3, <1>4

\* So the invariant is inductive ...
LEMMA Inductive == IInv /\ [Next]_vars => IInv'
<1> SUFFICES ASSUME IInv, [Next]_vars PROVE IInv'
  OBVIOUS
<1>1. CASE UNCHANGED vars
  BY <1>1 DEF IInv, TypeOK, LineInv, FlagInv, ParserInv, ParamsInv, Meaning, Complete, vars,
              line, channel, parser, params
<1>2. CASE Next
  BY <1>2, NextCommandStep, ResendStep, ReceiveStep, IdleStep, ApplyStep, CheckStep,
     FindStep, CopyStep, StoreStep, AnswerStep, ResetStep DEF Next, MainStep
<1>3. QED
  BY <1>1, <1>2

\* ... and holds always.
LEMMA Invariant == Spec => []IInv
<1>1. QED
  BY InitInv, Inductive, PTL DEF Spec

-----------------------------------------------------------------------------
\* All variables have their types: no value, index or name leaves its range.
THEOREM TypeCorrect == Spec => []TypeOK
<1>1. IInv => TypeOK
  BY DEF IInv
<1>2. QED
  BY <1>1, Invariant, PTL

\* What the parameters of main() hold is what the answered commands have made of
\* the compiled ones: every command with a colon and something behind it what it
\* makes when it is parsed alone, whatever the buffer held behind it.
THEOREM CommandsExecuteAsSent == Spec => []ExecutedAsSent
<1>1. IInv => ExecutedAsSent
  BY DEF IInv, ParamsInv, ExecutedAsSent
<1>2. QED
  BY <1>1, Invariant, PTL

\* After each pass of main() over the set flags the controllers have the sets
\* that were asked for, and no parameter that was not.
THEOREM SetsReleasedAsAsked == Spec => []ReleasedAsAsked
<1>1. IInv => ReleasedAsAsked
  BY DEF IInv, ParamsInv, ReleasedAsAsked
<1>2. QED
  BY <1>1, Invariant, PTL
-----------------------------------------------------------------------------
\* The history variable says what the answered commands have made.
LEMMA MadeIsExpected == IInv => Made = expected
<1> SUFFICES ASSUME IInv PROVE Made = expected
  OBVIOUS
<1>1. expected = <<expected[1], expected[2]>>
  BY DEF IInv, ParamsInv
<1>2. CASE pc = "answer"
  BY <1>2 DEF Made
<1>3. CASE pc \in {"reset", "apply"}
  <2>1. pid_params = expected[1]
        /\ Applied(pid_params, set_flag, drive) = expected[2]
    BY <1>3 DEF IInv, ParamsInv
  <2>2. QED
    BY <1>1, <1>3, <2>1 DEF Made, Result
<1>4. CASE pc \in {"check", "colon", "name", "store"}
  <2>1. SameRequests(set_flag, NoRequest) /\ drive \in Settings
    BY <1>4 DEF IInv, ParamsInv, TypeOK, Settings
  <2>2. Applied(pid_params, set_flag, drive) = drive
    BY <2>1, NothingRequested
  <2>3. pid_params = expected[1] /\ drive = expected[2]
    BY <1>4 DEF IInv, ParamsInv
  <2>4. QED
    BY <1>1, <1>4, <2>2, <2>3 DEF Made, Result
<1>5. QED
  BY <1>2, <1>3, <1>4 DEF IInv, TypeOK

\* It says so after every step, too.
LEMMA MadeStaysExpected == IInv /\ [Next]_vars => (Made = expected)'
BY Inductive, MadeIsExpected, PTL

\* Sending, answering and applying settings are the steps of the service; the
\* others do not show.
LEMMA ServiceStep ==
  ASSUME IInv, [Next]_vars
  PROVE  [Service!Next]_(Service!serviceVars)
<1>1. Made = expected /\ Made' = expected'
  BY MadeIsExpected, MadeStaysExpected
<1> USE DEF Service!Next, Service!serviceVars
<1>2. CASE NextCommand
  BY <1>1, <1>2 DEF NextCommand, params, Service!Send
<1>3. CASE ApplySettings
  <2>1. drive' = expected[2]
    BY <1>3 DEF ApplySettings, Main, IInv, ParamsInv
  <2>2. QED
    BY <1>1, <1>3, <2>1 DEF ApplySettings, line, Service!HandOver
<1>4. CASE Answer
  <2>1. ~answered /\ drive = expected[2]
    BY <1>4 DEF Answer, Main, IInv, FlagInv, ParamsInv
  <2>2. QED
    BY <1>1, <1>4, <2>1 DEF Answer, params, Service!Execute, Executes
<1>5. CASE UNCHANGED <<cmd, answered, expected, drive>>
  BY <1>1, <1>5
<1>6. QED
  BY <1>2, <1>3, <1>4, <1>5
  DEF Next, MainStep, Resend, Receive, USART1_IRQHandler, CheckFlag, FindColon,
      CopyName, Store, ResetFlag, vars, line, params

\* Receiving, parsing, storing and handing over implement the service the host
\* relies on: complete commands take their own effect, each at one moment.
THEOREM ImplementsService == Spec => ServiceRefinement
<1>1. Init => Service!Init
  <2> SUFFICES ASSUME Init PROVE Service!Init
    OBVIOUS
  <2>1. Made = expected
    BY InitInv, MadeIsExpected
  <2>2. QED
    BY <2>1 DEF Init, Service!Init
<1>2. IInv /\ [Next]_vars => [Service!Next]_(Service!serviceVars)
  BY ServiceStep
<1>3. QED
  BY <1>1, <1>2, Invariant, PTL DEF Spec, ServiceRefinement, Service!Spec
=============================================================================

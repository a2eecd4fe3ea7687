-------------------------- MODULE SmokeLaneProofs ---------------------------
(***************************************************************************)
(* What the verdict of the smoke test says of the guest, for every command *)
(* manifest, every behaviour of its commands, sentinels as whole lines of  *)
(* their output included, and every amount of noise on the console.        *)
(***************************************************************************)
EXTENDS SmokeLane, SerialBootProofs

-----------------------------------------------------------------------------
(* The guest script. *)

NCommands == Len(Commands)
Stride == Height + 2

(* The lines of the c-th command in the script, and the script's last. *)
BeginOf(c) == Stride * (c - 1) + 2
OutOf(c, k) == BeginOf(c) + k
EndOf(c) == BeginOf(c) + Height + 1
LastLine == Stride * NCommands + 2

LEMMA CommandsType ==
  /\ NCommands \in Nat /\ DOMAIN Commands = 1 .. NCommands
  /\ \A i, j \in DOMAIN Commands : Commands[i].id = Commands[j].id => i = j
  BY CommandsAssumption, LenProperties DEF NCommands

LEMMA Sizes == Height \in Nat /\ Height >= 1 /\ Stride \in Nat \ {0} /\ Stride = Height + 2
  BY OutcomesAssumption DEF Stride

(* The commands follow each other. *)
LEMMA Places ==
  /\ LastLine \in Nat /\ LastLine >= 2
  /\ \A c \in DOMAIN Commands :
       BeginOf(c) \in Nat /\ BeginOf(c) >= 2 /\ EndOf(c) \in Nat /\ EndOf(c) < LastLine
  /\ \A c, e \in DOMAIN Commands : c < e => EndOf(c) < BeginOf(e)
<1> DEFINE n == NCommands
<1>1. n \in Nat /\ DOMAIN Commands = 1 .. n
  BY CommandsType
<1>2. LastLine \in Nat /\ LastLine >= 2
  <2>1. Stride * n >= 0 /\ Stride * n \in Nat
    BY <1>1, Sizes
  <2> QED
    BY <2>1 DEF LastLine
<1>3. ASSUME NEW c \in 1 .. n
      PROVE  BeginOf(c) \in Nat /\ BeginOf(c) >= 2 /\ EndOf(c) \in Nat /\ EndOf(c) < LastLine
  <2>1. Stride * (c - 1) \in Nat
    BY Sizes
  <2>2. Stride * (n - c) >= 0
    BY <1>1, Sizes
  <2>3. Stride * n = Stride * (n - c) + Stride * (c - 1) + Stride
    BY <1>1, Sizes
  <2>4. Stride * (n - c) \in Int /\ Stride * n \in Int
    BY <1>1, Sizes
  <2> QED
    BY <2>1, <2>2, <2>3, <2>4, Sizes DEF BeginOf, EndOf, LastLine
<1>4. ASSUME NEW c \in 1 .. n, NEW e \in 1 .. n, c < e
      PROVE  EndOf(c) < BeginOf(e)
  <2>1. Stride * (e - c - 1) >= 0
    BY <1>1, <1>4, Sizes
  <2>2. Stride * (e - 1) = Stride * (e - c - 1) + Stride * (c - 1) + Stride
    BY <1>1, Sizes
  <2>3. Stride * (e - c - 1) \in Int /\ Stride * (e - 1) \in Int /\ Stride * (c - 1) \in Int
    BY <1>1, Sizes
  <2> QED
    BY <2>1, <2>2, <2>3, Sizes DEF BeginOf, EndOf
<1> QED
  BY <1>1, <1>2, <1>3, <1>4

(* Every line but the first and the last is one of a command. *)
LEMMA PlaceOfLine ==
  ASSUME NEW i \in 2 .. LastLine - 1
  PROVE  \E c \in DOMAIN Commands, k \in 0 .. Height + 1 : i = BeginOf(c) + k
<1> DEFINE x == i - 2
           c == (x \div Stride) + 1
           k == x % Stride
<1>1. NCommands \in Nat /\ DOMAIN Commands = 1 .. NCommands
  BY CommandsType
<1>2. LastLine \in Nat /\ Stride * NCommands \in Nat
  BY <1>1, Sizes, Places
<1>3. x \in Nat /\ x < Stride * NCommands /\ i = x + 2
  BY <1>2 DEF LastLine
<1> HIDE DEF x
<1>4. x = Stride * (x \div Stride) + k /\ k \in 0 .. Stride - 1 /\ x \div Stride \in Nat
  BY <1>3, Sizes
<1>5. x \div Stride < NCommands
  <2> DEFINE y == x \div Stride
  <2> HIDE DEF y
  <2> SUFFICES ASSUME y >= NCommands
               PROVE  FALSE
    BY <1>1, <1>4 DEF y
  <2>1. y \in Nat /\ x >= Stride * y
    <3>1. Stride * y \in Int /\ k \in Nat /\ x = Stride * y + k
      BY <1>4, Sizes DEF y
    <3> QED
      BY <1>3, <1>4, <3>1 DEF y
  <2>2. (y - NCommands) * Stride >= 0
    BY <1>1, <2>1, Sizes
  <2>3. Stride * y >= Stride * NCommands
    BY <1>1, <2>1, <2>2, Sizes
  <2>4. Stride * y \in Int
    BY <2>1, Sizes
  <2> QED
    BY <1>2, <1>3, <2>1, <2>3, <2>4
<1>6. c \in 1 .. NCommands /\ c - 1 = x \div Stride
  BY <1>1, <1>4, <1>5
<1>7. i = BeginOf(c) + k
  <2> DEFINE z == Stride * (x \div Stride)
  <2>1. z \in Nat /\ BeginOf(c) = z + 2
    BY <1>4, <1>6, Sizes DEF BeginOf
  <2>2. x = z + k
    BY <1>4
  <2> HIDE DEF z, k
  <2> QED
    BY <1>3, <1>4, <2>1, <2>2, Sizes
<1>8. k \in 0 .. Height + 1
  BY <1>4, Sizes
<1> QED
  BY <1>1, <1>6, <1>7, <1>8

AllOutcomes == UNION {Outcomes[Commands[c].id] : c \in DOMAIN Commands}

SmokeLines ==
  {MBegin, MEnd, Marker, Junk} \cup
  {CmdBegin(Commands[c].id) : c \in DOMAIN Commands} \cup
  {o.out[k] : o \in AllOutcomes, k \in 1 .. Height} \cup
  {CmdEnd(Commands[c].id, o.rc) : c \in DOMAIN Commands, o \in AllOutcomes}

(* The lines between the first and the last. *)
Middle(d) ==
  [i \in 1 .. (Height + 2) * Len(Commands) |->
     LET c == ((i - 1) \div (Height + 2)) + 1
         k == (i - 1) % (Height + 2)
     IN CASE k = 0 -> CmdBegin(Commands[c].id)
          [] k \in 1 .. Height -> d[c].out[k]
          [] OTHER -> CmdEnd(Commands[c].id, d[c].rc)]

LineOf(d, c, k) ==
  CASE k = 0 -> CmdBegin(Commands[c].id)
    [] k \in 1 .. Height -> d[c].out[k]
    [] OTHER -> CmdEnd(Commands[c].id, d[c].rc)

LEMMA MiddleLines ==
  ASSUME NEW d, NEW c \in DOMAIN Commands, NEW k \in 0 .. Height + 1
  PROVE  Middle(d)[BeginOf(c) - 1 + k] = LineOf(d, c, k)
<1> DEFINE i == BeginOf(c) - 1 + k
           q == c - 1
<1>1. c \in 1 .. NCommands /\ NCommands \in Nat /\ q \in Nat
  BY CommandsType
<1>2. i = q * Stride + k + 1
  BY <1>1, Sizes DEF BeginOf
<1>3. i \in 1 .. Stride * NCommands
  <2>1. BeginOf(c) \in Nat /\ BeginOf(c) >= 2 /\ EndOf(c) \in Nat /\ EndOf(c) < LastLine
    BY Places
  <2>2. Stride * NCommands \in Nat
    BY <1>1, Sizes
  <2> QED
    BY <2>1, <2>2, Sizes DEF EndOf, LastLine
<1>4. k \in 0 .. Stride - 1
  BY Sizes
<1>5. (q * Stride + k) \div Stride = q /\ (q * Stride + k) % Stride = k
  <2> HIDE DEF q
  <2> QED
    BY <1>1, <1>4, Sizes
<1>6. i - 1 = q * Stride + k
  <2> DEFINE z == q * Stride
  <2>1. z \in Nat
    BY <1>1, Sizes
  <2> HIDE DEF z
  <2>2. i = z + k + 1
    BY <1>2 DEF z
  <2>3. i - 1 = z + k
    BY <2>1, <2>2, <1>4, Sizes
  <2> QED
    BY <2>3 DEF z
<1>7. ((i - 1) \div Stride) + 1 = c /\ (i - 1) % Stride = k
  BY <1>1, <1>5, <1>6
<1> HIDE DEF i
<1>8. Middle(d)[i] = LineOf(d, ((i - 1) \div Stride) + 1, (i - 1) % Stride)
  BY <1>3 DEF Middle, LineOf, Stride, NCommands
<1>9. Middle(d)[i] = LineOf(d, c, k)
  BY <1>7, <1>8
<1> QED
  BY <1>9 DEF i

(* The script, line by line. *)
LEMMA ScriptLines ==
  ASSUME NEW d \in Behaviours
  PROVE  /\ SmokeScript(d) \in Seq(SmokeLines) /\ Len(SmokeScript(d)) = LastLine
         /\ SmokeScript(d)[1] = MBegin /\ SmokeScript(d)[LastLine] = MEnd
         /\ \A c \in DOMAIN Commands :
              /\ SmokeScript(d)[BeginOf(c)] = CmdBegin(Commands[c].id)
              /\ \A k \in 1 .. Height : SmokeScript(d)[OutOf(c, k)] = d[c].out[k]
              /\ SmokeScript(d)[EndOf(c)] = CmdEnd(Commands[c].id, d[c].rc)
<1> DEFINE n == Stride * NCommands
           s == SmokeScript(d)
<1>1. n \in Nat /\ LastLine = n + 2
  BY CommandsType, Sizes DEF LastLine
<1> HIDE DEF n
<1>2. \A c \in DOMAIN Commands : d[c] \in AllOutcomes
  BY DEF Behaviours, AllOutcomes
<1>3. Middle(d) \in [1 .. n -> SmokeLines]
  <2>1. ASSUME NEW i \in 1 .. n
        PROVE  Middle(d)[i] \in SmokeLines
    <3>1. i + 1 \in 2 .. LastLine - 1
      BY <1>1
    <3>2. PICK c \in DOMAIN Commands, k \in 0 .. Height + 1 : i + 1 = BeginOf(c) + k
      BY <3>1, PlaceOfLine
    <3>3. i = BeginOf(c) - 1 + k
      BY <3>2, Places, Sizes
    <3>4. Middle(d)[i] = LineOf(d, c, k)
      BY <3>3, MiddleLines
    <3>5. \/ LineOf(d, c, k) = CmdBegin(Commands[c].id)
          \/ k \in 1 .. Height /\ LineOf(d, c, k) = d[c].out[k]
          \/ LineOf(d, c, k) = CmdEnd(Commands[c].id, d[c].rc)
      BY Sizes DEF LineOf
    <3>6. CmdBegin(Commands[c].id) \in SmokeLines
      BY DEF SmokeLines
    <3>7. k \in 1 .. Height => d[c].out[k] \in SmokeLines
      BY <1>2 DEF SmokeLines
    <3>8. CmdEnd(Commands[c].id, d[c].rc) \in SmokeLines
      BY <1>2 DEF SmokeLines
    <3> QED
      BY <3>4, <3>5, <3>6, <3>7, <3>8
  <2>2. Middle(d) = [i \in 1 .. n |-> Middle(d)[i]]
    BY DEF Middle, NCommands, Stride, n
  <2> HIDE DEF Middle
  <2> QED
    BY <2>1, <2>2
<1>4. Middle(d) \in Seq(SmokeLines) /\ Len(Middle(d)) = n
  BY <1>1, <1>3
<1>5. <<MBegin>> \in Seq(SmokeLines) /\ <<MEnd>> \in Seq(SmokeLines)
      /\ Len(<<MBegin>>) = 1 /\ Len(<<MEnd>>) = 1 /\ <<MBegin>>[1] = MBegin /\ <<MEnd>>[1] = MEnd
  BY DEF SmokeLines
<1> DEFINE h == <<MBegin>> \o Middle(d)
<1>6. /\ h \in Seq(SmokeLines) /\ Len(h) = n + 1
      /\ h[1] = MBegin /\ \A i \in 1 .. n : h[i + 1] = Middle(d)[i]
  BY <1>1, <1>4, <1>5, ConcatProperties
<1>7. s = h \o <<MEnd>>
  BY DEF SmokeScript, Middle
<1> HIDE DEF h, s
<1>8. /\ s \in Seq(SmokeLines) /\ Len(s) = n + 2
      /\ s[n + 2] = MEnd /\ \A i \in 1 .. n + 1 : s[i] = h[i]
  <2>1. MEnd \in SmokeLines /\ s = Append(h, MEnd)
    BY <1>6, <1>7, AppendIsConcat DEF SmokeLines
  <2>2. /\ s \in Seq(SmokeLines) /\ Len(s) = Len(h) + 1
        /\ s[Len(h) + 1] = MEnd /\ \A i \in 1 .. Len(h) : s[i] = h[i]
    BY <1>6, <2>1, AppendProperties
  <2>3. Len(h) + 1 = n + 2
    BY <1>1, <1>6
  <2> QED
    BY <1>6, <2>2, <2>3
<1>9. s[1] = MBegin /\ \A i \in 1 .. n : s[i + 1] = Middle(d)[i]
  BY <1>1, <1>6, <1>8
<1>10. ASSUME NEW c \in DOMAIN Commands, NEW k \in 0 .. Height + 1
       PROVE  s[BeginOf(c) + k] = LineOf(d, c, k)
  <2>1. BeginOf(c) \in Nat /\ BeginOf(c) >= 2 /\ BeginOf(c) + Height + 1 < n + 2
    BY <1>1, Places DEF EndOf
  <2>2. BeginOf(c) - 1 + k \in 1 .. n /\ (BeginOf(c) - 1 + k) + 1 = BeginOf(c) + k
    BY <1>1, <2>1, Sizes
  <2> QED
    BY <1>9, <2>2, MiddleLines
<1>11. ASSUME NEW c \in DOMAIN Commands
       PROVE  /\ s[BeginOf(c)] = CmdBegin(Commands[c].id)
              /\ \A k \in 1 .. Height : s[OutOf(c, k)] = d[c].out[k]
              /\ s[EndOf(c)] = CmdEnd(Commands[c].id, d[c].rc)
  <2>1. BeginOf(c) \in Nat /\ BeginOf(c) + 0 = BeginOf(c)
    BY Places
  <2>2. 0 \in 0 .. Height + 1 /\ Height + 1 \in 0 .. Height + 1 /\ Height + 1 \notin 1 .. Height
        /\ Height + 1 # 0 /\ EndOf(c) = BeginOf(c) + (Height + 1)
        /\ \A k \in 1 .. Height : k \in 0 .. Height + 1 /\ k # 0
    BY <2>1, Sizes DEF EndOf
  <2>3. s[BeginOf(c)] = LineOf(d, c, 0)
    BY <1>10, <2>1, <2>2
  <2>4. s[EndOf(c)] = LineOf(d, c, Height + 1)
    BY <1>10, <2>2
  <2>5. ASSUME NEW k \in 1 .. Height
        PROVE  s[OutOf(c, k)] = d[c].out[k]
    <3>1. s[OutOf(c, k)] = LineOf(d, c, k)
      BY <1>10, <2>2 DEF OutOf
    <3> QED
      BY <2>2, <3>1 DEF LineOf
  <2> QED
    BY <2>2, <2>3, <2>4, <2>5 DEF LineOf
<1> QED
  BY <1>1, <1>8, <1>9, <1>11 DEF s

(* What a command prints are lines of output. *)
LEMMA OutKind ==
  ASSUME NEW d \in Behaviours, NEW c \in DOMAIN Commands, NEW k \in 1 .. Height
  PROVE  d[c].out[k].k = "out"
  BY OutcomesAssumption DEF Behaviours

(* What a line of the script is tells where it stands. *)
LEMMA ScriptKinds ==
  ASSUME NEW d \in Behaviours, NEW i \in DOMAIN SmokeScript(d)
  PROVE  LET line == SmokeScript(d)[i]
         IN /\ line \notin {Junk, Marker}
            /\ line.k \in {"mbegin", "mend", "begin", "out", "end"}
            /\ line.k = "mend" => i = LastLine
            /\ line.k = "begin" => \E c \in DOMAIN Commands : i = BeginOf(c) /\ line.id = Commands[c].id
            /\ line.k = "out" => \E c \in DOMAIN Commands, k \in 1 .. Height :
                                   i = OutOf(c, k) /\ line = d[c].out[k]
            /\ line.k = "end" => \E c \in DOMAIN Commands : i = EndOf(c) /\ line.id = Commands[c].id
<1> DEFINE s == SmokeScript(d)
<1>1. LastLine \in Nat /\ LastLine >= 2
  BY Places
<1>2. DOMAIN s = 1 .. LastLine
  <2>1. s \in Seq(SmokeLines) /\ Len(s) = LastLine
    BY ScriptLines
  <2> QED
    BY <2>1, LenProperties
<1>3. CASE i = 1
  BY <1>3, ScriptLines DEF MBegin, Junk, Marker
<1>4. CASE i = LastLine
  BY <1>4, ScriptLines DEF MEnd, Junk, Marker
<1>5. CASE i \in 2 .. LastLine - 1
  <2>1. PICK c \in DOMAIN Commands, k \in 0 .. Height + 1 : i = BeginOf(c) + k
    BY <1>5, PlaceOfLine
  <2>2. \/ i = BeginOf(c)
        \/ k \in 1 .. Height /\ i = OutOf(c, k)
        \/ i = EndOf(c)
    BY <2>1, Places, Sizes DEF OutOf, EndOf
  <2> HIDE DEF s
  <2>3. \/ i = BeginOf(c) /\ s[i] = CmdBegin(Commands[c].id)
        \/ k \in 1 .. Height /\ i = OutOf(c, k) /\ s[i] = d[c].out[k]
        \/ i = EndOf(c) /\ s[i] = CmdEnd(Commands[c].id, d[c].rc)
    BY <2>2, ScriptLines DEF s
  <2>4. CASE i = BeginOf(c) /\ s[i] = CmdBegin(Commands[c].id)
    BY <2>4 DEF CmdBegin, Junk, Marker, s
  <2>5. CASE k \in 1 .. Height /\ i = OutOf(c, k) /\ s[i] = d[c].out[k]
    <3>1. s[i].k = "out"
      BY <2>5, OutKind
    <3>2. s[i] \notin {Junk, Marker}
      BY <3>1 DEF Junk, Marker
    <3> QED
      BY <2>5, <3>1, <3>2 DEF s
  <2>6. CASE i = EndOf(c) /\ s[i] = CmdEnd(Commands[c].id, d[c].rc)
    BY <2>6 DEF CmdEnd, Junk, Marker, s
  <2> QED
    BY <2>3, <2>4, <2>5, <2>6
<1> QED
  BY <1>1, <1>2, <1>3, <1>4, <1>5

-----------------------------------------------------------------------------
(* The transcript of the script. *)

(* g gives each line of the transcript the number of lines the script had  *)
(* written when it came.  A line that is not noise is the last of those    *)
(* and came by itself; a line of the script has come, or Junk in its place.*)
Placed(g) ==
  /\ \A j, k \in DOMAIN console : j < k => g[j] <= g[k]
  /\ \A k \in DOMAIN console : console[k] \notin {Junk, Marker} =>
       /\ g[k] >= 1 /\ console[k] = script[g[k]]
       /\ \A j \in DOMAIN console : j < k => g[j] < g[k]
  /\ \A i \in 1 .. sent : \E k \in DOMAIN console : g[k] = i /\ console[k] \in {script[i], Junk}

PlacedInv == \E g \in [DOMAIN console -> 0 .. sent] : Placed(g)

(* The kernel's message is the last that the console shows but noise. *)
MarkerInv ==
  \A j \in DOMAIN console : console[j] = Marker =>
    /\ guest \in {"poweroff", "halted", "reset"}
    /\ \A k \in DOMAIN console : j < k => console[k] = Junk

ConsoleBound ==
  Len(console) <= sent + noise + (IF guest \in {"poweroff", "halted", "reset"} THEN 1 ELSE 0)

LinesInv == script \in Seq(SmokeLines) /\ console \in Seq(SmokeLines)

(* The script of a boot is the one of the commands' behaviour. *)
ScriptInv == script # << >> => did \in Behaviours /\ script = SmokeScript(did)

(* Where the job stands. *)
StepInv ==
  /\ step \in {"render", "boot", "booting", "parse", "end"}
  /\ verdict \in {"none", "green", "red", "cancelled"}
  /\ verdict = "none" <=> step # "end"
  /\ did # << >> => did \in Behaviours
  /\ step \in {"render", "boot"} => qemu = "off"
  /\ step = "parse" => BootReturned

BootInv == BootSound /\ LinesInv /\ PlacedInv /\ MarkerInv /\ ConsoleBound

IInv == BootInv /\ ScriptInv /\ StepInv /\ GreenMeansMet /\ RedMeansCause

(* A line of the script, or Junk in its place, or noise joins the others.  *)
LEMMA AppendPlaced ==
  ASSUME BootTypeOK, LinesInv, PlacedInv, NEW line \in SmokeLines,
         console' = Append(console, line), script' = script,
         \/ sent' = sent /\ line \in {Junk, Marker}
         \/ sent < Len(script) /\ sent' = sent + 1 /\ line \in {script[sent + 1], Junk}
  PROVE  LinesInv' /\ PlacedInv'
<1> DEFINE n == Len(console)
<1>1. console \in Seq(SmokeLines) /\ n \in Nat /\ DOMAIN console = 1 .. n
  BY LenProperties DEF LinesInv
<1>2. /\ console' \in Seq(SmokeLines) /\ Len(console') = n + 1
      /\ \A k \in 1 .. n : console'[k] = console[k]
      /\ console'[n + 1] = line
  BY <1>1, AppendProperties
<1>3. DOMAIN console' = 1 .. n + 1
  BY <1>2, LenProperties
<1>4. script \in Seq(SmokeLines) /\ Len(script) \in Nat /\ sent \in Nat /\ (sent' = sent \/ sent' = sent + 1)
  BY LenProperties DEF LinesInv, BootTypeOK
<1>5. PICK g \in [1 .. n -> 0 .. sent] : Placed(g)
  BY <1>1 DEF PlacedInv
<1> HIDE DEF n
<1>6. PICK h : /\ h \in [1 .. n + 1 -> 0 .. sent']
               /\ \A k \in 1 .. n : h[k] = g[k] /\ h[k] \in 0 .. sent
               /\ h[n + 1] = sent'
  <2> DEFINE f == [k \in 1 .. n + 1 |-> IF k <= n THEN g[k] ELSE sent']
  <2>1. /\ f \in [1 .. n + 1 -> 0 .. sent']
        /\ \A k \in 1 .. n : f[k] = g[k] /\ f[k] \in 0 .. sent
        /\ f[n + 1] = sent'
    BY <1>1, <1>4, <1>5
  <2> QED
    BY <2>1
<1>7. \A j, k \in 1 .. n + 1 : j < k => h[j] <= h[k]
  <2> SUFFICES ASSUME NEW j \in 1 .. n + 1, NEW k \in 1 .. n + 1, j < k
               PROVE  h[j] <= h[k]
    OBVIOUS
  <2>1. CASE k = n + 1
    BY <1>1, <1>4, <1>6, <2>1
  <2>2. CASE k \in 1 .. n
    <3>1. j \in 1 .. n
      BY <1>1, <2>2
    <3>2. g[j] <= g[k]
      BY <1>1, <1>5, <2>2, <3>1 DEF Placed
    <3> QED
      BY <1>6, <2>2, <3>1, <3>2
  <2> QED
    BY <1>1, <2>1, <2>2
<1>8. ASSUME NEW k \in 1 .. n + 1, console'[k] \notin {Junk, Marker}
      PROVE  /\ h[k] >= 1 /\ console'[k] = script[h[k]]
             /\ \A j \in 1 .. n + 1 : j < k => h[j] < h[k]
  <2>1. CASE k = n + 1
    <3>1. sent' = sent + 1 /\ line = script[sent + 1]
      BY <1>2, <1>8, <2>1
    <3> QED
      BY <1>1, <1>2, <1>4, <1>6, <2>1, <3>1
  <2>2. CASE k \in 1 .. n
    <3>1. console[k] \notin {Junk, Marker} /\ console'[k] = console[k]
      BY <1>2, <1>8, <2>2
    <3>2. /\ g[k] >= 1 /\ console[k] = script[g[k]]
          /\ \A j \in 1 .. n : j < k => g[j] < g[k]
      BY <1>1, <1>5, <2>2, <3>1 DEF Placed
    <3> QED
      BY <1>1, <1>6, <2>2, <3>1, <3>2
  <2> QED
    BY <1>1, <2>1, <2>2
<1>9. ASSUME NEW i \in 1 .. sent'
      PROVE  \E k \in 1 .. n + 1 : h[k] = i /\ console'[k] \in {script[i], Junk}
  <2>1. CASE i \in 1 .. sent
    <3>1. PICK k \in 1 .. n : g[k] = i /\ console[k] \in {script[i], Junk}
      BY <1>1, <1>5, <2>1 DEF Placed
    <3> QED
      BY <1>1, <1>2, <1>6, <3>1
  <2>2. CASE sent' = sent + 1 /\ i = sent + 1
    <3>1. line \in {script[i], Junk}
      BY <1>4, <2>2
    <3> QED
      BY <1>1, <1>2, <1>6, <2>2, <3>1
  <2>3. i \in 1 .. sent \/ (sent' = sent + 1 /\ i = sent + 1)
    BY <1>4
  <2> QED
    BY <2>1, <2>2, <2>3
<1>10. Placed(h)'
  BY <1>3, <1>7, <1>8, <1>9 DEF Placed
<1>11. PlacedInv'
  BY <1>3, <1>6, <1>10 DEF PlacedInv
<1> QED
  BY <1>2, <1>11 DEF LinesInv

(* A marker stays the last but for noise: when the kernel has written it,  *)
(* the script writes no more.                                              *)
LEMMA AppendMarker ==
  ASSUME LinesInv, MarkerInv, NEW line \in SmokeLines, console' = Append(console, line),
         \/ line = Junk /\ guest' \in {guest, "poweroff"}
         \/ line # Marker /\ guest \in {"script", "shutdown"}
         \/ guest = "shutdown" /\ guest' = "poweroff"
  PROVE  MarkerInv'
<1> DEFINE n == Len(console)
<1>1. console \in Seq(SmokeLines) /\ n \in Nat /\ DOMAIN console = 1 .. n
  BY LenProperties DEF LinesInv
<1>2. /\ console' \in Seq(SmokeLines) /\ Len(console') = n + 1
      /\ \A k \in 1 .. n : console'[k] = console[k]
      /\ console'[n + 1] = line
  BY <1>1, AppendProperties
<1>3. DOMAIN console' = 1 .. n + 1
  BY <1>2, LenProperties
<1> HIDE DEF n
<1>4. ASSUME NEW j \in 1 .. n + 1, console'[j] = Marker
      PROVE  /\ guest' \in {"poweroff", "halted", "reset"}
             /\ \A k \in 1 .. n + 1 : j < k => console'[k] = Junk
  <2>1. CASE j \in 1 .. n
    <3>1. /\ guest \in {"poweroff", "halted", "reset"}
          /\ \A k \in 1 .. n : j < k => console[k] = Junk
      BY <1>1, <1>2, <1>4, <2>1 DEF MarkerInv
    <3>2. line = Junk /\ guest' \in {guest, "poweroff"}
      BY <3>1
    <3>3. \A k \in 1 .. n + 1 : k \in 1 .. n \/ k = n + 1
      BY <1>1
    <3> QED
      BY <1>2, <3>1, <3>2, <3>3
  <2>2. CASE j = n + 1
    <3>1. line = Marker /\ Marker # Junk
      BY <1>2, <1>4, <2>2 DEF Marker, Junk
    <3>2. \A k \in 1 .. n + 1 : ~ (j < k)
      BY <1>1, <2>2
    <3> QED
      BY <3>1, <3>2
  <2> QED
    BY <1>1, <2>1, <2>2
<1> QED
  BY <1>3, <1>4 DEF MarkerInv

(* The steps of the boot, as they are taken while the lane goes on. *)
LEMMA BootSteps ==
  ASSUME IInv, GuestWrites \/ GuestOther \/ HostProgress
  PROVE  BootInv' /\ ScriptInv'
<1>0. /\ BootInv /\ BootSound /\ BootTypeOK /\ LinesInv /\ PlacedInv /\ MarkerInv /\ ConsoleBound
      /\ ScriptInv
  BY DEF IInv, BootInv, BootSound
<1>1. /\ script \in Seq(SmokeLines) /\ Len(script) \in Nat /\ DOMAIN script = 1 .. Len(script)
      /\ Len(console) \in Nat /\ sent \in Nat /\ noise \in Nat
  BY <1>0, BootAssumption, LenProperties DEF LinesInv, BootTypeOK
<1>2. Junk \in SmokeLines /\ Marker \in SmokeLines
  BY DEF SmokeLines
<1>3. UNCHANGED <<script, did>>
  BY QuietKeepsLines
     DEF GuestWrites, GuestOther, HostProgress, laneVars, WriteLine, WriteNoise, PowerDown, QuietStep
<1>4. ScriptInv'
  BY <1>0, <1>3 DEF ScriptInv, Behaviours
<1>5. CASE GuestWrites
  <2>1. sent < Len(script) /\ sent + 1 \in DOMAIN script
    BY <1>1, <1>5 DEF GuestWrites
  <2>2. PICK seen \in {script[sent + 1], Junk} : WriteLine(seen)
    BY <1>5 DEF GuestWrites
  <2>3. script[sent + 1] \in SmokeLines /\ script[sent + 1] # Marker
    <3>1. script # << >>
      BY <2>1
    <3>2. did \in Behaviours /\ script = SmokeScript(did)
      BY <1>0, <3>1 DEF ScriptInv
    <3> QED
      BY <1>1, <2>1, <3>2, ElementOfSeq, ScriptKinds
  <2>4. seen \in SmokeLines /\ seen # Marker
    BY <1>2, <2>2, <2>3 DEF Junk, Marker
  <2>5. LinesInv' /\ PlacedInv'
    BY <1>0, <2>1, <2>2, <2>4, AppendPlaced DEF WriteLine
  <2>6. MarkerInv'
    BY <1>0, <2>2, <2>4, AppendMarker DEF WriteLine
  <2>7. ConsoleBound'
    <3>1. Len(console') = Len(console) + 1 /\ sent' = sent + 1 /\ noise' >= noise
          /\ guest = "script" /\ guest' = guest
      BY <1>0, <1>1, <2>2, <2>4, AppendProperties DEF WriteLine, LinesInv
    <3>2. noise' \in Nat
      BY <1>1, <2>2 DEF WriteLine
    <3> QED
      BY <1>0, <1>1, <3>1, <3>2 DEF ConsoleBound
  <2>8. BootSound'
    BY <1>0, <2>2, BootSoundStep
  <2> QED
    BY <1>4, <2>5, <2>6, <2>7, <2>8 DEF BootInv
<1>6. CASE WriteNoise(Junk)
  <2>1. LinesInv' /\ PlacedInv'
    BY <1>0, <1>2, <1>6, AppendPlaced DEF WriteNoise
  <2>2. MarkerInv'
    BY <1>0, <1>2, <1>6, AppendMarker DEF WriteNoise
  <2>3. Len(console') = Len(console) + 1
    BY <1>0, <1>2, <1>6, AppendProperties DEF WriteNoise, LinesInv
  <2>4. ConsoleBound'
    BY <1>0, <1>1, <1>6, <2>3 DEF ConsoleBound, WriteNoise
  <2>5. BootSound'
    BY <1>0, <1>6, BootSoundStep
  <2> QED
    BY <1>4, <2>1, <2>2, <2>4, <2>5 DEF BootInv
<1>7. ASSUME NEW seen \in {Marker, Junk}, PowerDown(seen)
      PROVE  BootInv'
  <2>1. LinesInv' /\ PlacedInv'
    BY <1>0, <1>2, <1>7, AppendPlaced DEF PowerDown
  <2>2. MarkerInv'
    BY <1>0, <1>2, <1>7, AppendMarker DEF PowerDown
  <2>3. Len(console') = Len(console) + 1
    BY <1>0, <1>2, <1>7, AppendProperties DEF PowerDown, LinesInv
  <2>4. ConsoleBound'
    BY <1>0, <1>1, <1>7, <2>3 DEF ConsoleBound, PowerDown
  <2>5. BootSound'
    BY <1>0, <1>7, BootSoundStep
  <2> QED
    BY <2>1, <2>2, <2>4, <2>5 DEF BootInv
<1>8. CASE QuietStep
  <2>1. UNCHANGED <<script, sent, console, noise>>
    BY <1>8, QuietKeepsLines
  <2>2. guest \in {"poweroff", "halted", "reset"} => guest' \in {"poweroff", "halted", "reset"}
    BY <1>8 DEF QuietStep, ScriptEnds, SystemOff, GuestResets, QemuDies, HostStep, QemuExits,
                TimeoutKills, QemuEnds, EmitRunResult, EmitFails
  <2>3. LinesInv' /\ PlacedInv' /\ MarkerInv'
    <3>1. LinesInv' /\ MarkerInv'
      BY <1>0, <2>1, <2>2 DEF LinesInv, MarkerInv
    <3>2. \A g : Placed(g) => Placed(g)'
      BY <2>1 DEF Placed
    <3>3. PlacedInv'
      BY <1>0, <2>1, <3>2 DEF PlacedInv
    <3> QED
      BY <3>1, <3>3
  <2>4. ConsoleBound'
    BY <1>0, <1>1, <2>1, <2>2 DEF ConsoleBound
  <2>5. BootSound'
    BY <1>0, <1>8, BootSoundStep
  <2> QED
    BY <1>4, <2>3, <2>4, <2>5 DEF BootInv
<1>9. GuestOther => QuietStep \/ WriteNoise(Junk) \/ \E seen \in {Marker, Junk} : PowerDown(seen)
  BY DEF GuestOther, QuietStep
<1>10. HostProgress => QuietStep
  BY DEF HostProgress, QuietStep
<1> QED
  BY <1>4, <1>5, <1>6, <1>7, <1>8, <1>9, <1>10

-----------------------------------------------------------------------------
(* The parser. *)

(* A block that is opened ends somewhere, if only after the last line. *)
LEMMA BlockCloses ==
  ASSUME LinesInv, NEW i \in DOMAIN console
  PROVE  \E j \in 1 .. Len(console) + 1 : Closes(j, i)
<1> DEFINE n == Len(console)
           S == {j \in 1 .. n + 1 : i < j /\ (j \in DOMAIN console => EndsBlock(j, i))}
<1>1. n \in Nat /\ DOMAIN console = 1 .. n
  BY LenProperties DEF LinesInv
<1>2. S \subseteq Nat /\ n + 1 \in S
  BY <1>1
<1>3. PICK x \in S : \A y \in S : x <= y
  <2> HIDE DEF S
  <2> QED
    BY <1>2, LeastIndex
<1>4. ASSUME NEW m \in i + 1 .. x - 1
      PROVE  ~ EndsBlock(m, i)
  <2>1. m \in 1 .. n + 1 /\ i < m /\ ~ (x <= m)
    BY <1>1, <1>3
  <2> QED
    BY <1>3, <2>1
<1> QED
  BY <1>1, <1>3, <1>4 DEF Closes

(* The transcript can be parsed up to any line, and so as a whole. *)
LEMMA ParseExists ==
  ASSUME LinesInv
  PROVE  parse_commands \subseteq Blocks /\ IsParse(parse_commands)
<1> DEFINE n == Len(console)
           Inside(i, B) == \E b \in B : b[1] < i /\ i < b[2]
           Upto(m, B) == /\ \A b \in B : b[1] <= m
                         /\ \A i \in 1 .. m : IsBegin(i) =>
                              ((\E b \in B : b[1] = i) <=> ~ Inside(i, B))
           S == {m \in 0 .. n : ~ \E B \in SUBSET Blocks : Upto(m, B)}
<1>1. n \in Nat /\ DOMAIN console = 1 .. n
  BY LenProperties DEF LinesInv
<1>2. \A b \in Blocks : b[1] \in 1 .. n /\ b[2] \in 1 .. n + 1
  BY DEF Blocks
<1>3. S = {}
  <2> SUFFICES ASSUME S # {}
               PROVE  FALSE
    OBVIOUS
  <2>1. PICK m \in S : \A y \in S : m <= y
    <3>1. S \subseteq Nat
      BY <1>1
    <3> HIDE DEF S
    <3> QED
      BY <3>1, LeastIndex
  <2>2. m # 0
    <3>1. {} \in SUBSET Blocks /\ Upto(0, {})
      OBVIOUS
    <3> QED
      BY <2>1, <3>1
  <2>3. m \in 1 .. n /\ m - 1 \in 0 .. n /\ m - 1 \notin S
    <3>1. m \in 0 .. n
      OBVIOUS
    <3> HIDE DEF S
    <3> QED
      BY <1>1, <2>1, <2>2, <3>1
  <2>4. PICK B \in SUBSET Blocks : Upto(m - 1, B)
    BY <2>3
  <2>5. /\ \A b \in B : b[1] <= m - 1 /\ b[1] \in 1 .. n
        /\ \A i \in 1 .. m - 1 : IsBegin(i) => ((\E b \in B : b[1] = i) <=> ~ Inside(i, B))
    BY <1>2, <2>4
  <2>6. \A i \in 1 .. m : i = m \/ i \in 1 .. m - 1
    BY <2>3
  <2>7. CASE IsBegin(m) /\ ~ Inside(m, B)
    <3>1. PICK j \in 1 .. n + 1 : Closes(j, m)
      BY <1>1, <2>3, BlockCloses
    <3> DEFINE b0 == <<m, j>>
               C == B \cup {b0}
    <3>2. b0 \in Blocks
      BY <1>1, <2>3, <2>7, <3>1 DEF Blocks
    <3>3. b0[1] = m
      OBVIOUS
    <3> HIDE DEF b0
    <3>4. \A b \in C : b[1] <= m
      BY <2>3, <2>5, <3>3
    <3>5. ASSUME NEW i \in 1 .. m - 1, IsBegin(i)
          PROVE  (\E b \in C : b[1] = i) <=> ~ Inside(i, C)
      <4>1. i # m /\ ~ (m < i)
        BY <2>3
      <4>2. (\E b \in C : b[1] = i) <=> (\E b \in B : b[1] = i)
        BY <3>3, <4>1
      <4>3. Inside(i, C) <=> Inside(i, B)
        BY <3>3, <4>1
      <4> QED
        BY <2>5, <3>5, <4>2, <4>3
    <3>6. (\E b \in C : b[1] = m) /\ ~ Inside(m, C)
      BY <2>3, <2>7, <3>3
    <3>7. Upto(m, C) /\ C \in SUBSET Blocks
      BY <2>6, <3>2, <3>4, <3>5, <3>6
    <3> QED
      BY <2>1, <3>7
  <2>8. CASE IsBegin(m) => Inside(m, B)
    <3>1. \A b \in B : b[1] <= m /\ b[1] # m
      BY <2>3, <2>5
    <3>2. Upto(m, B)
      BY <2>5, <2>6, <2>8, <3>1
    <3> QED
      BY <2>1, <3>2
  <2> QED
    BY <2>7, <2>8
<1>4. n \in 0 .. n /\ n \notin S
  BY <1>1, <1>3
<1>5. PICK B \in SUBSET Blocks : Upto(n, B)
  BY <1>4
<1>6. IsParse(B)
  BY <1>1, <1>5 DEF IsParse
<1> QED
  BY <1>6 DEF parse_commands

(* A block is closed by one line only, *)
LEMMA ClosesOnce ==
  ASSUME LinesInv, NEW i \in DOMAIN console, NEW j \in 1 .. Len(console) + 1,
         NEW k \in 1 .. Len(console) + 1, Closes(j, i), Closes(k, i)
  PROVE  j = k
<1>1. Len(console) \in Nat /\ DOMAIN console = 1 .. Len(console)
  BY LenProperties DEF LinesInv
<1>2. ASSUME NEW x \in 1 .. Len(console) + 1, NEW y \in 1 .. Len(console) + 1,
             Closes(x, i), Closes(y, i), x < y
      PROVE  FALSE
  <2>1. x \in DOMAIN console /\ x \in i + 1 .. y - 1
    BY <1>1, <1>2 DEF Closes
  <2> QED
    BY <1>2, <2>1 DEF Closes
<1>3. ~ (j < k) /\ ~ (k < j)
  BY <1>2
<1> QED
  BY <1>1, <1>3

(* and so there is one way only to parse a transcript: what is taken for   *)
(* the parse is what parse_commands' scan, which satisfies IsParse, finds. *)
THEOREM OneParse ==
  ASSUME LinesInv, NEW B \in SUBSET Blocks, IsParse(B)
  PROVE  B = parse_commands
<1> DEFINE A == parse_commands
           n == Len(console)
           Opened(i, P) == \E b \in P : b[1] = i
           Inside(i, P) == \E b \in P : b[1] < i /\ i < b[2]
           S == {i \in 1 .. n : ~ (Opened(i, A) <=> Opened(i, B))}
<1>1. n \in Nat /\ DOMAIN console = 1 .. n
  BY LenProperties DEF LinesInv
<1>2. A \in SUBSET Blocks /\ IsParse(A)
  BY ParseExists
<1>3. \A b \in Blocks :
        /\ b[1] \in 1 .. n /\ b[2] \in 1 .. n + 1 /\ b = <<b[1], b[2]>>
        /\ IsBegin(b[1]) /\ Closes(b[2], b[1])
  BY DEF Blocks
<1> HIDE DEF A
<1>4. \A b \in A, c \in B : b[1] = c[1] => b = c
  <2> SUFFICES ASSUME NEW b \in A, NEW c \in B, b[1] = c[1]
               PROVE  b = c
    OBVIOUS
  <2>1. b[2] = c[2]
    BY <1>1, <1>2, <1>3, ClosesOnce
  <2> QED
    BY <1>2, <1>3, <2>1
<1>5. S = {}
  <2> SUFFICES ASSUME S # {}
               PROVE  FALSE
    OBVIOUS
  <2>1. PICK m \in S : \A y \in S : m <= y
    <3>1. S \subseteq Nat
      BY <1>1
    <3> HIDE DEF S
    <3> QED
      BY <3>1, LeastIndex
  <2>2. m \in 1 .. n /\ ~ (Opened(m, A) <=> Opened(m, B))
    OBVIOUS
  <2>3. \A i \in 1 .. n : i < m => (Opened(i, A) <=> Opened(i, B))
    BY <1>1, <2>1
  <2> HIDE DEF S
  <2>4. Inside(m, A) <=> Inside(m, B)
    <3>1. \A b \in A : b[1] < m => b \in B
      BY <1>2, <1>3, <1>4, <2>3
    <3>2. \A c \in B : c[1] < m => c \in A
      BY <1>3, <1>4, <2>3
    <3> QED
      BY <3>1, <3>2
  <2>5. IsBegin(m)
    BY <1>2, <1>3, <2>2
  <2>6. /\ Opened(m, A) <=> ~ Inside(m, A)
        /\ Opened(m, B) <=> ~ Inside(m, B)
    BY <1>1, <1>2, <2>2, <2>5 DEF IsParse
  <2> QED
    BY <2>2, <2>4, <2>6
<1>6. \A i \in 1 .. n : Opened(i, A) <=> Opened(i, B)
  BY <1>5
<1>7. A \subseteq B
  BY <1>2, <1>3, <1>4, <1>6
<1>8. B \subseteq A
  BY <1>3, <1>4, <1>6
<1> QED
  BY <1>7, <1>8 DEF A

(* The lines of a block, by themselves and in the transcript. *)
LEMMA BodyLines ==
  ASSUME LinesInv, NEW p \in DOMAIN console, NEW q \in DOMAIN console, p < q
  PROVE  LET lines == SubSeq(console, p + 1, q - 1)
         IN /\ DOMAIN lines = 1 .. q - p - 1
            /\ \A m \in DOMAIN lines :
                 /\ lines[m] = console[p + m]
                 /\ p + m \in DOMAIN console /\ p < p + m /\ p + m < q
<1> DEFINE n == Len(console)
           lines == SubSeq(console, p + 1, q - 1)
<1>1. console \in Seq(SmokeLines) /\ n \in Nat /\ DOMAIN console = 1 .. n
  BY LenProperties DEF LinesInv
<1>2. /\ p + 1 \in Int /\ q - 1 \in Int
      /\ q - 1 - (p + 1) + 1 = q - p - 1
      /\ (IF p + 1 <= q - 1 THEN q - 1 - (p + 1) + 1 ELSE 0) = q - p - 1
      /\ \A m \in 1 .. q - p - 1 : p + 1 + m - 1 = p + m
      /\ \A i \in p + 1 .. q - 1 : i \in 1 .. n
  BY <1>1
<1>3. /\ Len(lines) = q - p - 1
      /\ \A m \in 1 .. q - p - 1 : lines[m] = console[p + m]
      /\ lines \in Seq(SmokeLines)
  <2>1. \A i \in p + 1 .. q - 1 : console[i] \in SmokeLines
    BY <1>1, <1>2, ElementOfSeq
  <2>2. /\ lines \in Seq(SmokeLines)
        /\ Len(lines) = IF p + 1 <= q - 1 THEN q - 1 - (p + 1) + 1 ELSE 0
        /\ \A m \in 1 .. q - 1 - (p + 1) + 1 : lines[m] = console[p + 1 + m - 1]
    BY <1>2, <2>1, SubSeqProperties
  <2> HIDE DEF lines
  <2> QED
    BY <1>2, <2>2
<1>4. DOMAIN lines = 1 .. q - p - 1
  <2> HIDE DEF lines
  <2> QED
    BY <1>3, LenProperties
<1>5. \A m \in 1 .. q - p - 1 : p + m \in DOMAIN console /\ p < p + m /\ p + m < q
  BY <1>1
<1> QED
  BY <1>3, <1>4, <1>5

-----------------------------------------------------------------------------
(* What the verdict says of the guest. *)

(* The guest has a script, and g says where its lines have come. *)
Booted(g) ==
  /\ g \in [DOMAIN console -> 0 .. sent] /\ Placed(g)
  /\ did \in Behaviours /\ script = SmokeScript(did)
  /\ sent \in 0 .. LastLine

(* A line that is not noise is the script's, at the place g gives it. *)
LEMMA ShownLine ==
  ASSUME NEW g, Booted(g), NEW k \in DOMAIN console, console[k] \notin {Junk, Marker}
  PROVE  /\ g[k] \in 1 .. sent /\ g[k] \in DOMAIN script
         /\ console[k] = script[g[k]]
         /\ \A j \in DOMAIN console : j < k => g[j] < g[k]
<1>1. LastLine \in Nat
  BY Places
<1>2. DOMAIN script = 1 .. LastLine
  BY ScriptLines, LenProperties DEF Booted
<1>3. g[k] >= 1 /\ console[k] = script[g[k]] /\ g[k] \in 0 .. sent
      /\ \A j \in DOMAIN console : j < k => g[j] < g[k]
  BY DEF Booted, Placed
<1> QED
  BY <1>1, <1>2, <1>3 DEF Booted

(* A line of output is printed by a command, at its place. *)
LEMMA OutShown ==
  ASSUME NEW g, Booted(g), NEW k \in DOMAIN console, console[k].k = "out"
  PROVE  \E c \in DOMAIN Commands, m \in 1 .. Height :
           /\ g[k] = OutOf(c, m) /\ console[k] = did[c].out[m]
           /\ console[k].alone => console[k].inner \in Printed(c)
<1>1. console[k] \notin {Junk, Marker}
  BY DEF Junk, Marker
<1>2. g[k] \in DOMAIN script /\ console[k] = script[g[k]]
  BY <1>1, ShownLine
<1>3. PICK c \in DOMAIN Commands, m \in 1 .. Height :
        g[k] = OutOf(c, m) /\ console[k] = did[c].out[m]
  BY <1>2, ScriptKinds DEF Booted
<1> QED
  BY <1>3 DEF Printed

(* What a pattern matches is a line of the runner, or one of output that   *)
(* is all a sentinel.                                                      *)
LEMMA MatchedLine ==
  ASSUME NEW k \in DOMAIN console, Match(console[k]).k \in {"mbegin", "mend", "begin", "end"}
  PROVE  /\ console[k] \notin {Junk, Marker}
         /\ \/ console[k].k # "out" /\ Match(console[k]) = console[k]
            \/ /\ console[k].k = "out" /\ console[k].alone
               /\ Match(console[k]) = console[k].inner
  BY DEF Match, Junk, Marker

(* The sentinels of a command that nobody forges are the runner's. *)
LEMMA Unforged ==
  ASSUME NEW g, Booted(g), NEW c \in DOMAIN Commands, ~ Forged(c), NEW k \in DOMAIN console,
         Match(console[k]).k \in {"begin", "end"}, IdAt(k) = Commands[c].id
  PROVE  console[k].k # "out"
<1> SUFFICES ASSUME console[k].k = "out"
             PROVE  FALSE
  OBVIOUS
<1>1. console[k].alone /\ Match(console[k]) = console[k].inner
  BY MatchedLine
<1>2. PICK e \in DOMAIN Commands : console[k].inner \in Printed(e)
  BY <1>1, OutShown
<1> QED
  BY <1>1, <1>2 DEF Forged, IdAt

(* The runner's BEGIN and END of a command, where the transcript has them. *)
LEMMA BeginPlace ==
  ASSUME NEW g, Booted(g), NEW c \in DOMAIN Commands, NEW k \in DOMAIN console,
         IsBegin(k), IdAt(k) = Commands[c].id, console[k].k # "out"
  PROVE  console[k] \notin {Junk, Marker} /\ g[k] = BeginOf(c)
<1>1. console[k] \notin {Junk, Marker} /\ console[k].k = "begin" /\ console[k].id = Commands[c].id
  BY MatchedLine DEF IsBegin, IdAt
<1>2. g[k] \in DOMAIN script /\ script[g[k]] = console[k]
  BY <1>1, ShownLine
<1>3. PICK c1 \in DOMAIN Commands : g[k] = BeginOf(c1) /\ console[k].id = Commands[c1].id
  BY <1>1, <1>2, ScriptKinds DEF Booted
<1> QED
  BY <1>1, <1>3, CommandsType

LEMMA EndPlace ==
  ASSUME NEW g, Booted(g), NEW c \in DOMAIN Commands, NEW k \in DOMAIN console,
         Match(console[k]).k = "end", IdAt(k) = Commands[c].id, console[k].k # "out"
  PROVE  /\ console[k] \notin {Junk, Marker} /\ g[k] = EndOf(c)
         /\ console[k] = CmdEnd(Commands[c].id, did[c].rc)
<1>1. console[k] \notin {Junk, Marker} /\ console[k].k = "end" /\ console[k].id = Commands[c].id
  BY MatchedLine DEF IdAt
<1>2. g[k] \in DOMAIN script /\ script[g[k]] = console[k]
  BY <1>1, ShownLine
<1>3. PICK c1 \in DOMAIN Commands : g[k] = EndOf(c1) /\ console[k].id = Commands[c1].id
  BY <1>1, <1>2, ScriptKinds DEF Booted
<1>4. c1 = c
  BY <1>1, <1>3, CommandsType
<1> QED
  BY <1>1, <1>2, <1>3, <1>4, ScriptLines DEF Booted

(* Between BEGIN and END of a command there is its output, or Junk in the  *)
(* place of some lines, and otherwise noise.                               *)
LEMMA Body ==
  ASSUME NEW g, Booted(g), NEW c \in DOMAIN Commands,
         DOMAIN console \subseteq Nat, NEW p \in DOMAIN console, NEW q \in DOMAIN console,
         console[p] \notin {Junk, Marker}, console[q] \notin {Junk, Marker},
         g[p] = BeginOf(c), g[q] = EndOf(c)
  PROVE  /\ p < q
         /\ \A m \in DOMAIN console : p < m /\ m < q /\ console[m] \notin {Junk, Marker} =>
              \E k \in 1 .. Height : g[m] = OutOf(c, k) /\ console[m] = did[c].out[k]
         /\ \A k \in 1 .. Height : \E m \in DOMAIN console :
              /\ p < m /\ m < q /\ g[m] = OutOf(c, k)
              /\ console[m] \in {did[c].out[k], Junk}
<1>1. \A k \in DOMAIN console : g[k] \in Nat
  BY DEF Booted
<1>2. /\ BeginOf(c) \in Nat /\ EndOf(c) \in Nat /\ BeginOf(c) < EndOf(c)
      /\ \A k \in 1 .. Height : BeginOf(c) < OutOf(c, k) /\ OutOf(c, k) < EndOf(c)
                                /\ OutOf(c, k) \in Nat /\ OutOf(c, k) >= 1
      /\ \A i \in Nat : BeginOf(c) < i /\ i < EndOf(c) => \E k \in 1 .. Height : i = OutOf(c, k)
  <2>1. BeginOf(c) \in Nat /\ BeginOf(c) >= 2 /\ EndOf(c) \in Nat
    BY Places
  <2>2. ASSUME NEW i \in Nat, BeginOf(c) < i, i < EndOf(c)
        PROVE  \E k \in 1 .. Height : i = OutOf(c, k)
    <3>1. i - BeginOf(c) \in 1 .. Height /\ i = OutOf(c, i - BeginOf(c))
      BY <2>1, <2>2, Sizes DEF OutOf, EndOf
    <3> QED
      BY <3>1
  <2> QED
    BY <2>1, <2>2, Sizes DEF OutOf, EndOf
<1>3. \A j, k \in DOMAIN console : j < k => g[j] <= g[k]
  BY DEF Booted, Placed
<1>4. \A k \in 1 .. Height : script[OutOf(c, k)] = did[c].out[k]
  BY ScriptLines DEF Booted
<1>5. p < q
  <2>1. p \in Nat /\ q \in Nat /\ g[p] \in Nat /\ g[q] \in Nat /\ g[p] < g[q]
    BY <1>1, <1>2
  <2>2. p # q /\ ~ (q < p)
    BY <1>3, <2>1
  <2> QED
    BY <2>1, <2>2
<1>6. ASSUME NEW m \in DOMAIN console, p < m, m < q, console[m] \notin {Junk, Marker}
      PROVE  \E k \in 1 .. Height : g[m] = OutOf(c, k) /\ console[m] = did[c].out[k]
  <2>1. g[p] < g[m] /\ g[m] < g[q] /\ console[m] = script[g[m]]
    BY <1>6, ShownLine
  <2> QED
    BY <1>1, <1>2, <1>4, <2>1
<1>7. ASSUME NEW k \in 1 .. Height
      PROVE  \E m \in DOMAIN console :
               /\ p < m /\ m < q /\ g[m] = OutOf(c, k)
               /\ console[m] \in {did[c].out[k], Junk}
  <2>1. OutOf(c, k) \in 1 .. sent
    <3>1. EndOf(c) \in 1 .. sent /\ sent \in Nat
      BY ShownLine DEF Booted
    <3> QED
      BY <1>2, <3>1
  <2>2. PICK m \in DOMAIN console :
          g[m] = OutOf(c, k) /\ console[m] \in {script[OutOf(c, k)], Junk}
    BY <2>1 DEF Booted, Placed
  <2>3. p < m
    BY <1>1, <1>2, <1>3, <2>2
  <2>4. m < q
    BY <1>1, <1>2, <1>3, <2>2
  <2> QED
    BY <1>4, <2>2, <2>3, <2>4
<1> QED
  BY <1>5, <1>6, <1>7

(* A command that is found to be right in the transcript was right, if     *)
(* nobody forges its sentinels.                                            *)
LEMMA CommandMet ==
  ASSUME NEW g, Booted(g), LinesInv, NEW c \in DOMAIN Commands, ~ Forged(c),
         CommandOK(Commands[c], parse_commands)
  PROVE  Met(c)
<1> DEFINE id == Commands[c].id
           text(k) == did[c].out[k].text
           shown == {k \in 1 .. Height : text(k) # "blank"}
<1>1. DOMAIN console \subseteq Nat /\ DOMAIN console = 1 .. Len(console) /\ Len(console) \in Nat
  BY LenProperties DEF LinesInv
<1>2. PICK b \in parse_commands :
        /\ IdAt(b[1]) = id
        /\ b[2] <= Len(console)
        /\ Match(console[b[2]]).rc = Commands[c].expect_rc
        /\ MeetsText(Commands[c], SubSeq(console, b[1] + 1, b[2] - 1))
  BY DEF CommandOK
<1> DEFINE p == b[1]
           q == b[2]
           lines == SubSeq(console, p + 1, q - 1)
<1>3. /\ p \in DOMAIN console /\ IsBegin(p) /\ Closes(q, p) /\ q \in 1 .. Len(console) + 1
  BY <1>1, ParseExists DEF Blocks
<1>4. q \in DOMAIN console /\ EndsBlock(q, p)
  BY <1>1, <1>2, <1>3 DEF Closes
<1> HIDE DEF p, q
<1>5. console[p].k # "out" /\ console[q].k # "out"
  <2>1. Match(console[p]).k = "begin" /\ IdAt(p) = id /\ Match(console[q]).k = "end" /\ IdAt(q) = id
    BY <1>2, <1>3, <1>4 DEF IsBegin, EndsBlock, p
  <2> QED
    BY <1>3, <1>4, <2>1, Unforged
<1>6. console[p] \notin {Junk, Marker} /\ g[p] = BeginOf(c)
  BY <1>2, <1>3, <1>5, BeginPlace DEF p
<1>7. console[q] \notin {Junk, Marker} /\ g[q] = EndOf(c) /\ console[q] = CmdEnd(id, did[c].rc)
  BY <1>2, <1>4, <1>5, EndPlace DEF EndsBlock, p
<1>8. did[c].rc = Commands[c].expect_rc
  BY <1>2, <1>7 DEF CmdEnd, Match, q
<1>9. /\ p < q
      /\ \A m \in DOMAIN console : p < m /\ m < q /\ console[m] \notin {Junk, Marker} =>
           \E k \in 1 .. Height : g[m] = OutOf(c, k) /\ console[m] = did[c].out[k]
      /\ \A k \in 1 .. Height : \E m \in DOMAIN console :
           /\ p < m /\ m < q /\ g[m] = OutOf(c, k)
           /\ console[m] \in {did[c].out[k], Junk}
  BY <1>1, <1>3, <1>4, <1>6, <1>7, Body
<1>10. /\ DOMAIN lines = 1 .. q - p - 1
       /\ \A m \in DOMAIN lines :
            /\ lines[m] = console[p + m]
            /\ p + m \in DOMAIN console /\ p < p + m /\ p + m < q
  BY <1>3, <1>4, <1>9, BodyLines
<1>11. MeetsText(Commands[c], lines)
  BY <1>2 DEF p, q
<1> HIDE DEF lines
<1>12. ASSUME NEW m \in DOMAIN lines, lines[m] \notin {Junk, Marker}
       PROVE  \E k \in 1 .. Height : lines[m] = did[c].out[k] /\ lines[m].k = "out"
  <2>1. PICK k \in 1 .. Height : lines[m] = did[c].out[k]
    BY <1>9, <1>10, <1>12
  <2> QED
    BY <2>1, OutKind DEF Booted
<1>13. ASSUME Commands[c].mode = "contains"
       PROVE  \E k \in 1 .. Height : Commands[c].expect \in Carries[text(k)]
  <2>1. PICK m \in DOMAIN lines : Commands[c].expect \in Carried(lines[m])
    BY <1>11, <1>13 DEF MeetsText
  <2>2. lines[m] \notin {Junk, Marker}
    BY <2>1 DEF Carried, Junk, Marker
  <2>3. PICK k \in 1 .. Height : lines[m] = did[c].out[k] /\ lines[m].k = "out"
    BY <1>12, <2>2
  <2> QED
    BY <2>1, <2>3 DEF Carried
<1>14. ASSUME Commands[c].mode = "equals"
       PROVE  /\ \A k, m \in shown : k = m
              /\ {text(k) : k \in shown} = {Commands[c].expect} \ {"blank"}
  <2> DEFINE e == Commands[c].expect
             here == {m \in DOMAIN lines : ~ IsBlank(lines[m])}
  <2>1. StripsTo(lines, e)
    BY <1>11, <1>14 DEF MeetsText
  <2>2. /\ \A m, n \in here : m = n
        /\ \A m \in here : lines[m].k = "out" /\ lines[m].text = e /\ e # "blank"
        /\ e # "blank" => here # {}
    BY <2>1 DEF StripsTo
  <2> HIDE DEF here
  <2>3. ASSUME NEW k \in 1 .. Height
        PROVE  \E m \in DOMAIN lines : lines[m] = did[c].out[k] /\ g[p + m] = OutOf(c, k)
    <3>1. PICK m \in DOMAIN console :
            p < m /\ m < q /\ g[m] = OutOf(c, k) /\ console[m] \in {did[c].out[k], Junk}
      BY <1>9
    <3>2. m - p \in DOMAIN lines /\ p + (m - p) = m
      BY <1>1, <1>3, <1>4, <1>10, <3>1
    <3>3. lines[m - p] = console[m]
      BY <1>10, <3>2
    <3>4. console[m] # Junk
      <4> SUFFICES ASSUME console[m] = Junk
                   PROVE  FALSE
        OBVIOUS
      <4>1. m - p \in here
        BY <3>2, <3>3 DEF here, IsBlank, Junk
      <4> QED
        BY <2>2, <3>3, <4>1 DEF Junk
    <3> QED
      BY <3>1, <3>2, <3>3, <3>4
  <2>4. ASSUME NEW k \in shown
        PROVE  /\ text(k) = e /\ e # "blank"
               /\ \E m \in here : g[p + m] = OutOf(c, k)
    <3>1. PICK m \in DOMAIN lines : lines[m] = did[c].out[k] /\ g[p + m] = OutOf(c, k)
      BY <2>3
    <3>2. m \in here
      BY <3>1 DEF here, IsBlank
    <3> QED
      BY <2>2, <3>1, <3>2
  <2>5. \A k, m \in shown : k = m
    <3> SUFFICES ASSUME NEW k \in shown, NEW m \in shown
                 PROVE  k = m
      OBVIOUS
    <3>1. OutOf(c, k) = OutOf(c, m)
      BY <2>2, <2>4
    <3> QED
      BY <3>1, Places DEF OutOf
  <2>6. e # "blank" => \E k \in shown : text(k) = e
    <3> SUFFICES ASSUME e # "blank"
                 PROVE  \E k \in shown : text(k) = e
      OBVIOUS
    <3>1. PICK m \in here : TRUE
      BY <2>2
    <3>2. m \in DOMAIN lines /\ lines[m].k = "out" /\ lines[m].text = e
      BY <2>2 DEF here
    <3>3. lines[m] \notin {Junk, Marker}
      BY <3>2 DEF Junk, Marker
    <3>4. PICK k \in 1 .. Height : lines[m] = did[c].out[k]
      BY <1>12, <3>2, <3>3
    <3> QED
      BY <3>2, <3>4
  <2>7. {text(k) : k \in shown} = {e} \ {"blank"}
    <3> HIDE DEF e, shown, text
    <3>1. \A k \in shown : text(k) = e /\ e # "blank"
      BY <2>4
    <3> QED
      BY <2>6, <3>1
  <2> QED
    BY <2>5, <2>7
<1> QED
  BY <1>8, <1>13, <1>14 DEF Met

(* The script's lines come only of a guest that was booted. *)
LEMMA BeganBooted ==
  ASSUME BootInv, ScriptInv, NEW k \in DOMAIN console, console[k] \notin {Junk, Marker}
  PROVE  \E g : Booted(g)
<1>1. /\ LinesInv /\ BootTypeOK /\ script \in Seq(SmokeLines)
      /\ Len(script) \in Nat /\ sent \in 0 .. Len(script)
  BY LenProperties DEF BootInv, BootSound, BootTypeOK, LinesInv
<1>2. PICK g \in [DOMAIN console -> 0 .. sent] : Placed(g)
  BY DEF BootInv, PlacedInv
<1>3. g[k] >= 1 /\ g[k] \in 0 .. sent
  BY <1>2 DEF Placed
<1>4. script # << >>
  BY <1>1, <1>3
<1>5. did \in Behaviours /\ script = SmokeScript(did)
  BY <1>4 DEF ScriptInv
<1>6. Len(script) = LastLine
  BY <1>5, ScriptLines
<1> QED
  BY <1>1, <1>2, <1>5, <1>6 DEF Booted

(* A transcript that passes is one of a guest that did everything whose    *)
(* sentinels nobody forges.                                                *)
LEMMA PassedMeansGood ==
  ASSUME BootInv, ScriptInv, run_result # NoResult, passed
  PROVE  Good
<1>1. LinesInv /\ BootSound /\ BootTypeOK
  BY DEF BootInv, BootSound
<1>2. PICK k \in DOMAIN console : Match(console[k]) = MEnd
  BY DEF passed, Appears
<1>3. /\ console[k] \notin {Junk, Marker}
      /\ \/ console[k].k # "out" /\ console[k] = MEnd
         \/ console[k].k = "out" /\ console[k].alone /\ console[k].inner = MEnd
  BY <1>2, MatchedLine DEF MEnd
<1>4. PICK g : Booted(g)
  BY <1>3, BeganBooted
<1>5. g[k] \in 1 .. sent /\ g[k] \in DOMAIN script /\ script[g[k]] = console[k]
  BY <1>3, <1>4, ShownLine
<1>6. Len(script) = LastLine /\ LastLine \in Nat /\ LastLine >= 2 /\ sent \in 0 .. Len(script)
  BY <1>4, ScriptLines, Places DEF Booted
<1>7. script # << >>
  BY <1>6
<1>8. sent = Len(script) \/ \E c \in DOMAIN Commands : MEnd \in Printed(c)
  <2>1. CASE console[k] = MEnd
    <3>1. g[k] = LastLine
      BY <1>4, <1>5, <2>1, ScriptKinds DEF Booted, MEnd
    <3> QED
      BY <1>5, <1>6, <3>1
  <2>2. CASE console[k].k = "out" /\ console[k].alone /\ console[k].inner = MEnd
    BY <1>4, <2>2, OutShown
  <2> QED
    BY <1>3, <2>1, <2>2
<1>9. exit_code = 0 /\ guest \in {"halted", "reset"}
  BY <1>1, CleanEnd DEF passed, shutdown_ok
<1>10. \A c \in DOMAIN Commands : Met(c) \/ Forged(c)
  BY <1>1, <1>4, CommandMet DEF passed
<1> QED
  BY <1>7, <1>8, <1>9, <1>10 DEF Good, GuestEnded

-----------------------------------------------------------------------------
(* What a red verdict says of the guest: one that did everything, and      *)
(* whose blocks came through, passes.                                      *)

(* No line of the script comes twice. *)
LEMMA OneLine ==
  ASSUME NEW g, Booted(g), LinesInv, NEW j \in DOMAIN console, NEW k \in DOMAIN console,
         console[j] \notin {Junk, Marker}, console[k] \notin {Junk, Marker}, g[j] = g[k]
  PROVE  j = k
<1>1. j \in Nat /\ k \in Nat /\ g[j] \in Nat /\ g[k] \in Nat
  BY LenProperties DEF LinesInv, Booted
<1>2. ~ (j < k) /\ ~ (k < j)
  BY <1>1, ShownLine
<1> QED
  BY <1>1, <1>2

(* What the runner wrote at p and q around a command's output. *)
Bounds(g, c, p, q) ==
  /\ p \in DOMAIN console /\ console[p] = CmdBegin(Commands[c].id) /\ g[p] = BeginOf(c)
  /\ q \in DOMAIN console /\ console[q] = CmdEnd(Commands[c].id, did[c].rc) /\ g[q] = EndOf(c)

LEMMA BoundsMatch ==
  ASSUME NEW g, NEW c \in DOMAIN Commands, NEW p, NEW q, Bounds(g, c, p, q)
  PROVE  /\ console[p] \notin {Junk, Marker} /\ console[q] \notin {Junk, Marker}
         /\ console[p].k = "begin" /\ IsBegin(p) /\ IdAt(p) = Commands[c].id
         /\ Match(console[q]).k = "end" /\ IdAt(q) = Commands[c].id
         /\ Match(console[q]).rc = did[c].rc
  BY DEF Bounds, CmdBegin, CmdEnd, Junk, Marker, IsBegin, IdAt, Match

(* In an intact transcript both are there. *)
LEMMA BothShown ==
  ASSUME NEW g, Booted(g), Intact, NEW c \in DOMAIN Commands
  PROVE  \E p, q : Bounds(g, c, p, q)
<1>1. /\ BeginOf(c) \in Nat /\ BeginOf(c) >= 2 /\ EndOf(c) \in Nat /\ EndOf(c) < LastLine
      /\ BeginOf(c) < EndOf(c) /\ LastLine \in Nat
  BY Places, Sizes DEF EndOf
<1>2. DOMAIN script = 1 .. LastLine
  BY ScriptLines, LenProperties DEF Booted
<1>3. BeginOf(c) \in DOMAIN script /\ EndOf(c) \in DOMAIN script
  BY <1>1, <1>2
<1>4. /\ script[BeginOf(c)] = CmdBegin(Commands[c].id)
      /\ script[EndOf(c)] = CmdEnd(Commands[c].id, did[c].rc)
  BY ScriptLines DEF Booted
<1>5. PICK p \in DOMAIN console : console[p] = CmdBegin(Commands[c].id)
  BY <1>3, <1>4 DEF Intact
<1>6. PICK q \in DOMAIN console : console[q] = CmdEnd(Commands[c].id, did[c].rc)
  BY <1>3, <1>4 DEF Intact
<1>7. IsBegin(p) /\ IdAt(p) = Commands[c].id /\ console[p].k # "out"
  BY <1>5 DEF IsBegin, IdAt, Match, CmdBegin
<1>8. Match(console[q]).k = "end" /\ IdAt(q) = Commands[c].id /\ console[q].k # "out"
  BY <1>6 DEF IdAt, Match, CmdEnd
<1>9. g[p] = BeginOf(c) /\ g[q] = EndOf(c)
  BY <1>7, <1>8, BeginPlace, EndPlace
<1> QED
  BY <1>5, <1>6, <1>9 DEF Bounds

(* A block that is opened by a command's BEGIN is closed by its END, if    *)
(* the command does not print that itself.                                 *)
LEMMA ClosedByEnd ==
  ASSUME NEW g, Booted(g), LinesInv, NEW c \in DOMAIN Commands, ~ ClosesItself(c),
         NEW p, NEW q, Bounds(g, c, p, q)
  PROVE  p < q /\ Closes(q, p)
<1>1. DOMAIN console \subseteq Nat /\ DOMAIN console = 1 .. Len(console) /\ Len(console) \in Nat
  BY LenProperties DEF LinesInv
<1>2. /\ p \in DOMAIN console /\ q \in DOMAIN console /\ IdAt(p) = Commands[c].id
      /\ Match(console[q]).k = "end" /\ IdAt(q) = Commands[c].id
  BY BoundsMatch DEF Bounds
<1>3. /\ p < q
      /\ \A m \in DOMAIN console : p < m /\ m < q /\ console[m] \notin {Junk, Marker} =>
           \E k \in 1 .. Height : g[m] = OutOf(c, k) /\ console[m] = did[c].out[k]
  <2>1. /\ console[p] \notin {Junk, Marker} /\ console[q] \notin {Junk, Marker}
        /\ g[p] = BeginOf(c) /\ g[q] = EndOf(c)
    BY BoundsMatch DEF Bounds
  <2> QED
    BY <1>1, <1>2, <2>1, Body
<1>4. ASSUME NEW m \in p + 1 .. q - 1, EndsBlock(m, p)
      PROVE  FALSE
  <2>1. m \in DOMAIN console /\ p < m /\ m < q
    BY <1>1, <1>2
  <2>2. Match(console[m]).k = "end" /\ IdAt(m) = Commands[c].id
    BY <1>2, <1>4 DEF EndsBlock
  <2>3. console[m] \notin {Junk, Marker}
    BY <2>1, <2>2, MatchedLine
  <2>4. PICK k \in 1 .. Height : console[m] = did[c].out[k]
    BY <1>3, <2>1, <2>3
  <2>5. console[m].k = "out"
    BY <2>4, OutKind DEF Booted
  <2>6. console[m].alone /\ Match(console[m]) = console[m].inner
    BY <2>1, <2>2, <2>5, MatchedLine
  <2>7. console[m].inner \in Printed(c)
    BY <2>4, <2>6 DEF Printed
  <2> QED
    BY <2>2, <2>6, <2>7 DEF ClosesItself, IdAt
<1>5. EndsBlock(q, p)
  BY <1>2 DEF EndsBlock
<1> QED
  BY <1>1, <1>2, <1>3, <1>4, <1>5 DEF Closes

(* A line that opens a block, or would, is a command's BEGIN or is in its  *)
(* output.                                                                 *)
LEMMA OpenedWithin ==
  ASSUME NEW g, Booted(g), LinesInv, Intact, NEW r \in DOMAIN console, IsBegin(r)
  PROVE  \E c, p, q :
           /\ c \in DOMAIN Commands /\ Bounds(g, c, p, q)
           /\ \/ r = p /\ IdAt(r) = Commands[c].id
              \/ console[r].k = "out" /\ p < r /\ r < q
<1>1. DOMAIN console \subseteq Nat /\ \A k \in DOMAIN console : g[k] \in Nat
  BY LenProperties DEF LinesInv, Booted
<1>2. console[r] \notin {Junk, Marker}
  BY MatchedLine DEF IsBegin
<1>3. CASE console[r].k = "out"
  <2>1. PICK c \in DOMAIN Commands, m \in 1 .. Height : g[r] = OutOf(c, m)
    BY <1>3, OutShown
  <2>2. PICK p, q : Bounds(g, c, p, q)
    BY BothShown
  <2>3. p \in DOMAIN console /\ q \in DOMAIN console /\ g[p] = BeginOf(c) /\ g[q] = EndOf(c)
    BY <2>2 DEF Bounds
  <2>4. g[p] < g[r] /\ g[r] < g[q]
    BY <2>1, <2>3, Places, Sizes DEF OutOf, EndOf
  <2>5. \A j, k \in DOMAIN console : j < k => g[j] <= g[k]
    BY DEF Booted, Placed
  <2>6. p < r /\ r < q
    BY <1>1, <2>3, <2>4, <2>5
  <2> QED
    BY <1>3, <2>2, <2>6
<1>4. CASE console[r].k # "out"
  <2>1. console[r].k = "begin" /\ IdAt(r) = console[r].id
    BY <1>4, MatchedLine DEF IsBegin, IdAt
  <2>2. g[r] \in DOMAIN script /\ script[g[r]] = console[r]
    BY <1>2, ShownLine
  <2>3. PICK c \in DOMAIN Commands : g[r] = BeginOf(c) /\ console[r].id = Commands[c].id
    BY <2>1, <2>2, ScriptKinds DEF Booted
  <2>4. PICK p, q : Bounds(g, c, p, q)
    BY BothShown
  <2>5. p = r
    BY <1>2, <2>3, <2>4, OneLine, BoundsMatch DEF Bounds
  <2> QED
    BY <2>1, <2>3, <2>4, <2>5
<1> QED
  BY <1>3, <1>4

(* The parser's blocks are those of the commands: no sentinel in a         *)
(* command's output opens a block, and none closes one.                    *)
LEMMA BeginOpens ==
  ASSUME NEW g, Booted(g), LinesInv, Intact, \A c \in DOMAIN Commands : ~ ClosesItself(c),
         NEW c \in DOMAIN Commands, NEW p, NEW q, Bounds(g, c, p, q)
  PROVE  \E b \in parse_commands : b[1] = p /\ b[2] = q
<1>1. /\ DOMAIN console \subseteq Nat /\ DOMAIN console = 1 .. Len(console) /\ Len(console) \in Nat
      /\ \A k \in DOMAIN console : g[k] \in Nat
  BY LenProperties DEF LinesInv, Booted
<1>2. parse_commands \subseteq Blocks /\ IsParse(parse_commands)
  BY ParseExists
<1>3. \A b \in Blocks :
        /\ b[1] \in DOMAIN console /\ b[2] \in 1 .. Len(console) + 1
        /\ IsBegin(b[1]) /\ Closes(b[2], b[1])
  BY <1>1 DEF Blocks
<1> DEFINE Inside(i) == \E b \in parse_commands : b[1] < i /\ i < b[2]
           S == {i \in DOMAIN console :
                   Inside(i) /\ \E e, r : e \in DOMAIN Commands /\ Bounds(g, e, i, r)}
<1>4. ASSUME NEW e \in DOMAIN Commands, NEW i, NEW r, Bounds(g, e, i, r), ~ Inside(i)
      PROVE  \E b \in parse_commands : b[1] = i /\ b[2] = r
  <2>1. i \in DOMAIN console /\ r \in DOMAIN console /\ IsBegin(i) /\ i < r /\ Closes(r, i)
    BY <1>4, BoundsMatch, ClosedByEnd DEF Bounds
  <2>2. PICK b \in parse_commands : b[1] = i
    BY <1>2, <1>4, <2>1 DEF IsParse
  <2>3. b[2] \in 1 .. Len(console) + 1 /\ Closes(b[2], i) /\ r \in 1 .. Len(console) + 1
    BY <1>1, <1>2, <1>3, <2>1, <2>2
  <2>4. b[2] = r
    BY <2>1, <2>3, ClosesOnce
  <2> QED
    BY <2>2, <2>4
<1>5. S = {}
  <2> SUFFICES ASSUME S # {}
               PROVE  FALSE
    OBVIOUS
  <2>1. PICK i \in S : \A y \in S : i <= y
    <3>1. S \subseteq Nat
      BY <1>1
    <3> HIDE DEF S
    <3> QED
      BY <3>1, LeastIndex
  <2>2. PICK e, r : e \in DOMAIN Commands /\ Bounds(g, e, i, r)
    OBVIOUS
  <2>3. PICK b \in parse_commands : b[1] < i /\ i < b[2]
    OBVIOUS
  <2>4. i \in DOMAIN console /\ \A y \in DOMAIN console : y < i => y \notin S
    BY <1>1, <2>1
  <2> DEFINE x == b[1]
  <2>5. /\ x \in DOMAIN console /\ IsBegin(x) /\ Closes(b[2], x) /\ x < i /\ i < b[2]
        /\ b[2] \in Nat
    BY <1>1, <1>2, <1>3, <2>3
  <2>6. PICK e1, p1, q1 :
          /\ e1 \in DOMAIN Commands /\ Bounds(g, e1, p1, q1)
          /\ \/ x = p1 /\ IdAt(x) = Commands[e1].id
             \/ console[x].k = "out" /\ p1 < x /\ x < q1
    BY <2>5, OpenedWithin
  <2> e \in DOMAIN Commands /\ e1 \in DOMAIN Commands
    BY <2>2, <2>6
  <2>7. p1 \in DOMAIN console /\ q1 \in DOMAIN console /\ p1 <= x /\ p1 < i
    BY <1>1, <2>5, <2>6 DEF Bounds
  <2>8. q1 < i
    <3>1. /\ g[p1] = BeginOf(e1) /\ g[q1] = EndOf(e1) /\ g[i] = BeginOf(e)
          /\ console[i] \notin {Junk, Marker}
      BY <2>2, <2>6, BoundsMatch DEF Bounds
    <3>2. g[p1] < g[i]
      BY <2>4, <2>7, <3>1, ShownLine
    <3>3. e1 < e
      <4>1. e \in Nat /\ e1 \in Nat
        BY CommandsType
      <4>2. e # e1 /\ ~ (e < e1)
        BY <3>1, <3>2, <4>1, Places, Sizes DEF EndOf
      <4> QED
        BY <4>1, <4>2
    <3>4. g[q1] < g[i]
      BY <3>1, <3>3, Places
    <3>5. i <= q1 => g[i] <= g[q1]
      BY <1>1, <2>4, <2>7 DEF Booted, Placed
    <3> QED
      BY <1>1, <2>4, <2>7, <3>4, <3>5
  <2>9. p1 < q1 /\ Closes(q1, p1)
    BY <2>6, ClosedByEnd
  <2> HIDE DEF S
  <2>10. CASE x = p1
    <3>1. q1 \in x + 1 .. b[2] - 1
      <4>1. x \in Nat /\ q1 \in Nat /\ i \in Nat /\ b[2] \in Nat
        BY <1>1, <2>4, <2>5, <2>7
      <4>2. x < q1 /\ q1 < i /\ i < b[2]
        BY <2>5, <2>8, <2>9, <2>10
      <4> QED
        BY <4>1, <4>2
    <3>2. EndsBlock(q1, x)
      <4>1. IdAt(p1) = Commands[e1].id /\ Match(console[q1]).k = "end" /\ IdAt(q1) = Commands[e1].id
        BY <2>6, BoundsMatch
      <4> QED
        BY <2>10, <4>1 DEF EndsBlock
    <3> QED
      BY <2>5, <3>1, <3>2 DEF Closes
  <2>11. CASE console[x].k = "out" /\ p1 < x /\ x < q1
    <3>1. ~ Inside(p1)
      BY <2>4, <2>6, <2>7 DEF S
    <3>2. PICK b1 \in parse_commands : b1[1] = p1 /\ b1[2] = q1
      BY <1>4, <2>6, <3>1
    <3>3. Inside(x)
      BY <2>11, <3>2
    <3> QED
      BY <1>2, <2>3, <2>5, <3>3 DEF IsParse
  <2> QED
    BY <2>6, <2>10, <2>11
<1>6. ~ Inside(p)
  BY <1>5 DEF Bounds
<1> QED
  BY <1>4, <1>6

(* No other block has the id of a command. *)
LEMMA OneBlock ==
  ASSUME NEW g, Booted(g), LinesInv, Intact, \A c \in DOMAIN Commands : ~ ClosesItself(c),
         NEW c \in DOMAIN Commands, NEW p, NEW q, Bounds(g, c, p, q),
         NEW b \in parse_commands, IdAt(b[1]) = Commands[c].id
  PROVE  b[1] = p
<1> DEFINE x == b[1]
<1>1. parse_commands \subseteq Blocks /\ IsParse(parse_commands)
  BY ParseExists
<1>2. x \in DOMAIN console /\ IsBegin(x)
  BY <1>1 DEF Blocks
<1> HIDE DEF x
<1>3. PICK e, p1, q1 :
        /\ e \in DOMAIN Commands /\ Bounds(g, e, p1, q1)
        /\ \/ x = p1 /\ IdAt(x) = Commands[e].id
           \/ console[x].k = "out" /\ p1 < x /\ x < q1
  BY <1>2, OpenedWithin
<1> e \in DOMAIN Commands
  BY <1>3
<1>4. CASE x = p1 /\ IdAt(x) = Commands[e].id
  <2>1. e = c
    BY <1>4, CommandsType DEF x
  <2>2. p1 = p
    BY <1>3, <2>1, OneLine, BoundsMatch DEF Bounds
  <2> QED
    BY <1>4, <2>2 DEF x
<1>5. CASE p1 < x /\ x < q1
  <2>1. PICK b1 \in parse_commands : b1[1] = p1 /\ b1[2] = q1
    BY <1>3, BeginOpens
  <2>2. \E b2 \in parse_commands : b2[1] < x /\ x < b2[2]
    BY <1>5, <2>1
  <2> QED
    BY <1>1, <1>2, <2>2 DEF IsParse, x
<1> QED
  BY <1>3, <1>4, <1>5

(* The block of a command that did what the manifest expects is right. *)
LEMMA MetCommand ==
  ASSUME NEW g, Booted(g), LinesInv, MarkerInv, Intact, BlocksUndisturbed,
         \A c \in DOMAIN Commands : ~ ClosesItself(c),
         NEW c \in DOMAIN Commands, Met(c)
  PROVE  CommandOK(Commands[c], parse_commands)
<1> DEFINE id == Commands[c].id
           text(k) == did[c].out[k].text
<1>1. DOMAIN console \subseteq Nat /\ DOMAIN console = 1 .. Len(console) /\ Len(console) \in Nat
  BY LenProperties DEF LinesInv
<1>2. PICK p, q : Bounds(g, c, p, q)
  BY BothShown
<1>3. /\ p \in DOMAIN console /\ q \in DOMAIN console /\ g[p] = BeginOf(c) /\ g[q] = EndOf(c)
      /\ console[p] \notin {Junk, Marker} /\ console[q] \notin {Junk, Marker}
      /\ console[p].k = "begin" /\ IdAt(p) = id /\ Match(console[q]).rc = did[c].rc
  BY <1>2, BoundsMatch DEF Bounds
<1>4. PICK b \in parse_commands : b[1] = p /\ b[2] = q
  BY <1>2, BeginOpens
<1>5. \A later \in parse_commands : IdAt(later[1]) = id => later[1] <= b[1]
  BY <1>1, <1>2, <1>3, <1>4, OneBlock
<1>6. /\ p < q
      /\ \A m \in DOMAIN console : p < m /\ m < q /\ console[m] \notin {Junk, Marker} =>
           \E k \in 1 .. Height : g[m] = OutOf(c, k) /\ console[m] = did[c].out[k]
      /\ \A k \in 1 .. Height : \E m \in DOMAIN console :
           /\ p < m /\ m < q /\ g[m] = OutOf(c, k)
           /\ console[m] \in {did[c].out[k], Junk}
  BY <1>1, <1>3, Body
<1>7. ASSUME NEW m \in DOMAIN console, p < m, m < q
      PROVE  /\ console[m] \notin {Junk, Marker} /\ console[m].k = "out"
             /\ \E k \in 1 .. Height : g[m] = OutOf(c, k) /\ console[m] = did[c].out[k]
  <2>1. \A n \in DOMAIN console : p < n /\ n < q => console[n] # Marker
    BY <1>3 DEF MarkerInv
  <2>2. console[m] # Junk
    <3> SUFFICES ASSUME console[m] = Junk
                 PROVE  FALSE
      OBVIOUS
    <3>1. PICK e \in p + 1 .. m - 1 : console[e].k = "end"
      BY <1>3, <1>7 DEF BlocksUndisturbed
    <3>2. e \in DOMAIN console /\ p < e /\ e < q
      BY <1>1, <1>3, <1>7
    <3>3. console[e] \notin {Junk, Marker}
      BY <3>1 DEF Junk, Marker
    <3>4. PICK k \in 1 .. Height : console[e] = did[c].out[k]
      BY <1>6, <3>2, <3>3
    <3> QED
      BY <3>1, <3>4, OutKind DEF Booted
  <2>3. console[m] \notin {Junk, Marker}
    BY <1>7, <2>1, <2>2
  <2>4. PICK k \in 1 .. Height : g[m] = OutOf(c, k) /\ console[m] = did[c].out[k]
    BY <1>6, <1>7, <2>3
  <2> QED
    BY <2>3, <2>4, OutKind DEF Booted
<1> DEFINE lines == SubSeq(console, p + 1, q - 1)
<1>8. /\ DOMAIN lines = 1 .. q - p - 1
      /\ \A m \in DOMAIN lines :
           /\ lines[m] = console[p + m]
           /\ p + m \in DOMAIN console /\ p < p + m /\ p + m < q
  BY <1>3, <1>6, BodyLines
<1> HIDE DEF lines
<1>9. \A m \in DOMAIN lines :
        /\ lines[m].k = "out" /\ console[p + m] \notin {Junk, Marker}
        /\ \E k \in 1 .. Height : g[p + m] = OutOf(c, k) /\ lines[m] = did[c].out[k]
  BY <1>7, <1>8
<1>10. ASSUME NEW k \in 1 .. Height
       PROVE  \E m \in DOMAIN lines : lines[m] = did[c].out[k] /\ g[p + m] = OutOf(c, k)
  <2>1. PICK m \in DOMAIN console :
          p < m /\ m < q /\ g[m] = OutOf(c, k) /\ console[m] \in {did[c].out[k], Junk}
    BY <1>6
  <2>2. m - p \in DOMAIN lines /\ p + (m - p) = m
    BY <1>1, <1>3, <1>8, <2>1
  <2>3. console[m] = did[c].out[k]
    BY <1>7, <2>1
  <2> QED
    BY <1>8, <2>1, <2>2, <2>3
<1>11. Commands[c].mode \in {"none", "equals", "contains"}
  <2>1. Commands \in Seq([id : STRING, expect_rc : Int, expect : STRING,
                          mode : {"none", "equals", "contains"}])
    BY CommandsAssumption
  <2>2. c \in 1 .. Len(Commands)
    BY CommandsType DEF NCommands
  <2>3. Commands[c] \in [id : STRING, expect_rc : Int, expect : STRING,
                         mode : {"none", "equals", "contains"}]
    BY <2>1, <2>2, ElementOfSeq
  <2> QED
    BY <2>3
<1>12. ASSUME Commands[c].mode = "contains"
       PROVE  \E m \in DOMAIN lines : Commands[c].expect \in Carried(lines[m])
  <2>1. PICK k \in 1 .. Height : Commands[c].expect \in Carries[text(k)]
    BY <1>12 DEF Met
  <2>2. PICK m \in DOMAIN lines : lines[m] = did[c].out[k]
    BY <1>10
  <2> QED
    BY <1>9, <2>1, <2>2 DEF Carried
<1>13. ASSUME Commands[c].mode = "equals"
       PROVE  StripsTo(lines, Commands[c].expect)
  <2> DEFINE e == Commands[c].expect
             there == {k \in 1 .. Height : text(k) # "blank"}
             here == {m \in DOMAIN lines : ~ IsBlank(lines[m])}
  <2>1. /\ \A k, m \in there : k = m
        /\ {text(k) : k \in there} = {e} \ {"blank"}
    BY <1>13 DEF Met
  <2>2. ASSUME NEW m \in here
        PROVE  \E k \in there : /\ g[p + m] = OutOf(c, k) /\ lines[m] = did[c].out[k]
                                /\ lines[m].k = "out"
    <3>1. m \in DOMAIN lines /\ lines[m].k = "out" /\ lines[m].text # "blank"
      BY <1>9 DEF IsBlank
    <3> QED
      BY <1>9, <3>1
  <2>3. ASSUME NEW k \in there
        PROVE  \E m \in here : lines[m] = did[c].out[k]
    <3>1. PICK m \in DOMAIN lines : lines[m] = did[c].out[k]
      BY <1>10
    <3> QED
      BY <3>1 DEF IsBlank
  <2>4. \A k \in there : text(k) = e /\ e # "blank"
    <3> HIDE DEF there, e, text
    <3> QED
      BY <2>1
  <2>5. e # "blank" => \E k \in there : text(k) = e
    <3> HIDE DEF there, e, text
    <3> QED
      BY <2>1
  <2>6. \A m, n \in here : m = n
    <3> SUFFICES ASSUME NEW m \in here, NEW n \in here
                 PROVE  m = n
      OBVIOUS
    <3>1. PICK k \in there : g[p + m] = OutOf(c, k)
      BY <2>2
    <3>2. PICK l \in there : g[p + n] = OutOf(c, l)
      BY <2>2
    <3>3. g[p + m] = g[p + n]
      BY <2>1, <3>1, <3>2
    <3>4. /\ m \in DOMAIN lines /\ n \in DOMAIN lines
          /\ p + m \in DOMAIN console /\ p + n \in DOMAIN console
          /\ console[p + m] \notin {Junk, Marker} /\ console[p + n] \notin {Junk, Marker}
      BY <1>8, <1>9
    <3>5. p + m = p + n
      BY <3>3, <3>4, OneLine
    <3> QED
      BY <1>1, <1>3, <1>8, <3>4, <3>5
  <2>7. CASE e = "blank"
    <3>1. here = {}
      BY <2>2, <2>4, <2>7
    <3> QED
      BY <2>7, <3>1 DEF StripsTo
  <2>8. CASE e # "blank"
    <3>1. PICK k \in there : text(k) = e
      BY <2>5, <2>8
    <3>2. PICK m \in here : lines[m] = did[c].out[k]
      BY <2>3
    <3>3. lines[m].k = "out" /\ lines[m].text = e
      BY <1>9, <3>1, <3>2
    <3>4. here = {m}
      BY <2>6, <3>2
    <3> QED
      BY <2>8, <3>2, <3>3, <3>4 DEF StripsTo
  <2> QED
    BY <2>7, <2>8
<1>14. MeetsText(Commands[c], lines)
  BY <1>11, <1>12, <1>13 DEF MeetsText
<1>15. Match(console[b[2]]).rc = Commands[c].expect_rc /\ b[2] <= Len(console)
  BY <1>1, <1>3, <1>4 DEF Met
<1>16. MeetsText(Commands[c], SubSeq(console, b[1] + 1, b[2] - 1))
  BY <1>4, <1>14 DEF lines
<1> QED
  BY <1>3, <1>4, <1>5, <1>15, <1>16 DEF CommandOK

LEMMA GoodPasses ==
  ASSUME BootInv, ScriptInv, run_result # NoResult, Done, Intact, BlocksUndisturbed,
         \A c \in DOMAIN Commands : ~ ClosesItself(c)
  PROVE  passed
<1>1. /\ LinesInv /\ MarkerInv /\ BootTypeOK /\ GuestEnded /\ exit_code = 0
      /\ sent \in 0 .. Len(script)
  BY DEF BootInv, BootSound, BootTypeOK, Done, GuestEnded
<1>2. script # << >> /\ did \in Behaviours /\ script = SmokeScript(did)
  BY <1>1 DEF GuestEnded, ScriptInv
<1>3. LastLine \in Nat /\ LastLine >= 2 /\ Len(script) = LastLine /\ DOMAIN script = 1 .. LastLine
  BY <1>2, Places, ScriptLines, LenProperties
<1>4. PICK g : Booted(g)
  BY <1>1, <1>2, <1>3 DEF BootInv, PlacedInv, Booted
<1>5. Appears(MBegin)
  <2>1. 1 \in DOMAIN script /\ script[1] = MBegin
    BY <1>2, <1>3, ScriptLines
  <2>2. PICK j \in DOMAIN console : console[j] = MBegin
    BY <2>1 DEF Intact
  <2> QED
    BY <2>2 DEF Appears, Match, MBegin
<1>6. Appears(MEnd)
  <2>1. LastLine \in DOMAIN script /\ script[LastLine] = MEnd
    BY <1>2, <1>3, ScriptLines
  <2>2. PICK j \in DOMAIN console : console[j] = MEnd
    BY <2>1 DEF Intact
  <2> QED
    BY <2>2 DEF Appears, Match, MEnd
<1>7. shutdown_ok
  <2>1. MarkerSeen
    BY DEF Intact, MarkerSeen
  <2>2. run_result.exit_code = 0 /\ ~ run_result.timed_out
    <3>1. run_result = [timed_out |-> exit_code = Killed, exit_code |-> exit_code]
      BY <1>1 DEF BootTypeOK
    <3>2. exit_code # Killed
      BY <1>1 DEF Killed
    <3> QED
      BY <1>1, <3>1, <3>2
  <2> QED
    BY <2>1, <2>2 DEF shutdown_ok
<1>8. \A c \in DOMAIN Commands : CommandOK(Commands[c], parse_commands)
  BY <1>1, <1>4, MetCommand DEF Done
<1> QED
  BY <1>5, <1>6, <1>7, <1>8 DEF passed

-----------------------------------------------------------------------------
(* The invariant holds of every reachable state. *)

LEMMA BootFrame ==
  ASSUME BootInv, ScriptInv, UNCHANGED bootVars, UNCHANGED did
  PROVE  BootInv' /\ ScriptInv'
<1>1. UNCHANGED <<qemu, guest, script, sent, console, noise, exit_code, run_result>>
  BY DEF bootVars
<1>2. BootSound'
  BY BootSoundFrame DEF BootInv
<1>3. LinesInv' /\ MarkerInv' /\ ConsoleBound' /\ ScriptInv'
  BY <1>1 DEF BootInv, LinesInv, MarkerInv, ConsoleBound, ScriptInv, Behaviours
<1>4. PlacedInv'
  <2>1. \A g : Placed(g) => Placed(g)'
    BY <1>1 DEF Placed
  <2> QED
    BY <1>1, <2>1 DEF BootInv, PlacedInv
<1> QED
  BY <1>2, <1>3, <1>4 DEF BootInv

(* Why the smoke test may be red. *)
Cause ==
  \/ ~ Done \/ ~ Intact \/ ~ BlocksUndisturbed
  \/ \E c \in DOMAIN Commands : ClosesItself(c)

(* The facts of which the conclusions are made do not change by themselves. *)
LEMMA GoodFrame ==
  ASSUME UNCHANGED bootVars, UNCHANGED did
  PROVE  /\ Good' = Good /\ Cause' = Cause
         /\ BootReturned' = BootReturned
<1>1. UNCHANGED <<qemu, guest, script, sent, console, noise, exit_code, run_result, did>>
  BY DEF bootVars
<1> QED
  BY <1>1 DEF Good, Cause, Done, GuestEnded, Met, Forged, ClosesItself, Printed, Intact,
              BlocksUndisturbed, BootReturned, NoResult

LEMMA InitIInv == Init => IInv
<1> SUFFICES ASSUME Init
             PROVE  IInv
  OBVIOUS
<1> USE DEF Init, BootInit
<1>1. BootSound
  BY BootSoundInit
<1>2. LinesInv /\ MarkerInv /\ ScriptInv
  BY DEF LinesInv, MarkerInv, ScriptInv
<1>3. ConsoleBound
  BY DEF ConsoleBound
<1>4. PlacedInv
  <2> DEFINE g == [k \in {} |-> 0]
  <2>1. DOMAIN console = {} /\ 1 .. sent = {}
    OBVIOUS
  <2>2. g \in [DOMAIN console -> 0 .. sent]
    BY <2>1
  <2>3. Placed(g)
    BY <2>1 DEF Placed
  <2> QED
    BY <2>2, <2>3 DEF PlacedInv
<1>5. StepInv /\ GreenMeansMet /\ RedMeansCause
  BY DEF StepInv, GreenMeansMet, RedMeansCause
<1> QED
  BY <1>1, <1>2, <1>3, <1>4, <1>5 DEF IInv, BootInv

(* A step that leaves the boot alone, and its conclusion, if it gives one. *)
LEMMA JobOnly ==
  ASSUME IInv, step # "end", UNCHANGED bootVars, UNCHANGED did,
         \/ verdict' = "none" /\ step' \in {"boot", "parse"}
         \/ verdict' \in {"green", "red", "cancelled"} /\ step' = "end",
         step' = "boot" => step = "render",
         step' = "parse" => BootReturned,
         verdict' = "green" => Good,
         verdict' = "red" => Cause \/ qemu = "unrecorded"
  PROVE  IInv'
<1>1. BootInv' /\ ScriptInv'
  BY BootFrame DEF IInv
<1>2. /\ Good' = Good /\ Cause' = Cause
      /\ BootReturned' = BootReturned /\ qemu' = qemu
  BY GoodFrame DEF bootVars
<1>3. StepInv'
  BY <1>2 DEF IInv, StepInv, Behaviours
<1>4. GreenMeansMet' /\ RedMeansCause'
  BY <1>2 DEF GreenMeansMet, RedMeansCause, Cause
<1> QED
  BY <1>1, <1>3, <1>4 DEF IInv

(* Nothing runs before the boot, and nothing that ran before is left. *)
LEMMA BootGuestStep ==
  ASSUME IInv, BootGuest
  PROVE  IInv'
<1>1. /\ step = "boot" /\ step' = "booting" /\ verdict' = verdict /\ verdict = "none"
      /\ BootInv /\ qemu = "off" /\ script = << >>
  BY DEF BootGuest, IInv, StepInv, BootInv, BootSound
<1>2. /\ console' = << >> /\ sent' = 0 /\ noise' = 0
      /\ (script' # << >> => did' \in Behaviours /\ script' = SmokeScript(did'))
      /\ (did' # << >> => did' \in Behaviours)
      /\ script' \in Seq(SmokeLines) /\ BootSound'
  <2>1. ASSUME NEW d \in Behaviours, did' = d, StartBoot(SmokeScript(d))
        PROVE  /\ console' = << >> /\ sent' = 0 /\ noise' = 0 /\ script' = SmokeScript(did')
               /\ did' \in Behaviours /\ script' \in Seq(SmokeLines) /\ BootSound'
    <3>1. SmokeScript(d) \in Seq(SmokeLines)
      BY ScriptLines
    <3>2. BootSound' /\ script' \in Seq(SmokeLines)
      BY <2>1, <3>1, BootSoundStart
    <3> QED
      BY <2>1, <3>2 DEF StartBoot
  <2>2. CASE RefuseBoot /\ UNCHANGED did
    <3>1. << >> \in Seq(SmokeLines)
      OBVIOUS
    <3>2. BootSound'
      BY <2>2, <3>1, BootSoundStart
    <3> QED
      BY <2>2, <3>1, <3>2 DEF RefuseBoot, IInv, StepInv
  <2> QED
    BY <2>1, <2>2 DEF BootGuest
<1>3. LinesInv' /\ MarkerInv' /\ ScriptInv'
  BY <1>2 DEF LinesInv, MarkerInv, ScriptInv, Behaviours
<1>4. ConsoleBound'
  BY <1>2 DEF ConsoleBound
<1>5. PlacedInv'
  <2> DEFINE g == [k \in {} |-> 0]
  <2>1. DOMAIN console' = {} /\ 1 .. sent' = {}
    BY <1>2
  <2>2. g \in [DOMAIN console' -> 0 .. sent']
    BY <2>1
  <2>3. Placed(g)'
    BY <2>1 DEF Placed
  <2> QED
    BY <2>2, <2>3 DEF PlacedInv
<1>6. StepInv'
  BY <1>1, <1>2 DEF StepInv, Behaviours
<1>7. GreenMeansMet' /\ RedMeansCause'
  BY <1>1 DEF GreenMeansMet, RedMeansCause
<1> QED
  BY <1>2, <1>3, <1>4, <1>5, <1>6, <1>7 DEF IInv, BootInv

(* Every step preserves it. *)
LEMMA NextIInv == IInv /\ [Next]_vars => IInv'
<1> SUFFICES ASSUME IInv, [Next]_vars
             PROVE  IInv'
  OBVIOUS
<1>0. BootInv /\ ScriptInv /\ StepInv /\ BootSound /\ script \in Seq(SmokeLines)
  BY DEF IInv, BootInv, LinesInv
<1>1. CASE UNCHANGED vars
  <2>1. UNCHANGED bootVars /\ UNCHANGED <<step, did, verdict>>
    BY <1>1 DEF vars, laneVars
  <2>2. BootInv' /\ ScriptInv'
    BY <1>0, <2>1, BootFrame
  <2>3. /\ Good' = Good /\ Cause' = Cause
        /\ BootReturned' = BootReturned /\ qemu' = qemu
    BY <2>1, GoodFrame DEF bootVars
  <2> QED
    BY <2>1, <2>2, <2>3 DEF IInv, StepInv, Behaviours, GreenMeansMet, RedMeansCause, Cause
<1>2. CASE step # "end" /\ (GuestWrites \/ GuestOther \/ HostProgress)
  <2>1. BootInv' /\ ScriptInv'
    BY <1>2, BootSteps
  <2>2. UNCHANGED <<step, did, verdict>> /\ verdict = "none"
    BY <1>0, <1>2 DEF GuestWrites, GuestOther, HostProgress, laneVars, StepInv
  <2>3. \E line : WriteLine(line) \/ WriteNoise(line) \/ PowerDown(line) \/ QuietStep
    BY <1>2 DEF GuestWrites, GuestOther, HostProgress, QuietStep
  <2>4. ~ BootReturned
    BY <1>0, <2>3, ReturnedIsOver
  <2>5. qemu # "off"
    BY <2>3 DEF WriteLine, WriteNoise, PowerDown, QuietStep, ScriptEnds, SystemOff, GuestResets,
                QemuDies, HostStep, QemuExits, TimeoutKills, QemuEnds, EmitRunResult, EmitFails
  <2>6. StepInv'
    BY <1>0, <2>2, <2>4, <2>5 DEF StepInv, Behaviours
  <2> QED
    BY <2>1, <2>2, <2>6 DEF IInv, GreenMeansMet, RedMeansCause
<1>3. CASE RenderSeed
  <2>1. script = << >>
    BY <1>0, <1>3 DEF RenderSeed, StepInv, BootSound
  <2>2. ~ Good /\ Cause
    BY <2>1 DEF Good, Cause, Done, GuestEnded
  <2> QED
    BY <1>0, <1>3, <2>2, JobOnly DEF RenderSeed, StepInv
<1>4. CASE BootGuest
  BY <1>4, BootGuestStep
<1>5. CASE BootReturns
  BY <1>0, <1>5, JobOnly DEF BootReturns, StepInv
<1>6. CASE ParseTranscript
  <2>1. step = "parse" /\ step' = "end" /\ UNCHANGED did /\ UNCHANGED bootVars /\ BootReturned
    BY <1>0, <1>6 DEF ParseTranscript, StepInv
  <2>2. CASE run_result # NoResult /\ passed
    <3>1. verdict' = "green"
      BY <1>6, <2>2 DEF ParseTranscript
    <3> QED
      BY <1>0, <2>1, <2>2, <3>1, PassedMeansGood, JobOnly
  <2>3. CASE ~ (run_result # NoResult /\ passed)
    <3>1. verdict' = "red"
      BY <1>6, <2>3 DEF ParseTranscript
    <3>2. ASSUME ~ Cause
          PROVE  qemu = "unrecorded"
      <4>1. run_result = NoResult
        BY <1>0, <2>3, <3>2, GoodPasses DEF Cause
      <4>2. qemu # "refused"
        BY <1>0, <3>2 DEF BootSound, Cause, Done, GuestEnded
      <4> QED
        BY <2>1, <4>1, <4>2 DEF BootReturned
    <3> QED
      BY <2>1, <3>1, <3>2, JobOnly
  <2> QED
    BY <2>2, <2>3
<1>7. CASE JobCancelled
  BY <1>7, JobOnly DEF JobCancelled
<1>8. CASE Ended
  BY <1>1, <1>8 DEF Ended
<1> QED
  BY <1>1, <1>2, <1>3, <1>4, <1>5, <1>6, <1>7, <1>8 DEF Next, JobStep

(* The inductive invariant is an invariant. *)
THEOREM Inductive == Spec => []IInv
  BY InitIInv, NextIInv, PTL DEF Spec

(* Every variable keeps its type, and the transcript is no longer than the *)
(* script and what may be put between its lines.                           *)
THEOREM TypeCorrect == Spec => []TypeOK
<1>1. IInv => TypeOK
  <2> SUFFICES ASSUME IInv
               PROVE  TypeOK
    OBVIOUS
  <2>1. BootTypeOK /\ ConsoleBound /\ StepInv /\ LinesInv
    BY DEF IInv, BootInv, BootSound
  <2>2. Len(console) <= Len(script) + MaxNoise + 1
    <3>1. Len(script) \in Nat /\ Len(console) \in Nat
      BY <2>1, LenProperties DEF LinesInv
    <3> QED
      BY <2>1, <3>1, BootAssumption DEF BootTypeOK, ConsoleBound
  <2> QED
    BY <2>1, <2>2 DEF TypeOK, StepInv, Behaviours
<1> QED
  BY <1>1, Inductive, PTL

(* A green smoke test means that each command whose sentinels no command   *)
(* prints as a whole line really did what the manifest expects of it, in a *)
(* guest that ended by itself, after the script's last line unless a       *)
(* command prints that.                                                    *)
THEOREM GreenIsMet == Spec => []GreenMeansMet
<1>1. IInv => GreenMeansMet
  BY DEF IInv
<1> QED
  BY <1>1, Inductive, PTL

(* A guest that did everything, and whose transcript came through, passes, *)
(* whatever sentinels its commands print but their own END.                *)
THEOREM RedHasCause == Spec => []RedMeansCause
<1>1. IInv => RedMeansCause
  BY DEF IInv
<1> QED
  BY <1>1, Inductive, PTL

-----------------------------------------------------------------------------
(* The lane as a gate. *)

LEMMA GateStep ==
  ASSUME IInv, IInv', [Next]_vars
  PROVE  [G!Next]_(G!gateVars)
<1>1. Good \in BOOLEAN /\ Good' \in BOOLEAN
  BY DEF Good, GuestEnded
<1>2. step # "end" => verdict = "none"
  BY DEF IInv, StepInv
<1>3. verdict' \in {"none", "green", "red", "cancelled"} /\ (verdict' = "green" => Good')
  BY DEF IInv, StepInv, GreenMeansMet
<1>4. CASE UNCHANGED verdict /\ step # "end"
  BY <1>1, <1>2, <1>4 DEF G!Next, G!Observe
<1>5. CASE UNCHANGED <<bootVars, did>> /\ (UNCHANGED verdict \/ step # "end")
  <2>1. Good' = Good
    BY <1>5, GoodFrame
  <2> QED
    BY <1>2, <1>3, <1>5, <2>1 DEF G!Next, G!Decide, G!gateVars
<1> QED
  BY <1>4, <1>5 DEF Next, JobStep, vars, laneVars, GuestWrites, GuestOther, HostProgress, RenderSeed,
     BootGuest, BootReturns, ParseTranscript, JobCancelled, Ended

(* The lane never does what the gate does not allow: the safety part of    *)
(* ImplementsGate.  That it concludes is checked, not proved.              *)
THEOREM RefinesGate == Spec => G!Init /\ [][G!Next]_(G!gateVars)
<1>1. Init => G!Init
  BY DEF Init, G!Init, Good, GuestEnded
<1>2. IInv /\ IInv' /\ [Next]_vars => [G!Next]_(G!gateVars)
  BY GateStep
<1> QED
  BY <1>1, <1>2, Inductive, PTL DEF Spec
=============================================================================

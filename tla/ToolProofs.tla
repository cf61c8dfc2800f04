----------------------------- MODULE ToolProofs -----------------------------
(***************************************************************************)
(* What "genpkey", "dhparam" and "crl" promise, as theorems: for any       *)
(* command lines, any commands before, "req" among them, and any files.    *)
(***************************************************************************)
EXTENDS Tools, WellFoundedInduction, TLAPS

----------------------------------------------------------------------------
(* The last of the arguments that have a flag *)

LEMMA Smallest ==
  ASSUME NEW S \in SUBSET Nat, S # {}
  PROVE  \E m \in S : \A k \in S : m <= k
<1>1. PICK m \in S : \A k \in S : ~(<<k, m>> \in OpToRel(<, Nat))
  BY NatLessThanWellFounded, WFMin
<1>2. ASSUME NEW k \in S PROVE ~(k < m)
  BY <1>1 DEF OpToRel
<1>3. \A k \in S : m <= k
  BY <1>2
<1> QED
  BY <1>3

\* The places of a flag, and of an option of -pkeyopt, in the first n arguments.
Places(args, flag, n) == {i \in 1 .. n : args[i][1] = flag}
OptionPlaces(args, name, n) == {i \in 1 .. n : args[i][1] = "-pkeyopt" /\ args[i][2][1] = name}

LastOf(at) == CHOOSE i \in at : \A j \in at : j <= i

\* What stands there.
GivenIn(args, flag, default, n) ==
  IF Places(args, flag, n) = {} THEN default ELSE args[LastOf(Places(args, flag, n))][2]
OptionIn(args, name, default, n) ==
  IF OptionPlaces(args, name, n) = {} THEN default ELSE args[LastOf(OptionPlaces(args, name, n))][2][2]

Asked(args, flag, n) == Places(args, flag, n) # {}

LEMMA LastIs ==
  ASSUME NEW at, NEW n \in Nat, at \subseteq 1 .. n, NEW i \in at, \A j \in at : j <= i
  PROVE  LastOf(at) = i
<1>1. PICK c : c = LastOf(at)
  OBVIOUS
<1>2. c \in at /\ \A j \in at : j <= c
  BY <1>1 DEF LastOf
<1> QED
  BY <1>1, <1>2

LEMMA NoneGiven ==
  ASSUME NEW args, NEW flag, NEW default
  PROVE  GivenIn(args, flag, default, 0) = default
<1>1. Places(args, flag, 0) = {}
  BY DEF Places
<1> QED
  BY <1>1 DEF GivenIn

LEMMA PlacesGrow ==
  ASSUME NEW args, NEW flag, NEW n \in Nat
  PROVE  /\ args[n + 1][1] = flag => /\ n + 1 \in Places(args, flag, n + 1)
                                     /\ LastOf(Places(args, flag, n + 1)) = n + 1
         /\ args[n + 1][1] # flag => Places(args, flag, n + 1) = Places(args, flag, n)
<1>1. ASSUME args[n + 1][1] = flag
      PROVE  n + 1 \in Places(args, flag, n + 1) /\ LastOf(Places(args, flag, n + 1)) = n + 1
  <2>1. PICK at : at = Places(args, flag, n + 1)
    OBVIOUS
  <2>2. at \subseteq 1 .. n + 1 /\ n + 1 \in at /\ \A j \in at : j <= n + 1
    BY <1>1, <2>1 DEF Places
  <2> QED
    BY <2>1, <2>2, LastIs
<1>2. ASSUME args[n + 1][1] # flag
      PROVE  Places(args, flag, n + 1) = Places(args, flag, n)
  BY <1>2 DEF Places
<1> QED
  BY <1>1, <1>2

LEMMA GivenGrows ==
  ASSUME NEW args, NEW flag, NEW default, NEW n \in Nat
  PROVE  GivenIn(args, flag, default, n + 1) =
           IF args[n + 1][1] = flag THEN args[n + 1][2] ELSE GivenIn(args, flag, default, n)
<1>1. CASE args[n + 1][1] = flag
  <2>1. n + 1 \in Places(args, flag, n + 1) /\ LastOf(Places(args, flag, n + 1)) = n + 1
    BY <1>1, PlacesGrow
  <2> QED
    BY <1>1, <2>1 DEF GivenIn
<1>2. CASE args[n + 1][1] # flag
  <2>1. Places(args, flag, n + 1) = Places(args, flag, n)
    BY <1>2, PlacesGrow
  <2> QED
    BY <1>2, <2>1 DEF GivenIn
<1> QED
  BY <1>1, <1>2

LEMMA NoneAsked ==
  ASSUME NEW args, NEW flag
  PROVE  ~Asked(args, flag, 0)
BY DEF Asked, Places

LEMMA AskedGrows ==
  ASSUME NEW args, NEW flag, NEW n \in Nat
  PROVE  Asked(args, flag, n + 1) <=> (Asked(args, flag, n) \/ args[n + 1][1] = flag)
<1>1. CASE args[n + 1][1] = flag
  BY <1>1, PlacesGrow DEF Asked
<1>2. CASE args[n + 1][1] # flag
  BY <1>2, PlacesGrow DEF Asked
<1> QED
  BY <1>1, <1>2

LEMMA NoOption ==
  ASSUME NEW args, NEW name, NEW default
  PROVE  OptionIn(args, name, default, 0) = default
<1>1. OptionPlaces(args, name, 0) = {}
  BY DEF OptionPlaces
<1> QED
  BY <1>1 DEF OptionIn

LEMMA OptionsGrow ==
  ASSUME NEW args, NEW name, NEW default, NEW n \in Nat
  PROVE  OptionIn(args, name, default, n + 1) =
           IF args[n + 1][1] = "-pkeyopt" /\ args[n + 1][2][1] = name THEN args[n + 1][2][2]
           ELSE OptionIn(args, name, default, n)
<1>1. CASE args[n + 1][1] = "-pkeyopt" /\ args[n + 1][2][1] = name
  <2>1. PICK at : at = OptionPlaces(args, name, n + 1)
    OBVIOUS
  <2>2. at \subseteq 1 .. n + 1 /\ n + 1 \in at /\ \A j \in at : j <= n + 1
    BY <1>1, <2>1 DEF OptionPlaces
  <2>3. n + 1 \in OptionPlaces(args, name, n + 1) /\ LastOf(OptionPlaces(args, name, n + 1)) = n + 1
    BY <2>1, <2>2, LastIs
  <2> QED
    BY <1>1, <2>3 DEF OptionIn
<1>2. CASE ~(args[n + 1][1] = "-pkeyopt" /\ args[n + 1][2][1] = name)
  <2>1. OptionPlaces(args, name, n + 1) = OptionPlaces(args, name, n)
    BY <1>2 DEF OptionPlaces
  <2> QED
    BY <1>2, <2>1 DEF OptionIn
<1> QED
  BY <1>1, <1>2

----------------------------------------------------------------------------
(* The options of "genpkey" *)

GenpkeyAfter(args, g, n) ==
  g = [i \in 0 .. n |-> IF i = 0 THEN GenpkeyDefaults ELSE GenpkeyArgument(g[i - 1], args[i])]

\* There is such a function, and so the definition by recursion is one.
LEMMA GenpkeyAfterExists ==
  ASSUME NEW args, NEW n \in Nat
  PROVE  \E g : GenpkeyAfter(args, g, n)
<1> DEFINE Bad == {k \in Nat : ~ \E g : GenpkeyAfter(args, g, k)}
<1>1. SUFFICES ASSUME Bad # {} PROVE FALSE
  OBVIOUS
<1>2. PICK m \in Bad : \A k \in Bad : m <= k
  <2>1. Bad \in SUBSET Nat
    OBVIOUS
  <2> HIDE DEF Bad
  <2> QED
    BY <1>1, <2>1, Smallest
<1>3. m # 0
  <2>1. PICK g : g = [i \in 0 .. 0 |-> GenpkeyDefaults]
    OBVIOUS
  <2>2. GenpkeyAfter(args, g, 0)
    BY <2>1 DEF GenpkeyAfter
  <2> QED
    BY <2>2
<1>4. m - 1 \in Nat /\ m - 1 \notin Bad
  BY <1>2, <1>3
<1>5. PICK g : GenpkeyAfter(args, g, m - 1)
  BY <1>4
<1>6. PICK h : h = [i \in 0 .. m |-> IF i < m THEN g[i] ELSE GenpkeyArgument(g[m - 1], args[m])]
  OBVIOUS
<1>7. \A i \in 0 .. m : h[i] = IF i = 0 THEN GenpkeyDefaults ELSE GenpkeyArgument(h[i - 1], args[i])
  BY <1>3, <1>4, <1>5, <1>6 DEF GenpkeyAfter
<1>8. GenpkeyAfter(args, h, m)
  BY <1>6, <1>7 DEF GenpkeyAfter
<1> QED
  BY <1>2, <1>8

GenpkeyFields == {"bad", "algorithm", "bits", "curve", "out", "form"}

\* The options say what the last arguments ask for.
GenpkeyGiven(args, n, opt) ==
  /\ opt.out = GivenIn(args, "-out", NULL, n)
  /\ opt.form = GivenIn(args, "-outform", "PEM", n)
  /\ opt.algorithm = GivenIn(args, "-algorithm", "rsa", n) /\ opt.algorithm \in {"rsa", "ec"}
  /\ opt.bits = OptionIn(args, "rsa_keygen_bits", 2048, n) /\ opt.bits \in 1024 .. MaxBits
  /\ opt.curve = OptionIn(args, "ec_paramgen_curve", NULL, n)

GenpkeyRead(args, n, opt) ==
  /\ DOMAIN opt = GenpkeyFields /\ opt.bad \in {NULL, "help", "usage"}
  /\ opt.bad = "help" => Asked(args, "-help", n)
  /\ opt.bad = NULL => GenpkeyGiven(args, n, opt)

LEMMA GenpkeyReads ==
  ASSUME ToolsAssumption, NEW args, NEW n \in Nat, NEW opt, GenpkeyRead(args, n, opt),
         NEW arg, arg = args[n + 1], SizeIsNumber(arg)
  PROVE  GenpkeyRead(args, n + 1, GenpkeyArgument(opt, arg))
<1>1. SUFFICES ASSUME NEW flag, flag = arg[1], NEW value, value = arg[2],
                      NEW new, new = GenpkeyArgument(opt, arg)
               PROVE  GenpkeyRead(args, n + 1, new)
  OBVIOUS
<1>2. new = GenpkeyArgument(opt, arg)
  BY <1>1
<1>3. DOMAIN opt = GenpkeyFields /\ NULL \notin {"help", "usage"}
  BY DEF GenpkeyRead, ToolsAssumption
<1>4. Asked(args, "-help", n) \/ flag = "-help" => Asked(args, "-help", n + 1)
  BY <1>1, AskedGrows
<1>5. CASE opt.bad # NULL
  <2>1. new = opt
    BY <1>2, <1>5 DEF GenpkeyArgument
  <2> QED
    BY <1>4, <1>5, <2>1 DEF GenpkeyRead
<1>6. CASE opt.bad = NULL
  <2>1. PICK out, form, algorithm, bits, curve :
          /\ out = GivenIn(args, "-out", NULL, n + 1)
          /\ form = GivenIn(args, "-outform", "PEM", n + 1)
          /\ algorithm = GivenIn(args, "-algorithm", "rsa", n + 1)
          /\ bits = OptionIn(args, "rsa_keygen_bits", 2048, n + 1)
          /\ curve = OptionIn(args, "ec_paramgen_curve", NULL, n + 1)
    OBVIOUS
  <2>2. GenpkeyGiven(args, n, opt)
    BY <1>6 DEF GenpkeyRead
  <2>3. opt.algorithm \in {"rsa", "ec"} /\ opt.bits \in 1024 .. MaxBits
    BY <2>2 DEF GenpkeyGiven
  <2>4. out = IF flag = "-out" THEN value ELSE opt.out
    BY <1>1, <2>1, <2>2, GivenGrows DEF GenpkeyGiven
  <2>5. form = IF flag = "-outform" THEN value ELSE opt.form
    BY <1>1, <2>1, <2>2, GivenGrows DEF GenpkeyGiven
  <2>6. algorithm = IF flag = "-algorithm" THEN value ELSE opt.algorithm
    BY <1>1, <2>1, <2>2, GivenGrows DEF GenpkeyGiven
  <2>7. bits = IF flag = "-pkeyopt" /\ value[1] = "rsa_keygen_bits" THEN value[2] ELSE opt.bits
    BY <1>1, <2>1, <2>2, OptionsGrow DEF GenpkeyGiven
  <2>8. curve = IF flag = "-pkeyopt" /\ value[1] = "ec_paramgen_curve" THEN value[2] ELSE opt.curve
    BY <1>1, <2>1, <2>2, OptionsGrow DEF GenpkeyGiven
  <2>9. ASSUME NEW bad \in {"help", "usage"}, new = [opt EXCEPT !.bad = bad], bad = "help" => flag = "-help"
        PROVE  GenpkeyRead(args, n + 1, new)
    BY <1>3, <1>4, <2>9 DEF GenpkeyRead, GenpkeyFields
  <2>10. ASSUME DOMAIN new = GenpkeyFields, new.bad = NULL, new.out = out, new.form = form,
                new.algorithm = algorithm, new.bits = bits, new.curve = curve,
                algorithm \in {"rsa", "ec"}, bits \in 1024 .. MaxBits
         PROVE  GenpkeyRead(args, n + 1, new)
    <3>1. GenpkeyGiven(args, n + 1, new)
      BY <2>1, <2>10 DEF GenpkeyGiven
    <3> QED
      BY <1>3, <2>10, <3>1 DEF GenpkeyRead
  <2>11. CASE flag = "-help"
    BY <1>1, <1>2, <1>6, <2>9, <2>11 DEF GenpkeyArgument
  <2>12. CASE flag = "-algorithm"
    <3>1. CASE value \in {"rsa", "ec"}
      <4>1. new = [opt EXCEPT !.algorithm = value]
        BY <1>1, <1>2, <1>6, <2>12, <3>1 DEF GenpkeyArgument
      <4> QED
        BY <1>3, <1>6, <2>3, <2>4, <2>5, <2>6, <2>7, <2>8, <2>10, <2>12, <3>1, <4>1 DEF GenpkeyFields
    <3>2. CASE value \notin {"rsa", "ec"}
      BY <1>1, <1>2, <1>6, <2>9, <2>12, <3>2 DEF GenpkeyArgument
    <3> QED
      BY <3>1, <3>2
  <2>13. CASE flag = "-pkeyopt"
    <3>1. CASE value[1] = "rsa_keygen_bits" /\ BitsAllowed(value[2])
      <4>1. new = [opt EXCEPT !.bits = value[2]]
        BY <1>1, <1>2, <1>6, <2>13, <3>1 DEF GenpkeyArgument
      <4>2. value[2] \in 1024 .. MaxBits
        BY <1>1, <2>13, <3>1 DEF SizeIsNumber, BitsAllowed, ToolsAssumption
      <4> QED
        BY <1>3, <1>6, <2>3, <2>4, <2>5, <2>6, <2>7, <2>8, <2>10, <2>13, <3>1, <4>1, <4>2 DEF GenpkeyFields
    <3>2. CASE value[1] = "ec_paramgen_curve" /\ value[2] \in Curves
      <4>1. new = [opt EXCEPT !.curve = value[2]]
        BY <1>1, <1>2, <1>6, <2>13, <3>2 DEF GenpkeyArgument
      <4> QED
        BY <1>3, <1>6, <2>3, <2>4, <2>5, <2>6, <2>7, <2>8, <2>10, <2>13, <3>2, <4>1 DEF GenpkeyFields
    <3>3. CASE value[1] = "ec_param_enc" /\ value[2] \in {"named_curve", "explicit"}
      <4>1. new = opt
        BY <1>1, <1>2, <1>6, <2>13, <3>3 DEF GenpkeyArgument
      <4> QED
        BY <1>3, <1>6, <2>3, <2>4, <2>5, <2>6, <2>7, <2>8, <2>10, <2>13, <3>3, <4>1
    <3>4. CASE /\ ~(value[1] = "rsa_keygen_bits" /\ BitsAllowed(value[2]))
               /\ ~(value[1] = "ec_paramgen_curve" /\ value[2] \in Curves)
               /\ ~(value[1] = "ec_param_enc" /\ value[2] \in {"named_curve", "explicit"})
      <4>1. new = [opt EXCEPT !.bad = "usage"]
        BY <1>1, <1>2, <1>6, <2>13, <3>4 DEF GenpkeyArgument
      <4> QED
        BY <2>9, <4>1
    <3> QED
      BY <3>1, <3>2, <3>3, <3>4
  <2>14. CASE flag = "-out"
    <3>1. new = [opt EXCEPT !.out = value]
      BY <1>1, <1>2, <1>6, <2>14 DEF GenpkeyArgument
    <3> QED
      BY <1>3, <1>6, <2>3, <2>4, <2>5, <2>6, <2>7, <2>8, <2>10, <2>14, <3>1 DEF GenpkeyFields
  <2>15. CASE flag = "-outform"
    <3>1. CASE value \in {"PEM", "DER"}
      <4>1. new = [opt EXCEPT !.form = value]
        BY <1>1, <1>2, <1>6, <2>15, <3>1 DEF GenpkeyArgument
      <4> QED
        BY <1>3, <1>6, <2>3, <2>4, <2>5, <2>6, <2>7, <2>8, <2>10, <2>15, <4>1 DEF GenpkeyFields
    <3>2. CASE value \notin {"PEM", "DER"}
      BY <1>1, <1>2, <1>6, <2>9, <2>15, <3>2 DEF GenpkeyArgument
    <3> QED
      BY <3>1, <3>2
  <2>16. CASE flag \in {"-text", "-usedevrandom"}
    <3>1. new = opt
      BY <1>1, <1>2, <1>6, <2>16 DEF GenpkeyArgument
    <3> QED
      BY <1>3, <1>6, <2>3, <2>4, <2>5, <2>6, <2>7, <2>8, <2>10, <2>16, <3>1
  <2>17. CASE flag \notin {"-help", "-algorithm", "-pkeyopt", "-out", "-outform", "-text", "-usedevrandom"}
    <3>1. new = [opt EXCEPT !.bad = "usage"]
      BY <1>1, <1>2, <1>6, <2>17 DEF GenpkeyArgument
    <3> QED
      BY <2>9, <3>1
  <2> QED
    BY <2>11, <2>12, <2>13, <2>14, <2>15, <2>16, <2>17
<1> QED
  BY <1>5, <1>6

LEMMA GenpkeyOptionsRead ==
  ASSUME ToolsAssumption, NEW args, Len(args) \in Nat, \A i \in 1 .. Len(args) : SizeIsNumber(args[i])
  PROVE  GenpkeyRead(args, Len(args), GenpkeyOptions(args))
<1>1. PICK N \in Nat : N = Len(args)
  OBVIOUS
<1>2. PICK g : g = CHOOSE f : GenpkeyAfter(args, f, N)
  OBVIOUS
<1>0. GenpkeyAfter(args, g, N)
  <2>1. \E f : GenpkeyAfter(args, f, N)
    BY GenpkeyAfterExists
  <2> QED
    BY <1>2, <2>1
<1>3. GenpkeyOptions(args) = g[N]
  BY <1>1, <1>2 DEF GenpkeyOptions, GenpkeyAfter
<1> DEFINE Bad == {k \in 0 .. N : ~GenpkeyRead(args, k, g[k])}
<1>4. SUFFICES ASSUME Bad # {} PROVE FALSE
  BY <1>1, <1>3
<1>5. PICK m \in Bad : \A k \in Bad : m <= k
  <2>1. Bad \in SUBSET Nat
    OBVIOUS
  <2> HIDE DEF Bad
  <2> QED
    BY ONLY <1>4, <2>1, Smallest
<1>6. CASE m = 0
  <2>1. g[0] = GenpkeyDefaults
    <3>1. 0 \in 0 .. N /\ GenpkeyAfter(args, g, N)
      BY <1>0
    <3> QED
      BY <3>1 DEF GenpkeyAfter
  <2>2. GenpkeyRead(args, 0, GenpkeyDefaults)
    <3>1. GenpkeyGiven(args, 0, GenpkeyDefaults)
      BY NoneGiven, NoOption DEF GenpkeyGiven, GenpkeyDefaults, ToolsAssumption
    <3> QED
      BY <3>1 DEF GenpkeyRead, GenpkeyDefaults, GenpkeyFields, ToolsAssumption
  <2> QED
    BY <1>5, <1>6, <2>1, <2>2
<1>7. CASE m # 0
  <2>1. m - 1 \in Nat /\ m - 1 \in 0 .. N /\ (m - 1) + 1 = m /\ m \in 1 .. N
    BY <1>5, <1>7
  <2>2. GenpkeyRead(args, m - 1, g[m - 1])
    BY <1>5, <2>1
  <2>3. g[m] = GenpkeyArgument(g[m - 1], args[m])
    <3>1. m \in 0 .. N /\ GenpkeyAfter(args, g, N)
      BY <1>0
    <3> QED
      BY <1>7, <3>1 DEF GenpkeyAfter
  <2>4. SizeIsNumber(args[m])
    BY <1>1, <2>1
  <2>5. GenpkeyRead(args, (m - 1) + 1, GenpkeyArgument(g[m - 1], args[(m - 1) + 1]))
    BY <2>1, <2>2, <2>4, GenpkeyReads
  <2> QED
    BY <1>5, <2>1, <2>3, <2>5
<1> QED
  BY <1>6, <1>7

----------------------------------------------------------------------------
(* The options of "dhparam" *)

DhparamAfter(args, g, n) ==
  g = [i \in 0 .. n |-> IF i = 0 THEN DhparamDefaults
                        ELSE DhparamArgument(g[i - 1], args[i], i = Len(args))]

LEMMA DhparamAfterExists ==
  ASSUME NEW args, NEW n \in Nat
  PROVE  \E g : DhparamAfter(args, g, n)
<1> DEFINE Bad == {k \in Nat : ~ \E g : DhparamAfter(args, g, k)}
<1>1. SUFFICES ASSUME Bad # {} PROVE FALSE
  OBVIOUS
<1>2. PICK m \in Bad : \A k \in Bad : m <= k
  <2>1. Bad \in SUBSET Nat
    OBVIOUS
  <2> HIDE DEF Bad
  <2> QED
    BY <1>1, <2>1, Smallest
<1>3. m # 0
  <2>1. PICK g : g = [i \in 0 .. 0 |-> DhparamDefaults]
    OBVIOUS
  <2>2. DhparamAfter(args, g, 0)
    BY <2>1 DEF DhparamAfter
  <2> QED
    BY <2>2
<1>4. m - 1 \in Nat /\ m - 1 \notin Bad
  BY <1>2, <1>3
<1>5. PICK g : DhparamAfter(args, g, m - 1)
  BY <1>4
<1>6. PICK h : h = [i \in 0 .. m |-> IF i < m THEN g[i] ELSE DhparamArgument(g[m - 1], args[m], m = Len(args))]
  OBVIOUS
<1>7. \A i \in 0 .. m : h[i] = IF i = 0 THEN DhparamDefaults
                               ELSE DhparamArgument(h[i - 1], args[i], i = Len(args))
  BY <1>3, <1>4, <1>5, <1>6 DEF DhparamAfter
<1>8. DhparamAfter(args, h, m)
  BY <1>6, <1>7 DEF DhparamAfter
<1> QED
  BY <1>2, <1>8

DhparamFields == {"bad", "noout", "check", "in", "out", "form", "g", "bits"}

\* Only the last argument can be the number of bits: an unknown one, -noout
\* and -text there make it 0.
DhparamGiven(args, n, opt) ==
  /\ opt.in = GivenIn(args, "-in", NULL, n)
  /\ opt.out = GivenIn(args, "-out", NULL, n)
  /\ opt.form = GivenIn(args, "-outform", "PEM", n)
  /\ opt.g = GivenIn(args, "-g", 2, n)
  /\ opt.check <=> Asked(args, "-check", n)
  /\ opt.noout => Asked(args, "-noout", n)
  /\ Asked(args, "-noout", n) => opt.noout \/ opt.bits = 0
  /\ n # Len(args) => opt.bits = NULL
  /\ n = Len(args) /\ n # 0 => IF args[n][1] = "bits" THEN opt.bits = args[n][2] /\ opt.bits \in 0 .. MaxBits
                               ELSE opt.bits \in {NULL, 0}

DhparamRead(args, n, opt) ==
  /\ DOMAIN opt = DhparamFields /\ opt.bad \in {NULL, "help", "usage"}
  /\ opt.bad = "help" => Asked(args, "-help", n)
  /\ opt.bad = NULL => DhparamGiven(args, n, opt)

LEMMA DhparamReads ==
  ASSUME ToolsAssumption, NEW args, Len(args) \in Nat, NEW n \in Nat, n < Len(args), NEW opt,
         DhparamRead(args, n, opt), NEW arg, arg = args[n + 1], BitsIsNumber(arg),
         NEW last \in BOOLEAN, last => n + 1 = Len(args), ~last => n + 1 # Len(args)
  PROVE  DhparamRead(args, n + 1, DhparamArgument(opt, arg, last))
<1>1. SUFFICES ASSUME NEW flag, flag = arg[1], NEW value, value = arg[2],
                      NEW new, new = DhparamArgument(opt, arg, last)
               PROVE  DhparamRead(args, n + 1, new)
  OBVIOUS
<1>2. new = DhparamArgument(opt, arg, last)
  BY <1>1
<1>3. DOMAIN opt = DhparamFields /\ NULL \notin {"help", "usage"}
  BY DEF DhparamRead, ToolsAssumption
<1>4. Asked(args, "-help", n) \/ flag = "-help" => Asked(args, "-help", n + 1)
  BY <1>1, AskedGrows
<1>5. CASE opt.bad # NULL
  <2>1. new = opt
    BY <1>2, <1>5 DEF DhparamArgument
  <2> QED
    BY <1>4, <1>5, <2>1 DEF DhparamRead
<1>6. CASE opt.bad = NULL
  <2>1. SUFFICES ASSUME NEW in, in = GivenIn(args, "-in", NULL, n + 1),
                        NEW out, out = GivenIn(args, "-out", NULL, n + 1),
                        NEW form, form = GivenIn(args, "-outform", "PEM", n + 1),
                        NEW g, g = GivenIn(args, "-g", 2, n + 1)
                 PROVE  DhparamRead(args, n + 1, new)
    OBVIOUS
  <2>2. DhparamGiven(args, n, opt)
    BY <1>6 DEF DhparamRead
  <2>3. opt.bits = NULL /\ (Asked(args, "-noout", n) <=> opt.noout)
    BY <2>2 DEF DhparamGiven, ToolsAssumption
  <2>4. in = IF flag = "-in" THEN value ELSE opt.in
    BY <1>1, <2>1, <2>2, GivenGrows DEF DhparamGiven
  <2>5. out = IF flag = "-out" THEN value ELSE opt.out
    BY <1>1, <2>1, <2>2, GivenGrows DEF DhparamGiven
  <2>6. form = IF flag = "-outform" THEN value ELSE opt.form
    BY <1>1, <2>1, <2>2, GivenGrows DEF DhparamGiven
  <2>7. g = IF flag = "-g" THEN value ELSE opt.g
    BY <1>1, <2>1, <2>2, GivenGrows DEF DhparamGiven
  <2>8. Asked(args, "-check", n + 1) <=> (opt.check \/ flag = "-check")
    <3>1. opt.check <=> Asked(args, "-check", n)
      BY <2>2 DEF DhparamGiven
    <3> QED
      BY <1>1, <3>1, AskedGrows
  <2>9. Asked(args, "-noout", n + 1) <=> (opt.noout \/ flag = "-noout")
    BY <1>1, <2>3, AskedGrows
  <2>10. ASSUME NEW bad \in {"help", "usage"}, new = [opt EXCEPT !.bad = bad], bad = "help" => flag = "-help"
         PROVE  DhparamRead(args, n + 1, new)
    BY <1>3, <1>4, <2>10 DEF DhparamRead, DhparamFields
  <2>11. ASSUME DOMAIN new = DhparamFields, new.bad = NULL, new.in = in, new.out = out, new.form = form,
                new.g = g, new.check <=> (opt.check \/ flag = "-check"), new.noout => (opt.noout \/ flag = "-noout"),
                opt.noout => new.noout, flag = "-noout" => (new.noout \/ new.bits = 0),
                ~last => new.bits = NULL,
                last => IF flag = "bits" THEN new.bits = value /\ new.bits \in 0 .. MaxBits
                        ELSE new.bits \in {NULL, 0}
         PROVE  DhparamRead(args, n + 1, new)
    <3>1. new.check <=> Asked(args, "-check", n + 1)
      BY <2>8, <2>11
    <3>2. new.noout => Asked(args, "-noout", n + 1)
      BY <2>9, <2>11
    <3>3. Asked(args, "-noout", n + 1) => new.noout \/ new.bits = 0
      BY <2>9, <2>11
    <3>4. n + 1 # Len(args) => new.bits = NULL
      BY <1>1, <2>11
    <3>5. n + 1 = Len(args) => IF args[n + 1][1] = "bits"
                               THEN new.bits = args[n + 1][2] /\ new.bits \in 0 .. MaxBits
                               ELSE new.bits \in {NULL, 0}
      BY <1>1, <2>11
    <3>6. DhparamGiven(args, n + 1, new)
      BY <2>1, <2>11, <3>1, <3>2, <3>3, <3>4, <3>5 DEF DhparamGiven
    <3> QED
      BY <1>3, <2>11, <3>6 DEF DhparamRead
  <2>12. CASE flag = "-help"
    BY <1>1, <1>2, <1>6, <2>10, <2>12 DEF DhparamArgument
  <2>13. CASE flag \in {"-noout", "-text"} /\ ~last
    <3>1. CASE flag = "-noout"
      <4>1. new = [opt EXCEPT !.noout = TRUE]
        BY <1>1, <1>2, <1>6, <2>13, <3>1 DEF DhparamArgument
      <4> QED
        BY <1>3, <1>6, <2>3, <2>4, <2>5, <2>6, <2>7, <2>11, <2>13, <3>1, <4>1 DEF DhparamFields
    <3>2. CASE flag = "-text"
      <4>1. new = opt
        BY <1>1, <1>2, <1>6, <2>13, <3>2 DEF DhparamArgument
      <4> QED
        BY <1>3, <1>6, <2>3, <2>4, <2>5, <2>6, <2>7, <2>11, <2>13, <3>2, <4>1
    <3> QED
      BY <2>13, <3>1, <3>2
  <2>14. CASE flag = "-out"
    <3>1. new = [opt EXCEPT !.out = value]
      BY <1>1, <1>2, <1>6, <2>14 DEF DhparamArgument
    <3> QED
      BY <1>3, <1>6, <2>3, <2>4, <2>5, <2>6, <2>7, <2>11, <2>14, <3>1 DEF DhparamFields
  <2>15. CASE flag = "-outform"
    <3>1. CASE value \in {"PEM", "DER"}
      <4>1. new = [opt EXCEPT !.form = value]
        BY <1>1, <1>2, <1>6, <2>15, <3>1 DEF DhparamArgument
      <4> QED
        BY <1>3, <1>6, <2>3, <2>4, <2>5, <2>6, <2>7, <2>11, <2>15, <4>1 DEF DhparamFields
    <3>2. CASE value \notin {"PEM", "DER"}
      <4>1. new = [opt EXCEPT !.bad = "usage"]
        BY <1>1, <1>2, <1>6, <2>15, <3>2 DEF DhparamArgument
      <4> QED
        BY <2>10, <4>1
    <3> QED
      BY <3>1, <3>2
  <2>16. CASE flag = "-g"
    <3>1. new = [opt EXCEPT !.g = value]
      BY <1>1, <1>2, <1>6, <2>16 DEF DhparamArgument
    <3> QED
      BY <1>3, <1>6, <2>3, <2>4, <2>5, <2>6, <2>7, <2>11, <2>16, <3>1 DEF DhparamFields
  <2>17. CASE flag = "-in"
    <3>1. new = [opt EXCEPT !.in = value]
      BY <1>1, <1>2, <1>6, <2>17 DEF DhparamArgument
    <3> QED
      BY <1>3, <1>6, <2>3, <2>4, <2>5, <2>6, <2>7, <2>11, <2>17, <3>1 DEF DhparamFields
  <2>18. CASE flag = "-check"
    <3>1. new = [opt EXCEPT !.check = TRUE]
      BY <1>1, <1>2, <1>6, <2>18 DEF DhparamArgument
    <3> QED
      BY <1>3, <1>6, <2>3, <2>4, <2>5, <2>6, <2>7, <2>11, <2>18, <3>1 DEF DhparamFields
  <2>19. CASE /\ flag \notin {"-help", "-out", "-outform", "-g", "-in", "-check"}
              /\ ~(flag \in {"-noout", "-text"} /\ ~last)
    <3>1. PICK bits : bits = IF flag = "bits" THEN value ELSE 0
      OBVIOUS
    <3>2. new = IF ~last THEN opt ELSE IF bits \in 0 .. MaxBits THEN [opt EXCEPT !.bits = bits]
                ELSE [opt EXCEPT !.bad = "usage"]
      BY <1>1, <1>2, <1>6, <2>19, <3>1 DEF DhparamArgument
    <3>3. CASE ~last
      <4>1. new = opt
        BY <3>2, <3>3
      <4> QED
        BY <1>3, <1>6, <2>3, <2>4, <2>5, <2>6, <2>7, <2>11, <2>19, <3>3, <4>1
    <3>4. CASE last /\ bits \in 0 .. MaxBits
      <4>1. new = [opt EXCEPT !.bits = bits]
        BY <3>2, <3>4
      <4> QED
        BY <1>3, <1>6, <2>3, <2>4, <2>5, <2>6, <2>7, <2>11, <2>19, <3>1, <3>4, <4>1 DEF DhparamFields
    <3>5. CASE last /\ bits \notin 0 .. MaxBits
      BY <2>10, <3>2, <3>5
    <3> QED
      BY <3>3, <3>4, <3>5
  <2> QED
    BY <2>12, <2>13, <2>14, <2>15, <2>16, <2>17, <2>18, <2>19
<1> QED
  BY <1>5, <1>6

LEMMA DhparamOptionsRead ==
  ASSUME ToolsAssumption, NEW args, Len(args) \in Nat, \A i \in 1 .. Len(args) : BitsIsNumber(args[i])
  PROVE  DhparamRead(args, Len(args), DhparamOptions(args))
<1>1. PICK N \in Nat : N = Len(args)
  OBVIOUS
<1>2. PICK g : g = CHOOSE f : DhparamAfter(args, f, N)
  OBVIOUS
<1>0. DhparamAfter(args, g, N)
  <2>1. \E f : DhparamAfter(args, f, N)
    BY DhparamAfterExists
  <2> QED
    BY <1>2, <2>1
<1>3. DhparamOptions(args) = g[N]
  BY <1>1, <1>2 DEF DhparamOptions, DhparamAfter
<1> DEFINE Bad == {k \in 0 .. N : ~DhparamRead(args, k, g[k])}
<1>4. SUFFICES ASSUME Bad # {} PROVE FALSE
  BY <1>1, <1>3
<1>5. PICK m \in Bad : \A k \in Bad : m <= k
  <2>1. Bad \in SUBSET Nat
    OBVIOUS
  <2> HIDE DEF Bad
  <2> QED
    BY ONLY <1>4, <2>1, Smallest
<1>6. CASE m = 0
  <2>1. g[0] = DhparamDefaults
    <3>1. 0 \in 0 .. N /\ DhparamAfter(args, g, N)
      BY <1>0
    <3> QED
      BY <3>1 DEF DhparamAfter
  <2>2. DhparamRead(args, 0, DhparamDefaults)
    <3>1. /\ GivenIn(args, "-in", NULL, 0) = NULL /\ GivenIn(args, "-out", NULL, 0) = NULL
          /\ GivenIn(args, "-outform", "PEM", 0) = "PEM" /\ GivenIn(args, "-g", 2, 0) = 2
      BY NoneGiven
    <3>2. ~Asked(args, "-check", 0) /\ ~Asked(args, "-noout", 0)
      BY NoneAsked
    <3>3. DhparamGiven(args, 0, DhparamDefaults)
      BY <3>1, <3>2 DEF DhparamGiven, DhparamDefaults
    <3> QED
      BY <3>3 DEF DhparamRead, DhparamDefaults, DhparamFields, ToolsAssumption
  <2> QED
    BY <1>5, <1>6, <2>1, <2>2
<1>7. CASE m # 0
  <2>0. ~DhparamRead(args, m, g[m])
    BY <1>5
  <2>1. m - 1 \in Nat /\ m - 1 \in 0 .. N /\ (m - 1) + 1 = m /\ m \in 1 .. N /\ m - 1 < N
    BY <1>5, <1>7
  <2>2. DhparamRead(args, m - 1, g[m - 1])
    BY <1>5, <2>1
  <2>3. g[m] = DhparamArgument(g[m - 1], args[m], m = Len(args))
    <3>1. m \in 0 .. N /\ DhparamAfter(args, g, N)
      BY <1>0
    <3> QED
      BY <1>7, <3>1 DEF DhparamAfter
  <2>4. BitsIsNumber(args[m])
    BY <1>1, <2>1
  <2>5. ASSUME NEW last \in BOOLEAN, last => m = Len(args), ~last => m # Len(args)
        PROVE  DhparamRead(args, m, DhparamArgument(g[m - 1], args[m], last))
    <3>1. DhparamRead(args, (m - 1) + 1, DhparamArgument(g[m - 1], args[(m - 1) + 1], last))
      BY <1>1, <2>1, <2>2, <2>4, <2>5, DhparamReads
    <3> QED
      BY <2>1, <3>1
  <2>6. CASE m = Len(args)
    <3>1. (m = Len(args)) = TRUE
      BY <2>6
    <3>2. g[m] = DhparamArgument(g[m - 1], args[m], TRUE)
      BY ONLY <2>3, <3>1, Zenon
    <3>3. DhparamRead(args, m, DhparamArgument(g[m - 1], args[m], TRUE))
      BY ONLY <2>5, <2>6, Zenon
    <3> QED
      BY ONLY <2>0, <3>2, <3>3, Zenon
  <2>7. CASE m # Len(args)
    <3>1. (m = Len(args)) = FALSE
      BY <2>7
    <3>2. g[m] = DhparamArgument(g[m - 1], args[m], FALSE)
      BY ONLY <2>3, <3>1, Zenon
    <3>3. DhparamRead(args, m, DhparamArgument(g[m - 1], args[m], FALSE))
      BY ONLY <2>5, <2>7, Zenon
    <3> QED
      BY ONLY <2>0, <3>2, <3>3, Zenon
  <2> QED
    BY <2>6, <2>7
<1> QED
  BY <1>6, <1>7

----------------------------------------------------------------------------
(* The options of "crl" *)

CrlAfter(args, g, n) ==
  g = [i \in 0 .. n |-> IF i = 0 THEN CrlDefaults ELSE CrlArgument(g[i - 1], args[i])]

LEMMA CrlAfterExists ==
  ASSUME NEW args, NEW n \in Nat
  PROVE  \E g : CrlAfter(args, g, n)
<1> DEFINE Bad == {k \in Nat : ~ \E g : CrlAfter(args, g, k)}
<1>1. SUFFICES ASSUME Bad # {} PROVE FALSE
  OBVIOUS
<1>2. PICK m \in Bad : \A k \in Bad : m <= k
  <2>1. Bad \in SUBSET Nat
    OBVIOUS
  <2> HIDE DEF Bad
  <2> QED
    BY <1>1, <2>1, Smallest
<1>3. m # 0
  <2>1. PICK g : g = [i \in 0 .. 0 |-> CrlDefaults]
    OBVIOUS
  <2>2. CrlAfter(args, g, 0)
    BY <2>1 DEF CrlAfter
  <2> QED
    BY <2>2
<1>4. m - 1 \in Nat /\ m - 1 \notin Bad
  BY <1>2, <1>3
<1>5. PICK g : CrlAfter(args, g, m - 1)
  BY <1>4
<1>6. PICK h : h = [i \in 0 .. m |-> IF i < m THEN g[i] ELSE CrlArgument(g[m - 1], args[m])]
  OBVIOUS
<1>7. \A i \in 0 .. m : h[i] = IF i = 0 THEN CrlDefaults ELSE CrlArgument(h[i - 1], args[i])
  BY <1>3, <1>4, <1>5, <1>6 DEF CrlAfter
<1>8. CrlAfter(args, h, m)
  BY <1>6, <1>7 DEF CrlAfter
<1> QED
  BY <1>2, <1>8

CrlFields == {"bad", "noout", "verify", "in", "out", "form", "CAfile"}

CrlGiven(args, n, opt) ==
  /\ opt.in = GivenIn(args, "-in", NULL, n)
  /\ opt.out = GivenIn(args, "-out", NULL, n)
  /\ opt.form = GivenIn(args, "-outform", "PEM", n)
  /\ opt.CAfile = GivenIn(args, "-CAfile", NULL, n)
  /\ opt.verify <=> Asked(args, "-verify", n)
  /\ opt.noout <=> Asked(args, "-noout", n)

CrlRead(args, n, opt) ==
  /\ DOMAIN opt = CrlFields /\ opt.bad \in {NULL, "help", "usage"}
  /\ opt.bad = "help" => Asked(args, "-help", n)
  /\ opt.bad = NULL => CrlGiven(args, n, opt)

LEMMA CrlReads ==
  ASSUME ToolsAssumption, NEW args, NEW n \in Nat, NEW opt, CrlRead(args, n, opt),
         NEW arg, arg = args[n + 1]
  PROVE  CrlRead(args, n + 1, CrlArgument(opt, arg))
<1>1. SUFFICES ASSUME NEW flag, flag = arg[1], NEW value, value = arg[2],
                      NEW new, new = CrlArgument(opt, arg)
               PROVE  CrlRead(args, n + 1, new)
  OBVIOUS
<1>2. new = CrlArgument(opt, arg)
  BY <1>1
<1>3. DOMAIN opt = CrlFields /\ NULL \notin {"help", "usage"}
  BY DEF CrlRead, ToolsAssumption
<1>4. Asked(args, "-help", n) \/ flag = "-help" => Asked(args, "-help", n + 1)
  BY <1>1, AskedGrows
<1>5. CASE opt.bad # NULL
  <2>1. new = opt
    BY <1>2, <1>5 DEF CrlArgument
  <2> QED
    BY <1>4, <1>5, <2>1 DEF CrlRead
<1>6. CASE opt.bad = NULL
  <2>1. SUFFICES ASSUME NEW in, in = GivenIn(args, "-in", NULL, n + 1),
                        NEW out, out = GivenIn(args, "-out", NULL, n + 1),
                        NEW form, form = GivenIn(args, "-outform", "PEM", n + 1),
                        NEW CAfile, CAfile = GivenIn(args, "-CAfile", NULL, n + 1)
                 PROVE  CrlRead(args, n + 1, new)
    OBVIOUS
  <2>2. CrlGiven(args, n, opt)
    BY <1>6 DEF CrlRead
  <2>3. in = IF flag = "-in" THEN value ELSE opt.in
    BY <1>1, <2>1, <2>2, GivenGrows DEF CrlGiven
  <2>4. out = IF flag = "-out" THEN value ELSE opt.out
    BY <1>1, <2>1, <2>2, GivenGrows DEF CrlGiven
  <2>5. form = IF flag = "-outform" THEN value ELSE opt.form
    BY <1>1, <2>1, <2>2, GivenGrows DEF CrlGiven
  <2>6. CAfile = IF flag = "-CAfile" THEN value ELSE opt.CAfile
    BY <1>1, <2>1, <2>2, GivenGrows DEF CrlGiven
  <2>7. Asked(args, "-verify", n + 1) <=> (opt.verify \/ flag = "-verify")
    <3>1. opt.verify <=> Asked(args, "-verify", n)
      BY <2>2 DEF CrlGiven
    <3> QED
      BY <1>1, <3>1, AskedGrows
  <2>8. Asked(args, "-noout", n + 1) <=> (opt.noout \/ flag = "-noout")
    <3>1. opt.noout <=> Asked(args, "-noout", n)
      BY <2>2 DEF CrlGiven
    <3> QED
      BY <1>1, <3>1, AskedGrows
  <2>9. ASSUME NEW bad \in {"help", "usage"}, new = [opt EXCEPT !.bad = bad], bad = "help" => flag = "-help"
        PROVE  CrlRead(args, n + 1, new)
    BY <1>3, <1>4, <2>9 DEF CrlRead, CrlFields
  <2>10. ASSUME DOMAIN new = CrlFields, new.bad = NULL, new.in = in, new.out = out, new.form = form,
                new.CAfile = CAfile, new.verify <=> (opt.verify \/ flag = "-verify"),
                new.noout <=> (opt.noout \/ flag = "-noout")
         PROVE  CrlRead(args, n + 1, new)
    <3>1. new.verify <=> Asked(args, "-verify", n + 1)
      BY <2>7, <2>10
    <3>2. new.noout <=> Asked(args, "-noout", n + 1)
      BY <2>8, <2>10
    <3>3. CrlGiven(args, n + 1, new)
      BY <2>1, <2>10, <3>1, <3>2 DEF CrlGiven
    <3> QED
      BY <1>3, <2>10, <3>3 DEF CrlRead
  <2>11. CASE flag = "-help"
    BY <1>1, <1>2, <1>6, <2>9, <2>11 DEF CrlArgument
  <2>12. CASE flag \in {"-text", "-issuer", "-lastupdate", "-nextupdate"}
    <3>1. new = opt
      BY <1>1, <1>2, <1>6, <2>12 DEF CrlArgument
    <3> QED
      BY <1>3, <1>6, <2>3, <2>4, <2>5, <2>6, <2>10, <2>12, <3>1
  <2>13. CASE flag = "-noout"
    <3>1. new = [opt EXCEPT !.noout = TRUE]
      BY <1>1, <1>2, <1>6, <2>13 DEF CrlArgument
    <3> QED
      BY <1>3, <1>6, <2>3, <2>4, <2>5, <2>6, <2>10, <2>13, <3>1 DEF CrlFields
  <2>14. CASE flag = "-verify"
    <3>1. new = [opt EXCEPT !.verify = TRUE]
      BY <1>1, <1>2, <1>6, <2>14 DEF CrlArgument
    <3> QED
      BY <1>3, <1>6, <2>3, <2>4, <2>5, <2>6, <2>10, <2>14, <3>1 DEF CrlFields
  <2>15. CASE flag = "-in"
    <3>1. new = [opt EXCEPT !.in = value]
      BY <1>1, <1>2, <1>6, <2>15 DEF CrlArgument
    <3> QED
      BY <1>3, <1>6, <2>3, <2>4, <2>5, <2>6, <2>10, <2>15, <3>1 DEF CrlFields
  <2>16. CASE flag = "-out"
    <3>1. new = [opt EXCEPT !.out = value]
      BY <1>1, <1>2, <1>6, <2>16 DEF CrlArgument
    <3> QED
      BY <1>3, <1>6, <2>3, <2>4, <2>5, <2>6, <2>10, <2>16, <3>1 DEF CrlFields
  <2>17. CASE flag = "-outform"
    <3>1. CASE value \in {"PEM", "DER"}
      <4>1. new = [opt EXCEPT !.form = value]
        BY <1>1, <1>2, <1>6, <2>17, <3>1 DEF CrlArgument
      <4> QED
        BY <1>3, <1>6, <2>3, <2>4, <2>5, <2>6, <2>10, <2>17, <4>1 DEF CrlFields
    <3>2. CASE value \notin {"PEM", "DER"}
      <4>1. new = [opt EXCEPT !.bad = "usage"]
        BY <1>1, <1>2, <1>6, <2>17, <3>2 DEF CrlArgument
      <4> QED
        BY <2>9, <4>1
    <3> QED
      BY <3>1, <3>2
  <2>18. CASE flag = "-CAfile"
    <3>1. new = [opt EXCEPT !.CAfile = value]
      BY <1>1, <1>2, <1>6, <2>18 DEF CrlArgument
    <3> QED
      BY <1>3, <1>6, <2>3, <2>4, <2>5, <2>6, <2>10, <2>18, <3>1 DEF CrlFields
  <2>19. CASE flag \notin {"-help", "-text", "-issuer", "-lastupdate", "-nextupdate", "-noout",
                           "-verify", "-in", "-out", "-outform", "-CAfile"}
    <3>1. new = [opt EXCEPT !.bad = "usage"]
      BY <1>1, <1>2, <1>6, <2>19 DEF CrlArgument
    <3> QED
      BY <2>9, <3>1
  <2> QED
    BY <2>11, <2>12, <2>13, <2>14, <2>15, <2>16, <2>17, <2>18, <2>19
<1> QED
  BY <1>5, <1>6

LEMMA CrlOptionsRead ==
  ASSUME ToolsAssumption, NEW args, Len(args) \in Nat
  PROVE  /\ CrlRead(args, Len(args), CrlOptions(args))
         /\ CrlOptions(args).bad = NULL =>
              /\ CrlOptions(args).in # NULL
              /\ CrlOptions(args).verify => CrlOptions(args).CAfile # NULL
<1>1. PICK N \in Nat : N = Len(args)
  OBVIOUS
<1>2. PICK g : g = CHOOSE f : CrlAfter(args, f, N)
  OBVIOUS
<1>0. CrlAfter(args, g, N)
  <2>1. \E f : CrlAfter(args, f, N)
    BY CrlAfterExists
  <2> QED
    BY <1>2, <2>1
<1>3. CrlOptions(args) = IF g[N].bad = NULL /\ (g[N].in = NULL \/ (g[N].verify /\ g[N].CAfile = NULL))
                         THEN [g[N] EXCEPT !.bad = "usage"] ELSE g[N]
  BY <1>1, <1>2 DEF CrlOptions, CrlAfter
<1>4. CrlRead(args, N, g[N])
  <2> DEFINE Bad == {k \in 0 .. N : ~CrlRead(args, k, g[k])}
  <2>1. SUFFICES ASSUME Bad # {} PROVE FALSE
    OBVIOUS
  <2>2. PICK m \in Bad : \A k \in Bad : m <= k
    <3>1. Bad \in SUBSET Nat
      OBVIOUS
    <3> HIDE DEF Bad
    <3> QED
      BY <2>1, <3>1, Smallest
  <2>3. CASE m = 0
    <3>1. g[0] = CrlDefaults
      <4>1. 0 \in 0 .. N /\ CrlAfter(args, g, N)
        BY <1>0
      <4> QED
        BY <4>1 DEF CrlAfter
    <3>2. /\ GivenIn(args, "-in", NULL, 0) = NULL /\ GivenIn(args, "-out", NULL, 0) = NULL
          /\ GivenIn(args, "-outform", "PEM", 0) = "PEM" /\ GivenIn(args, "-CAfile", NULL, 0) = NULL
      BY NoneGiven
    <3>3. ~Asked(args, "-verify", 0) /\ ~Asked(args, "-noout", 0)
      BY NoneAsked
    <3>4. CrlGiven(args, 0, CrlDefaults)
      BY <3>2, <3>3 DEF CrlGiven, CrlDefaults
    <3>5. CrlRead(args, 0, CrlDefaults)
      BY <3>4 DEF CrlRead, CrlDefaults, CrlFields, ToolsAssumption
    <3> QED
      BY <2>2, <2>3, <3>1, <3>5
  <2>4. CASE m # 0
    <3>1. m - 1 \in Nat /\ m - 1 \in 0 .. N /\ (m - 1) + 1 = m /\ m \in 1 .. N
      BY <2>2, <2>4
    <3>2. CrlRead(args, m - 1, g[m - 1])
      BY <2>2, <3>1
    <3>3. g[m] = CrlArgument(g[m - 1], args[m])
      <4>1. m \in 0 .. N /\ CrlAfter(args, g, N)
        BY <1>0
      <4> QED
        BY <2>4, <4>1 DEF CrlAfter
    <3>4. CrlRead(args, (m - 1) + 1, CrlArgument(g[m - 1], args[(m - 1) + 1]))
      BY <3>1, <3>2, CrlReads
    <3> QED
      BY <2>2, <3>1, <3>3, <3>4
  <2> QED
    BY <2>3, <2>4
<1>5. CASE g[N].bad = NULL /\ (g[N].in = NULL \/ (g[N].verify /\ g[N].CAfile = NULL))
  <2>1. CrlOptions(args) = [g[N] EXCEPT !.bad = "usage"]
    BY <1>3, <1>5
  <2> QED
    BY <1>1, <1>4, <2>1 DEF CrlRead, CrlFields, ToolsAssumption
<1>6. CASE ~(g[N].bad = NULL /\ (g[N].in = NULL \/ (g[N].verify /\ g[N].CAfile = NULL)))
  <2>1. CrlOptions(args) = g[N]
    BY <1>3, <1>6
  <2> QED
    BY <1>1, <1>4, <1>6, <2>1
<1> QED
  BY <1>5, <1>6

----------------------------------------------------------------------------
(* Command lines, read to the end *)

LEMMA GivenIs ==
  ASSUME NEW args, CommandLine(args), NEW flag, NEW default
  PROVE  GivenIn(args, flag, default, Len(args)) = Given(args, flag, default)
<1>1. PICK at : at = {i \in DOMAIN args : args[i][1] = flag}
  OBVIOUS
<1>2. Places(args, flag, Len(args)) = at
  BY <1>1 DEF CommandLine, Places
<1>3. Given(args, flag, default) = IF at = {} THEN default ELSE args[LastOf(at)][2]
  BY <1>1 DEF Given, LastOf
<1> QED
  BY <1>2, <1>3 DEF GivenIn

LEMMA AskedIs ==
  ASSUME NEW args, CommandLine(args), NEW flag
  PROVE  Asked(args, flag, Len(args)) <=> \E i \in DOMAIN args : args[i][1] = flag
BY DEF Asked, Places, CommandLine

\* What is given with "-in" is a name.
LEMMA InGiven ==
  ASSUME ToolsAssumption, NEW args, CommandLine(args)
  PROVE  GivenIn(args, "-in", NULL, Len(args)) # NULL <=> Asked(args, "-in", Len(args))
<1>1. PICK at : at = Places(args, "-in", Len(args))
  OBVIOUS
<1>2. at \in SUBSET (1 .. Len(args)) /\ \A i \in at : args[i][2] # NULL
  BY <1>1 DEF Places, CommandLine
<1>3. ASSUME at # {} PROVE LastOf(at) \in at
  <2>1. Len(args) \in Nat
    BY DEF CommandLine
  <2>2. PICK m \in at : \A j \in at : j <= m
    <3> DEFINE S == {k \in 0 .. Len(args) : Len(args) - k \in at}
    <3>1. S \in SUBSET Nat
      BY <2>1
    <3>2. S # {}
      <4>1. PICK i \in at : TRUE
        BY <1>3
      <4>2. i \in 1 .. Len(args)
        BY <1>2
      <4>3. Len(args) - i \in 0 .. Len(args) /\ Len(args) - (Len(args) - i) = i
        BY <2>1, <4>2
      <4>4. Len(args) - i \in S
        BY <4>3
      <4> QED
        BY <4>4
    <3>3. PICK k \in S : \A j \in S : k <= j
      <4> HIDE DEF S
      <4> QED
        BY ONLY <3>1, <3>2, Smallest
    <3>4. Len(args) - k \in at
      OBVIOUS
    <3>5. ASSUME NEW j \in at PROVE j <= Len(args) - k
      <4>1. j \in 1 .. Len(args)
        BY <1>2
      <4>2. Len(args) - j \in 0 .. Len(args) /\ Len(args) - (Len(args) - j) = j
        BY <2>1, <4>1
      <4>3. k <= Len(args) - j
        BY <3>3, <4>2
      <4>4. k \in Nat
        BY <3>1
      <4> QED
        BY <2>1, <4>1, <4>3, <4>4
    <3> QED
      BY <3>4, <3>5
  <2> QED
    BY <2>2 DEF LastOf
<1> QED
  BY <1>1, <1>2, <1>3 DEF GivenIn, Asked

----------------------------------------------------------------------------
(* What is left of a write, and of a "genpkey" *)

SavedAs(now, code, lost, path, content) ==
  \/ code = 0 /\ now = Stored(path, content)
  \/ code = 1 /\ (now = files \/ now = Stored(path, Cut))
  \/ code = 0 /\ lost /\ now = Stored(path, Cut)

LEMMA SavedIs ==
  ASSUME NEW path, NEW content, NEW s \in Saved(path, content)
  PROVE  SavedAs(s.files, IF s.ok THEN 0 ELSE 1, s.lost, path, content)
<1>1. CASE s = [files |-> Stored(path, content), ok |-> TRUE, lost |-> FALSE]
  BY <1>1 DEF SavedAs
<1>2. CASE s = [files |-> files, ok |-> FALSE, lost |-> FALSE]
  BY <1>2 DEF SavedAs
<1>3. CASE s = [files |-> Stored(path, Cut), ok |-> FALSE, lost |-> FALSE]
  BY <1>3 DEF SavedAs
<1>4. CASE s = [files |-> Stored(path, Cut), ok |-> TRUE, lost |-> TRUE]
  BY <1>4 DEF SavedAs
<1> QED
  BY <1>1, <1>2, <1>3, <1>4 DEF Saved

LEMMA GenpkeyEnds ==
  ASSUME NEW args, NEW g \in Genpkey(args), NEW opt, opt = GenpkeyOptions(args)
  PROVE  \/ opt.bad = "help" /\ g.code = 0 /\ g.files = files /\ g.made = made
         \/ g.code = 1 /\ g.files = files /\ g.made = made
         \/ /\ opt.bad \notin {"help", "usage"} /\ ~Refused(opt) /\ g.made = made + 1
            /\ SavedAs(g.files, g.code, g.lost, opt.out, NewKey(opt))
<1>1. CASE opt.bad = "help"
  BY <1>1 DEF Genpkey
<1>2. CASE opt.bad # "help" /\ (opt.bad = "usage" \/ opt.out = NULL)
  BY <1>2 DEF Genpkey
<1>3. CASE opt.bad \notin {"help", "usage"} /\ opt.out # NULL
  <2>1. SUFFICES ASSUME ~(g.code = 1 /\ g.files = files /\ g.made = made)
                 PROVE  /\ ~Refused(opt) /\ g.made = made + 1
                        /\ SavedAs(g.files, g.code, g.lost, opt.out, NewKey(opt))
    BY <1>3
  <2>2. g # [files |-> files, code |-> 1, made |-> made, lost |-> FALSE]
    BY <2>1
  <2>3. ~Refused(opt)
    BY <1>3, <2>2 DEF Genpkey
  <2>4. PICK s \in Saved(opt.out, NewKey(opt)) :
          g = [files |-> s.files, code |-> IF s.ok THEN 0 ELSE 1, made |-> made + 1, lost |-> s.lost]
    BY <1>3, <2>2, <2>3 DEF Genpkey
  <2>5. g.files = s.files /\ g.code = (IF s.ok THEN 0 ELSE 1) /\ g.made = made + 1 /\ g.lost = s.lost
    BY <2>4
  <2>6. SavedAs(s.files, IF s.ok THEN 0 ELSE 1, s.lost, opt.out, NewKey(opt))
    BY SavedIs
  <2> QED
    BY <2>3, <2>5, <2>6
<1> QED
  BY <1>1, <1>2, <1>3

----------------------------------------------------------------------------
(* What is left of a "dhparam" and of a "crl" *)

DhparamWrote(opt, params, e) ==
  /\ opt.check => Checks(params)
  /\ IF opt.noout \/ opt.out = NULL THEN e.code = 0 /\ e.files = files
     ELSE SavedAs(e.files, e.code, e.lost, opt.out, [params EXCEPT !.form = opt.form])

LEMMA DhparamWrites ==
  ASSUME NEW opt, NEW params, NEW n, NEW e \in DhparamEnds(opt, params, n)
  PROVE  e.made = n /\ ((e.code = 1 /\ e.files = files) \/ DhparamWrote(opt, params, e))
<1>1. CASE opt.check /\ ~Checks(params)
  BY <1>1 DEF DhparamEnds, Ended
<1>2. CASE ~(opt.check /\ ~Checks(params)) /\ (opt.noout \/ opt.out = NULL)
  BY <1>2 DEF DhparamEnds, Ended, DhparamWrote
<1>3. CASE ~(opt.check /\ ~Checks(params)) /\ ~(opt.noout \/ opt.out = NULL)
  <2>1. PICK s \in Saved(opt.out, [params EXCEPT !.form = opt.form]) :
          e = Ended(s.files, IF s.ok THEN 0 ELSE 1, n, s.lost)
    BY <1>3 DEF DhparamEnds
  <2>2. e.files = s.files /\ e.code = (IF s.ok THEN 0 ELSE 1) /\ e.made = n /\ e.lost = s.lost
    BY <2>1 DEF Ended
  <2>3. SavedAs(s.files, IF s.ok THEN 0 ELSE 1, s.lost, opt.out, [params EXCEPT !.form = opt.form])
    BY SavedIs
  <2> QED
    BY <1>3, <2>2, <2>3 DEF DhparamWrote
<1> QED
  BY <1>1, <1>2, <1>3

LEMMA DhparamLeaves ==
  ASSUME ToolsAssumption, NEW args, NEW e \in Dhparam(args), NEW opt, opt = DhparamOptions(args)
  PROVE  \/ opt.bad = "help" /\ e.code = 0 /\ e.files = files /\ e.made = made
         \/ e.code = 1 /\ e.files = files /\ e.made \in {made, made + 1}
         \/ /\ opt.bad \notin {"help", "usage"} /\ Reads(opt) /\ e.made = made
            /\ opt.in \in DOMAIN files /\ files[opt.in].what = "dh"
            /\ DhparamWrote(opt, files[opt.in], e)
         \/ /\ opt.bad \notin {"help", "usage"} /\ ~Reads(opt) /\ e.made = made + 1
            /\ opt.bits # 0 /\ DhparamWrote(opt, NewParams(opt), e)
<1> DEFINE Silent == opt.bad = "usage" \/ (opt.out = NULL /\ ~opt.noout /\ ~opt.check)
<1>1. CASE opt.bad = "help"
  BY <1>1 DEF Dhparam, Ended
<1>2. CASE opt.bad # "help" /\ Silent
  BY <1>2 DEF Dhparam, Ended
<1>3. CASE opt.bad # "help" /\ ~Silent /\ Reads(opt)
  <2>1. CASE opt.in \in DOMAIN files /\ files[opt.in].what = "dh"
    <3>1. e \in DhparamEnds(opt, files[opt.in], made)
      BY <1>3, <2>1 DEF Dhparam
    <3>2. e.made = made /\ ((e.code = 1 /\ e.files = files) \/ DhparamWrote(opt, files[opt.in], e))
      BY <3>1, DhparamWrites
    <3> QED
      BY <1>3, <2>1, <3>2
  <2>2. CASE ~(opt.in \in DOMAIN files /\ files[opt.in].what = "dh")
    BY <1>3, <2>2 DEF Dhparam, Ended
  <2> QED
    BY <2>1, <2>2
<1>4. CASE opt.bad # "help" /\ ~Silent /\ ~Reads(opt)
  <2>1. SUFFICES ASSUME ~(e.code = 1 /\ e.files = files /\ e.made = made)
                 PROVE  \/ e.code = 1 /\ e.files = files /\ e.made = made + 1
                        \/ e.made = made + 1 /\ opt.bits # 0 /\ DhparamWrote(opt, NewParams(opt), e)
    BY <1>4
  <2>2. e # [files |-> files, code |-> 1, made |-> made, lost |-> FALSE]
    BY <2>1
  <2>3. ~TooShort(NewParams(opt)) /\ e \in DhparamEnds(opt, NewParams(opt), made + 1)
    <3>1. ~TooShort(NewParams(opt))
      BY <1>4, <2>2 DEF Dhparam, Ended
    <3> QED
      BY <1>4, <2>2, <3>1 DEF Dhparam, Ended
  <2>4. e.made = made + 1 /\ ((e.code = 1 /\ e.files = files) \/ DhparamWrote(opt, NewParams(opt), e))
    BY <2>3, DhparamWrites
  <2>5. opt.bits # 0
    BY <2>3 DEF TooShort, NewParams, ToolsAssumption
  <2> QED
    BY <2>4, <2>5
<1> QED
  BY <1>1, <1>2, <1>3, <1>4

CrlWrote(opt, e) ==
  IF opt.noout \/ opt.out = NULL THEN e.code = 0 /\ e.files = files
  ELSE SavedAs(e.files, e.code, e.lost, opt.out, FirstList(opt))

LEMMA CrlLeaves ==
  ASSUME NEW args, NEW e \in Crl(args), NEW opt, opt = CrlOptions(args)
  PROVE  /\ e.made = made
         /\ \/ opt.bad = "help" /\ e.code = 0 /\ e.files = files
            \/ e.code = 1 /\ e.files = files
            \/ /\ opt.bad \notin {"help", "usage"} /\ Holds(opt.in, "crl")
               /\ opt.verify => Verified(opt)
               /\ CrlWrote(opt, e)
<1>1. CASE opt.bad = "help"
  BY <1>1 DEF Crl, Ended
<1>2. CASE opt.bad # "help" /\ (opt.bad = "usage" \/ ~Holds(opt.in, "crl"))
  BY <1>2 DEF Crl, Ended
<1>3. CASE opt.bad \notin {"help", "usage"} /\ Holds(opt.in, "crl") /\ opt.verify /\ ~Verified(opt)
  BY <1>3 DEF Crl, Ended
<1>4. CASE opt.bad \notin {"help", "usage"} /\ Holds(opt.in, "crl") /\ (opt.verify => Verified(opt))
  <2>1. CASE opt.noout \/ opt.out = NULL
    BY <1>4, <2>1 DEF Crl, Ended, CrlWrote
  <2>2. CASE ~(opt.noout \/ opt.out = NULL)
    <3>1. PICK s \in Saved(opt.out, FirstList(opt)) :
            e = Ended(s.files, IF s.ok THEN 0 ELSE 1, made, s.lost)
      BY <1>4, <2>2 DEF Crl
    <3>2. e.files = s.files /\ e.code = (IF s.ok THEN 0 ELSE 1) /\ e.made = made /\ e.lost = s.lost
      BY <3>1 DEF Ended
    <3>3. SavedAs(s.files, IF s.ok THEN 0 ELSE 1, s.lost, opt.out, FirstList(opt))
      BY SavedIs
    <3> QED
      BY <1>4, <2>2, <3>2, <3>3 DEF CrlWrote
  <2> QED
    BY <2>1, <2>2
<1> QED
  BY <1>1, <1>2, <1>3, <1>4

----------------------------------------------------------------------------
(* The invariant: a command starts with the files and the keys as they are, *)
(* and what a command ended with is still there until the next one starts.  *)

CommandFields == {"tool", "args", "env", "pc", "code", "usage", "lost", "before", "made", "opt",
                  "params", "names", "key", "crt"}

\* What every step of every command keeps.
Sound ==
  /\ made \in Nat /\ FilesParsable
  /\ cmd.pc # "exit" => DOMAIN cmd = CommandFields
  /\ cmd.pc = "start" => cmd.before = files /\ cmd.made = made /\ CommandLine(cmd.args)
  /\ cmd.pc = "certificate" => cmd.crt.what = "crt"

ToolInv == Sound /\ GeneratedAsAsked /\ DhparamDone /\ CrlDone

AllParsable(now) == \A p \in DOMAIN now : Parsable(now[p])

LEMMA SavedParsable ==
  ASSUME FilesParsable, NEW path, NEW content, Parsable(content), NEW now, NEW code, NEW lost,
         SavedAs(now, code, lost, path, content)
  PROVE  AllParsable(now)
<1>1. Parsable(Cut)
  BY DEF Parsable, Cut
<1>2. ASSUME NEW new, Parsable(new) PROVE AllParsable(Stored(path, new))
  BY <1>2 DEF AllParsable, FilesParsable, Stored
<1>3. AllParsable(files)
  BY DEF AllParsable, FilesParsable
<1> QED
  BY <1>1, <1>2, <1>3 DEF SavedAs

LEMMA GenpkeyParsable ==
  ASSUME FilesParsable, made \in Nat, NEW args, NEW g \in Genpkey(args)
  PROVE  AllParsable(g.files) /\ g.made \in Nat
<1>1. PICK opt : opt = GenpkeyOptions(args)
  OBVIOUS
<1>2. AllParsable(files)
  BY DEF AllParsable, FilesParsable
<1>3. CASE SavedAs(g.files, g.code, g.lost, opt.out, NewKey(opt)) /\ g.made = made + 1
  <2>1. Parsable(NewKey(opt))
    BY DEF Parsable, NewKey
  <2> QED
    BY <1>3, <2>1, SavedParsable
<1>4. CASE g.files = files /\ g.made = made
  BY <1>2, <1>4
<1> QED
  BY <1>1, <1>3, <1>4, GenpkeyEnds

\* A command that is none of the three has nothing to answer for here.
LEMMA NoneFinished ==
  ASSUME cmd'.tool \notin {"genpkey", "dhparam", "crl"} \/ cmd'.pc # "exit"
  PROVE  GeneratedAsAsked' /\ DhparamDone' /\ CrlDone'
BY DEF GeneratedAsAsked, DhparamDone, CrlDone, Finished

LEMMA StartSound ==
  ASSUME ToolsStart
  PROVE  ToolInv
<1>1. cmd.tool = "none" /\ cmd.pc = "exit"
  BY DEF ToolsStart, Idle
<1>2. Sound
  BY <1>1 DEF ToolsStart, Sound
<1>3. GeneratedAsAsked /\ DhparamDone /\ CrlDone
  BY <1>1 DEF GeneratedAsAsked, DhparamDone, CrlDone, Finished
<1> QED
  BY <1>2, <1>3 DEF ToolInv

LEMMA RunSound ==
  ASSUME Sound, NEW tool, NEW args, NEW env, CommandLine(args), Run(tool, args, env)
  PROVE  ToolInv'
<1>1. files' = files /\ made' = made /\ cmd' = Begin(tool, args, env)
  BY DEF Run, Untouched
<1>2. /\ DOMAIN cmd' = CommandFields /\ cmd'.pc = "start" /\ cmd'.before = files /\ cmd'.made = made
      /\ cmd'.args = args
  BY <1>1 DEF Begin, CommandFields
<1>3. Sound'
  BY <1>1, <1>2 DEF Sound, FilesParsable
<1>4. GeneratedAsAsked' /\ DhparamDone' /\ CrlDone'
  BY <1>2, NoneFinished
<1> QED
  BY <1>3, <1>4 DEF ToolInv

LEMMA KilledSound ==
  ASSUME Sound, Killed
  PROVE  ToolInv'
<1>1. files' = files /\ made' = made /\ cmd'.tool = "none" /\ cmd'.pc = "exit"
  BY DEF Killed, Untouched, Idle
<1>2. Sound'
  BY <1>1 DEF Sound, FilesParsable
<1>3. GeneratedAsAsked' /\ DhparamDone' /\ CrlDone'
  BY <1>1, NoneFinished
<1> QED
  BY <1>2, <1>3 DEF ToolInv

----------------------------------------------------------------------------
(* The steps of "req" *)

ReqKeeps ==
  /\ cmd'.tool = "req" /\ DOMAIN cmd' = CommandFields /\ cmd'.pc # "start"
  /\ cmd'.pc = "certificate" => cmd'.crt.what = "crt"
  /\ made' \in Nat /\ AllParsable(files')

LEMMA ReqSound ==
  ASSUME Sound, ReqNext
  PROVE  ToolInv'
<1>1. ReqKeeps
  <2>1. made \in Nat /\ FilesParsable /\ AllParsable(files)
    BY DEF Sound, FilesParsable, AllParsable
  <2>2. DOMAIN cmd = CommandFields /\ cmd.tool = "req"
    <3>1. cmd.tool = "req" /\ cmd.pc # "exit"
      BY DEF ReqNext, ReqParsesOptions, ReqReadsConfig, ReqShows, ReqGeneratesKey, ReqLoadsKey,
             ReqWritesRequest, ReqCertifies, ReqWritesCertificate, At
    <3> QED
      BY <3>1 DEF Sound
  <2>3. ASSUME Untouched, \E code : Exit(code) PROVE ReqKeeps
    <3>1. PICK code : cmd' = [cmd EXCEPT !.pc = "exit", !.code = code]
      BY <2>3 DEF Exit
    <3> QED
      BY <2>1, <2>2, <2>3, <3>1 DEF ReqKeeps, Untouched, CommandFields
  <2>4. ASSUME Untouched, Usage PROVE ReqKeeps
    BY <2>1, <2>2, <2>4 DEF ReqKeeps, Untouched, Usage, CommandFields
  <2>5. CASE ReqParsesOptions
    <3>1. PICK opt : cmd' = [cmd EXCEPT !.pc = "config", !.opt = opt] \/ Usage \/ Exit(0)
      BY <2>5 DEF ReqParsesOptions
    <3>2. Untouched
      BY <2>5 DEF ReqParsesOptions
    <3>3. CASE cmd' = [cmd EXCEPT !.pc = "config", !.opt = opt]
      BY <2>1, <2>2, <3>2, <3>3 DEF ReqKeeps, Untouched, CommandFields
    <3> QED
      BY <2>3, <2>4, <3>1, <3>2, <3>3
  <2>6. CASE ReqReadsConfig
    <3>1. Untouched /\ (Exit(1) \/ \E opt, params : Proceeds(opt, params))
      BY <2>6 DEF ReqReadsConfig
    <3>2. ASSUME NEW opt, NEW params, Proceeds(opt, params), ~Usage PROVE ReqKeeps
      <4>1. cmd' = [cmd EXCEPT !.opt = opt, !.params = params,
                               !.pc = IF opt.in # NULL THEN "show"
                                      ELSE IF opt.newkey # NULL THEN "newkey" ELSE "load"]
        BY <3>2 DEF Proceeds
      <4> QED
        BY <2>1, <2>2, <3>1, <4>1 DEF ReqKeeps, Untouched, CommandFields
    <3> QED
      BY <2>3, <2>4, <3>1, <3>2
  <2>7. CASE ReqShows
    BY <2>3, <2>7 DEF ReqShows
  <2>8. CASE ReqGeneratesKey
    <3>1. CASE NewkeyAllowed
      <4>1. PICK args : \E g \in Genpkey(args) :
                          /\ files' = g.files /\ made' = g.made
                          /\ cmd' = [cmd EXCEPT !.opt.key = Opt.keyout, !.lost = g.lost, !.pc = "load"]
        BY <2>8, <3>1 DEF ReqGeneratesKey
      <4>2. PICK g \in Genpkey(args) :
              /\ files' = g.files /\ made' = g.made
              /\ cmd' = [cmd EXCEPT !.opt.key = Opt.keyout, !.lost = g.lost, !.pc = "load"]
        BY <4>1
      <4>3. AllParsable(g.files) /\ g.made \in Nat
        BY <2>1, GenpkeyParsable
      <4>4. cmd'.tool = "req" /\ DOMAIN cmd' = CommandFields /\ cmd'.pc = "load"
        BY <2>2, <4>2 DEF CommandFields
      <4> QED
        BY <4>2, <4>3, <4>4 DEF ReqKeeps
    <3>2. CASE ~NewkeyAllowed
      BY <2>4, <2>8, <3>2 DEF ReqGeneratesKey
    <3> QED
      BY <3>1, <3>2
  <2>9. CASE ReqLoadsKey
    <3>1. Untouched
      BY <2>9 DEF ReqLoadsKey
    <3>2. ASSUME ~Exit(1) PROVE ReqKeeps
      <4>1. PICK names : cmd' = [cmd EXCEPT !.names = names, !.key = files[Opt.key].id,
                                            !.pc = IF Opt.noout THEN "certify" ELSE "request"]
        BY <2>9, <3>2 DEF ReqLoadsKey
      <4> QED
        BY <2>1, <2>2, <3>1, <4>1 DEF ReqKeeps, Untouched, CommandFields
    <3> QED
      BY <2>3, <3>1, <3>2
  <2>10. CASE ReqWritesRequest
    <3>1. made' = made
      BY <2>10 DEF ReqWritesRequest
    <3>2. CASE Exit(1) /\ UNCHANGED files
      BY <2>3, <3>1, <3>2 DEF Untouched
    <3>3. CASE ~(Exit(1) /\ UNCHANGED files)
      <4>1. PICK s \in Saved(Opt.out, Request) :
              /\ files' = s.files
              /\ IF s.ok THEN cmd' = [cmd EXCEPT !.pc = "certify", !.lost = cmd.lost \/ s.lost] ELSE Exit(1)
        BY <2>10, <3>3 DEF ReqWritesRequest
      <4>2. Parsable(Request)
        BY DEF Parsable, Request
      <4>3. AllParsable(files')
        <5>1. SavedAs(s.files, IF s.ok THEN 0 ELSE 1, s.lost, Opt.out, Request)
          BY SavedIs
        <5> QED
          BY <2>1, <4>1, <4>2, <5>1, SavedParsable
      <4>4. cmd'.tool = "req" /\ DOMAIN cmd' = CommandFields /\ cmd'.pc \in {"certify", "exit"}
        <5>1. CASE s.ok
          <6>1. PICK lost : cmd' = [cmd EXCEPT !.pc = "certify", !.lost = lost]
            BY <4>1, <5>1
          <6> QED
            BY <2>2, <6>1 DEF CommandFields
        <5>2. CASE ~s.ok
          BY <2>2, <4>1, <5>2 DEF CommandFields, Exit
        <5> QED
          BY <5>1, <5>2
      <4> QED
        BY <2>1, <3>1, <4>3, <4>4 DEF ReqKeeps
    <3> QED
      BY <3>2, <3>3
  <2>11. CASE ReqCertifies
    <3>1. Untouched
      BY <2>11 DEF ReqCertifies
    <3>2. ASSUME ~Exit(0), ~Exit(1), ~Usage PROVE ReqKeeps
      <4>0. PICK names, days : /\ days = IF Opt.days = NULL THEN 365 ELSE Opt.days
                               /\ names = StringToNames(DnGets(cmd.names))
        OBVIOUS
      <4>1. cmd' =
              [cmd EXCEPT !.names = names, !.pc = IF Opt.noout THEN "done" ELSE "certificate",
                          !.crt = [what |-> "crt", key |-> cmd.key, names |-> names,
                                   digest |-> Opt.digest, days |-> days, form |-> "PEM",
                                   serial |-> IF Opt.serial = NULL THEN "random" ELSE Opt.serial,
                                   version |-> Version,
                                   extensions |-> IF Version = 3 THEN Written(cmd.params) ELSE <<>>]]
        BY <2>11, <3>2, <4>0 DEF ReqCertifies
      <4> QED
        BY <2>1, <2>2, <3>1, <4>1 DEF ReqKeeps, Untouched, CommandFields
    <3> QED
      BY <2>3, <2>4, <3>1, <3>2
  <2>12. CASE ReqWritesCertificate
    <3>1. made' = made
      BY <2>12 DEF ReqWritesCertificate
    <3>2. CASE Exit(0) /\ UNCHANGED files
      BY <2>3, <3>1, <3>2 DEF Untouched
    <3>3. CASE ~(Exit(0) /\ UNCHANGED files)
      <4>1. At("certificate")
        BY <2>12, <3>3 DEF ReqWritesCertificate
      <4>2. PICK s \in Saved(Opt.out, cmd.crt) :
              /\ files' = s.files
              /\ cmd' = [cmd EXCEPT !.pc = "exit", !.code = IF s.ok THEN 0 ELSE 1,
                                    !.lost = cmd.lost \/ s.lost]
        BY <2>12, <3>3 DEF ReqWritesCertificate
      <4>3. Parsable(cmd.crt)
        BY <4>1 DEF Parsable, At, Sound
      <4>4. AllParsable(files')
        <5>1. SavedAs(s.files, IF s.ok THEN 0 ELSE 1, s.lost, Opt.out, cmd.crt)
          BY SavedIs
        <5> QED
          BY <2>1, <4>2, <4>3, <5>1, SavedParsable
      <4>5. cmd'.tool = "req" /\ DOMAIN cmd' = CommandFields /\ cmd'.pc = "exit"
        BY <2>2, <4>2 DEF CommandFields
      <4> QED
        BY <2>1, <3>1, <4>4, <4>5 DEF ReqKeeps
    <3> QED
      BY <3>2, <3>3
  <2> QED
    BY <2>5, <2>6, <2>7, <2>8, <2>9, <2>10, <2>11, <2>12 DEF ReqNext
<1>2. Sound'
  BY <1>1 DEF ReqKeeps, Sound, FilesParsable, AllParsable
<1>3. GeneratedAsAsked' /\ DhparamDone' /\ CrlDone'
  <2>1. cmd'.tool = "req"
    BY <1>1 DEF ReqKeeps
  <2> QED
    BY <2>1, NoneFinished
<1> QED
  BY <1>2, <1>3 DEF ToolInv

----------------------------------------------------------------------------
(* "genpkey" *)

LEMMA OptionIs ==
  ASSUME NEW args, CommandLine(args), NEW name, NEW default
  PROVE  OptionIn(args, name, default, Len(args)) = GivenOption(args, name, default)
<1>1. PICK at : at = {i \in DOMAIN args : args[i][1] = "-pkeyopt" /\ args[i][2][1] = name}
  OBVIOUS
<1>2. OptionPlaces(args, name, Len(args)) = at
  BY <1>1 DEF CommandLine, OptionPlaces
<1>3. GivenOption(args, name, default) = IF at = {} THEN default ELSE args[LastOf(at)][2][2]
  BY <1>1 DEF GivenOption, LastOf
<1> QED
  BY <1>2, <1>3 DEF OptionIn

LEMMA EndSound ==
  ASSUME Sound, cmd.pc = "start", NEW e, EndsWith(e), AllParsable(e.files), e.made \in Nat
  PROVE  /\ Sound' /\ CommandLine(cmd.args)
         /\ cmd'.tool = cmd.tool /\ cmd'.pc = "exit" /\ cmd'.args = cmd.args /\ cmd'.code = e.code
         /\ cmd'.lost = e.lost /\ cmd'.made = made /\ cmd'.before = files
         /\ files' = e.files /\ made' = e.made
<1>1. DOMAIN cmd = CommandFields /\ cmd.before = files /\ cmd.made = made /\ CommandLine(cmd.args)
  BY DEF Sound
<1>2. /\ cmd'.tool = cmd.tool /\ cmd'.pc = "exit" /\ cmd'.args = cmd.args /\ cmd'.code = e.code
      /\ cmd'.lost = e.lost /\ cmd'.made = made /\ cmd'.before = files
  BY <1>1 DEF EndsWith, CommandFields
<1>3. Sound'
  BY <1>2 DEF EndsWith, Sound, FilesParsable, AllParsable
<1> QED
  BY <1>1, <1>2, <1>3 DEF EndsWith

LEMMA GenpkeySound ==
  ASSUME ToolsAssumption, Sound, GenpkeyRuns
  PROVE  ToolInv'
<1>1. PICK g \in Genpkey(cmd.args) : EndsWith(g)
  BY DEF GenpkeyRuns
<1>2. made \in Nat /\ FilesParsable
  BY DEF Sound
<1>3. AllParsable(g.files) /\ g.made \in Nat
  BY <1>2, GenpkeyParsable
<1>4. SUFFICES ASSUME NEW args, args = cmd.args PROVE ToolInv'
  OBVIOUS
<1>5. /\ Sound' /\ CommandLine(args)
      /\ cmd'.tool = "genpkey" /\ cmd'.pc = "exit" /\ cmd'.args = args /\ cmd'.code = g.code
      /\ cmd'.lost = g.lost /\ cmd'.made = made
      /\ files' = g.files /\ made' = g.made
  BY <1>1, <1>3, <1>4, EndSound DEF GenpkeyRuns
<1>6. DhparamDone' /\ CrlDone'
  BY <1>5 DEF DhparamDone, CrlDone, Finished
<1>7. GeneratedAsAsked'
  <2>1. SUFFICES ASSUME g.code = 0, ~g.lost, ~ \E i \in DOMAIN args : args[i][1] = "-help"
                 PROVE  GeneratedAsAsked'
    BY <1>5 DEF GeneratedAsAsked
  <2>2. PICK opt : opt = GenpkeyOptions(args)
    OBVIOUS
  <2>3. GenpkeyRead(args, Len(args), opt)
    BY <1>5, <2>2, GenpkeyOptionsRead DEF CommandLine
  <2>4. opt.bad = NULL /\ GenpkeyGiven(args, Len(args), opt)
    <3>1. ~Asked(args, "-help", Len(args))
      BY <1>5, <2>1, AskedIs
    <3>2. opt.bad # "help"
      BY <2>3, <3>1 DEF GenpkeyRead
    <3>3. opt.bad # "usage"
      BY <1>4, <2>1, <2>2, <3>2, GenpkeyEnds
    <3> QED
      BY <2>3, <3>2, <3>3 DEF GenpkeyRead
  <2>5. ~Refused(opt) /\ g.made = made + 1 /\ SavedAs(g.files, g.code, g.lost, opt.out, NewKey(opt))
    BY <1>4, <2>1, <2>2, <2>4, GenpkeyEnds DEF ToolsAssumption
  <2>6. g.files = Stored(opt.out, NewKey(opt))
    BY <2>1, <2>5 DEF SavedAs
  <2>7. files'[opt.out] = NewKey(opt)
    BY <1>5, <2>6 DEF Stored
  <2>8. /\ opt.out = Given(args, "-out", NULL) /\ opt.form = Given(args, "-outform", "PEM")
        /\ opt.algorithm = Given(args, "-algorithm", "rsa")
        /\ opt.bits = GivenOption(args, "rsa_keygen_bits", 2048) /\ opt.bits \in 1024 .. MaxBits
        /\ opt.curve = GivenOption(args, "ec_paramgen_curve", NULL)
    BY <1>5, <2>4, GivenIs, OptionIs DEF GenpkeyGiven
  <2>9. PICK key : key = NewKey(opt)
    OBVIOUS
  <2>10. /\ key.what = "key" /\ key.id = made + 1 /\ key.algorithm = opt.algorithm /\ key.form = opt.form
         /\ key.algorithm = "rsa" => key.size = opt.bits
         /\ key.algorithm # "rsa" => key.size = opt.curve /\ key.size # NULL
    BY <2>5, <2>9 DEF NewKey, Refused
  <2> QED
    BY <1>5, <2>5, <2>7, <2>8, <2>9, <2>10 DEF GeneratedAsAsked
<1> QED
  BY <1>5, <1>6, <1>7 DEF ToolInv

----------------------------------------------------------------------------
(* "dhparam" *)

LEMMA OnlyCutIf ==
  ASSUME cmd'.before = files, NEW path, path = Given(cmd'.args, "-out", NULL),
         files' = files \/ files' = Stored(path, Cut)
  PROVE  OnlyCut'
<1>1. CASE files' = files
  BY <1>1 DEF OnlyCut, Kept
<1>2. CASE files' = Stored(path, Cut)
  BY <1>2 DEF OnlyCut, Kept, Target, Stored
<1> QED
  BY <1>1, <1>2

LEMMA DhparamParsable ==
  ASSUME Sound, NEW args, NEW e \in Dhparam(args), ToolsAssumption
  PROVE  AllParsable(e.files) /\ e.made \in Nat
<1>1. made \in Nat /\ FilesParsable /\ AllParsable(files)
  BY DEF Sound, FilesParsable, AllParsable
<1>2. PICK opt : opt = DhparamOptions(args)
  OBVIOUS
<1>3. ASSUME NEW params, Parsable(params), params.what = "dh", DhparamWrote(opt, params, e)
      PROVE  AllParsable(e.files)
  <2>1. CASE opt.noout \/ opt.out = NULL
    BY <1>1, <1>3, <2>1 DEF DhparamWrote
  <2>2. CASE ~(opt.noout \/ opt.out = NULL)
    <3>1. SavedAs(e.files, e.code, e.lost, opt.out, [params EXCEPT !.form = opt.form])
      BY <1>3, <2>2 DEF DhparamWrote
    <3>2. Parsable([params EXCEPT !.form = opt.form])
      BY <1>3 DEF Parsable
    <3> QED
      BY <1>1, <3>1, <3>2, SavedParsable
  <2> QED
    BY <2>1, <2>2
<1>4. CASE e.files = files /\ e.made \in {made, made + 1}
  BY <1>1, <1>4
<1>5. CASE opt.in \in DOMAIN files /\ files[opt.in].what = "dh" /\ DhparamWrote(opt, files[opt.in], e) /\ e.made = made
  BY <1>1, <1>3, <1>5 DEF FilesParsable
<1>6. CASE DhparamWrote(opt, NewParams(opt), e) /\ e.made = made + 1
  <2>1. Parsable(NewParams(opt)) /\ NewParams(opt).what = "dh"
    BY DEF Parsable, NewParams
  <2> QED
    BY <1>1, <1>3, <1>6, <2>1
<1> QED
  BY <1>2, <1>4, <1>5, <1>6, DhparamLeaves

\* What is written, said of the arguments.
DhparamMade(args, opt, out) ==
  LET n == Len(args)
      asked(flag) == \E i \in DOMAIN args : args[i][1] = flag
  IN /\ out.what = "dh" /\ out.form = opt.form
     /\ IF ~asked("-in") \/ args[n][1] = "bits"
        THEN /\ out.id > made /\ out.g = opt.g
             /\ out.bits = IF args[n][1] = "bits" THEN args[n][2] ELSE 2048
        ELSE out = [files[opt.in] EXCEPT !.form = out.form]
     /\ asked("-check") => out.bits >= 512 /\ out.suit

LEMMA ChecksAtLeast ==
  ASSUME NEW params, Checks(params)
  PROVE  params.bits >= 512 /\ params.suit
<1>1. 512 <= params.bits /\ params.suit
  BY DEF Checks
<1> QED
  BY <1>1

LEMMA DhparamSound ==
  ASSUME ToolsAssumption, Sound, ToolRuns, cmd.tool = "dhparam"
  PROVE  ToolInv'
<1>1. PICK e \in Dhparam(cmd.args) : EndsWith(e)
  BY DEF ToolRuns
<1>2. SUFFICES ASSUME NEW args, args = cmd.args PROVE ToolInv'
  OBVIOUS
<1>3. AllParsable(e.files) /\ e.made \in Nat
  BY DhparamParsable
<1>4. /\ Sound' /\ CommandLine(args)
      /\ cmd'.tool = "dhparam" /\ cmd'.pc = "exit" /\ cmd'.args = args /\ cmd'.code = e.code
      /\ cmd'.lost = e.lost /\ cmd'.made = made /\ cmd'.before = files
      /\ files' = e.files /\ made' = e.made
  BY <1>1, <1>2, <1>3, EndSound DEF ToolRuns
<1>5. GeneratedAsAsked' /\ CrlDone'
  BY <1>4 DEF GeneratedAsAsked, CrlDone, Finished
<1>6. DhparamDone'
  <2>1. SUFFICES ASSUME ~ \E i \in DOMAIN args : args[i][1] = "-help"
                 PROVE  DhparamDone'
    BY <1>4 DEF DhparamDone, Finished, Asks
  <2>2. PICK opt : opt = DhparamOptions(args)
    OBVIOUS
  <2>3. PICK n \in Nat : n = Len(args)
    <3>1. Len(args) \in Nat
      BY <1>4 DEF CommandLine
    <3> QED
      BY <3>1
  <2>4. DhparamRead(args, n, opt)
    BY <1>4, <2>2, <2>3, DhparamOptionsRead DEF CommandLine
  <2>5. opt.bad # "help"
    <3>1. ~Asked(args, "-help", n)
      BY <1>4, <2>1, <2>3, AskedIs
    <3> QED
      BY <2>4, <3>1 DEF DhparamRead
  <2>6. \/ e.code = 1 /\ e.files = files
        \/ /\ opt.bad = NULL /\ Reads(opt) /\ e.made = made
           /\ opt.in \in DOMAIN files /\ files[opt.in].what = "dh"
           /\ DhparamWrote(opt, files[opt.in], e)
        \/ /\ opt.bad = NULL /\ ~Reads(opt) /\ e.made = made + 1
           /\ opt.bits # 0 /\ DhparamWrote(opt, NewParams(opt), e)
    BY <1>2, <2>2, <2>4, <2>5, DhparamLeaves DEF DhparamRead
  <2>7. CASE e.code = 1 /\ e.files = files
    <3>1. OnlyCut'
      BY <1>4, <2>7, OnlyCutIf
    <3> QED
      BY <1>4, <2>7, <3>1 DEF DhparamDone
  <2>8. ASSUME opt.bad = NULL, opt.bits # 0, NEW params, DhparamWrote(opt, params, e),
               n # 0 /\ (opt.check => Checks(params)) =>
                 DhparamMade(args, opt, [params EXCEPT !.form = opt.form])
        PROVE  DhparamDone'
    <3>1. DhparamGiven(args, n, opt)
      BY <2>4, <2>8 DEF DhparamRead
    <3>2. /\ opt.in = Given(args, "-in", NULL) /\ opt.out = Given(args, "-out", NULL)
          /\ opt.form = Given(args, "-outform", "PEM") /\ opt.g = Given(args, "-g", 2)
      BY <1>4, <2>3, <3>1, GivenIs DEF DhparamGiven
    <3>3. opt.check <=> \E i \in DOMAIN args : args[i][1] = "-check"
      BY <1>4, <2>3, <3>1, AskedIs DEF DhparamGiven
    <3>4. opt.noout <=> \E i \in DOMAIN args : args[i][1] = "-noout"
      <4>1. opt.noout <=> Asked(args, "-noout", n)
        BY <2>8, <3>1 DEF DhparamGiven
      <4> QED
        BY <1>4, <2>3, <4>1, AskedIs
    <3>5. CASE opt.noout \/ opt.out = NULL
      <4>1. e.files = files
        BY <2>8, <3>5 DEF DhparamWrote
      <4>2. OnlyCut'
        BY <1>4, <4>1, OnlyCutIf
      <4>3. Target' = opt.out /\ (Asks("-noout")' <=> opt.noout)
        BY <1>4, <3>2, <3>4 DEF Target, Asks
      <4> QED
        BY <1>4, <3>5, <4>2, <4>3 DEF DhparamDone
    <3>6. CASE ~(opt.noout \/ opt.out = NULL)
      <4>1. /\ opt.check => Checks(params)
            /\ SavedAs(e.files, e.code, e.lost, opt.out, [params EXCEPT !.form = opt.form])
        BY <2>8, <3>6 DEF DhparamWrote
      <4>2. CASE e.code = 1 /\ (e.files = files \/ e.files = Stored(opt.out, Cut))
        <5>1. OnlyCut'
          BY <1>4, <3>2, <4>2, OnlyCutIf
        <5> QED
          BY <1>4, <4>2, <5>1 DEF DhparamDone
      <4>3. Target' = opt.out /\ ~Asks("-noout")'
        BY <1>4, <3>2, <3>4, <3>6 DEF Target, Asks
      <4>4. CASE e.code = 0 /\ e.lost
        BY <1>4, <3>6, <4>3, <4>4 DEF DhparamDone
      <4>5. CASE e.code = 0 /\ e.files = Stored(opt.out, [params EXCEPT !.form = opt.form])
        <5>1. n # 0
          BY <2>3, <3>1, <3>6, NoneGiven DEF DhparamGiven
        <5>2. SUFFICES ASSUME NEW out, DhparamMade(args, opt, out), files'[Target'] = out PROVE DhparamDone'
          <6>1. files'[Target'] = [params EXCEPT !.form = opt.form]
            BY <1>4, <4>3, <4>5 DEF Stored
          <6> QED
            BY <2>8, <4>1, <5>1, <6>1
        <5>3. cmd'.code = 0 /\ Target' # NULL /\ cmd'.args = args /\ cmd'.before = files /\ cmd'.made = made
          BY <1>4, <3>6, <4>3, <4>5
        <5> QED
          BY <3>2, <4>3, <5>2, <5>3 DEF DhparamDone, DhparamMade, Asks, Kept
      <4> QED
        BY <4>1, <4>2, <4>4, <4>5 DEF SavedAs
    <3> QED
      BY <3>5, <3>6
  <2>9. CASE /\ opt.bad = NULL /\ Reads(opt) /\ e.made = made
             /\ opt.in \in DOMAIN files /\ files[opt.in].what = "dh"
             /\ DhparamWrote(opt, files[opt.in], e)
    <3>1. DhparamGiven(args, n, opt)
      BY <2>4, <2>9 DEF DhparamRead
    <3>2. opt.bits = NULL /\ opt.bits # 0 /\ opt.in # NULL
      BY <2>9 DEF Reads, ToolsAssumption
    <3>3. \E i \in DOMAIN args : args[i][1] = "-in"
      <4>1. Asked(args, "-in", n)
        BY <1>4, <2>3, <3>1, <3>2, InGiven DEF DhparamGiven
      <4> QED
        BY <1>4, <2>3, <4>1, AskedIs
    <3>4. n # 0 => args[n][1] # "bits"
      BY <2>3, <3>1, <3>2 DEF DhparamGiven, ToolsAssumption
    <3>5. ASSUME n # 0, opt.check => Checks(files[opt.in])
          PROVE  DhparamMade(args, opt, [files[opt.in] EXCEPT !.form = opt.form])
      <4>1. SUFFICES ASSUME NEW q, q = files[opt.in], NEW out, out = [q EXCEPT !.form = opt.form]
                     PROVE  DhparamMade(args, opt, out)
        OBVIOUS
      <4>2. {"what", "bits", "suit", "form"} \subseteq DOMAIN q /\ q.what = "dh"
        BY <2>9, <4>1 DEF Sound, FilesParsable, Parsable
      <4>3. out.what = "dh" /\ out.form = opt.form /\ out.bits = q.bits /\ out.suit = q.suit /\ out = [q EXCEPT !.form = out.form]
        BY <4>1, <4>2
      <4>4. (\E i \in DOMAIN args : args[i][1] = "-check") => out.bits >= 512 /\ out.suit
        <5>1. (\E i \in DOMAIN args : args[i][1] = "-check") => opt.check
          BY <1>4, <2>3, <3>1, AskedIs DEF DhparamGiven
        <5> QED
          BY <3>5, <4>1, <4>3, <5>1, ChecksAtLeast
      <4> QED
        BY <2>3, <3>3, <3>4, <3>5, <4>1, <4>3, <4>4 DEF DhparamMade
    <3> QED
      BY <2>8, <2>9, <3>2, <3>5
  <2>10. CASE /\ opt.bad = NULL /\ ~Reads(opt) /\ e.made = made + 1
              /\ opt.bits # 0 /\ DhparamWrote(opt, NewParams(opt), e)
    <3>1. DhparamGiven(args, n, opt)
      BY <2>4, <2>10 DEF DhparamRead
    <3>2. ASSUME n # 0, opt.check => Checks(NewParams(opt))
          PROVE  DhparamMade(args, opt, [NewParams(opt) EXCEPT !.form = opt.form])
      <4>1. SUFFICES ASSUME NEW out, out = NewParams(opt) PROVE DhparamMade(args, opt, [out EXCEPT !.form = opt.form])
        OBVIOUS
      <4>2. /\ out.what = "dh" /\ out.form = opt.form /\ out.g = opt.g /\ out.id > made
            /\ out.bits = (IF opt.bits = NULL THEN 2048 ELSE opt.bits)
            /\ [out EXCEPT !.form = opt.form] = out
        <5>1. PICK id, bits : id = made + 1 /\ bits = (IF opt.bits = NULL THEN 2048 ELSE opt.bits)
          OBVIOUS
        <5>2. out = [what |-> "dh", id |-> id, bits |-> bits, g |-> opt.g, suit |-> TRUE, form |-> opt.form]
          BY <4>1, <5>1 DEF NewParams
        <5>3. id > made
          BY <5>1 DEF Sound
        <5>4. [out EXCEPT !.form = opt.form] = out
          <6>1. PICK g, f, suit : g = opt.g /\ f = opt.form /\ suit = TRUE
            OBVIOUS
          <6>2. out = [what |-> "dh", id |-> id, bits |-> bits, g |-> g, suit |-> suit, form |-> f]
            BY <5>2, <6>1
          <6>3. [out EXCEPT !.form = f] = out
            BY <6>2
          <6> QED
            BY <6>1, <6>3
        <5> QED
          BY <5>1, <5>2, <5>3, <5>4
      <4>3. out.bits = IF args[n][1] = "bits" THEN args[n][2] ELSE 2048
        BY <2>3, <2>10, <3>1, <3>2, <4>2 DEF DhparamGiven, ToolsAssumption
      <4>4. ~(\E i \in DOMAIN args : args[i][1] = "-in") \/ args[n][1] = "bits"
        <5>1. SUFFICES ASSUME \E i \in DOMAIN args : args[i][1] = "-in", args[n][1] # "bits" PROVE FALSE
          OBVIOUS
        <5>2. opt.bits = NULL
          BY <2>3, <2>10, <3>1, <3>2, <5>1 DEF DhparamGiven
        <5>3. opt.in # NULL
          BY <1>4, <2>3, <3>1, <5>1, AskedIs, InGiven DEF DhparamGiven
        <5> QED
          BY <2>10, <5>2, <5>3 DEF Reads
      <4>5. (\E i \in DOMAIN args : args[i][1] = "-check") => out.bits >= 512 /\ out.suit
        <5>1. (\E i \in DOMAIN args : args[i][1] = "-check") => opt.check
          BY <1>4, <2>3, <3>1, AskedIs DEF DhparamGiven
        <5> QED
          BY <3>2, <4>1, <5>1, ChecksAtLeast
      <4>6. DhparamMade(args, opt, out)
        BY <2>3, <4>2, <4>3, <4>4, <4>5 DEF DhparamMade
      <4> QED
        BY <4>2, <4>6
    <3> QED
      BY <2>8, <2>10, <3>2
  <2> QED
    BY <2>6, <2>7, <2>9, <2>10
<1> QED
  BY <1>4, <1>5, <1>6 DEF ToolInv

----------------------------------------------------------------------------
(* "crl" *)

LEMMA CrlParsable ==
  ASSUME Sound, NEW args, NEW e \in Crl(args)
  PROVE  AllParsable(e.files) /\ e.made \in Nat
<1>1. made \in Nat /\ FilesParsable /\ AllParsable(files)
  BY DEF Sound, FilesParsable, AllParsable
<1>2. PICK opt : opt = CrlOptions(args)
  OBVIOUS
<1>3. e.made = made
  BY <1>2, CrlLeaves
<1>4. CASE e.files = files
  BY <1>1, <1>3, <1>4
<1>5. CASE SavedAs(e.files, e.code, e.lost, opt.out, FirstList(opt))
  <2>1. Parsable(FirstList(opt))
    BY DEF Parsable, FirstList
  <2> QED
    BY <1>1, <1>3, <1>5, <2>1, SavedParsable
<1> QED
  BY <1>2, <1>4, <1>5, CrlLeaves DEF CrlWrote

LEMMA VerifiesFirst ==
  ASSUME NEW crl, NEW certs, Len(certs) \in Nat, DOMAIN certs = 1 .. Len(certs), Verifies(crl, certs)
  PROVE  \E i \in DOMAIN certs : /\ certs[i].subject = crl.issuer /\ certs[i].key = crl.key
                                 /\ \A j \in 1 .. i - 1 : certs[j].subject # crl.issuer
<1>1. PICK N \in SUBSET Nat : N = Named(crl, certs)
  <2>1. Named(crl, certs) \in SUBSET Nat
    BY DEF Named
  <2> QED
    BY <2>1
<1>2. PICK m \in N : \A j \in N : m <= j
  BY <1>1, Smallest DEF Verifies
<1>3. PICK c : c = CHOOSE i \in N : \A j \in N : i <= j
  OBVIOUS
<1>4. c \in N /\ \A j \in N : c <= j
  BY <1>2, <1>3
<1>5. certs[c].key = crl.key
  BY <1>1, <1>3 DEF Verifies, First
<1>6. c \in DOMAIN certs /\ certs[c].subject = crl.issuer
  BY <1>1, <1>4 DEF Named
<1>7. ASSUME NEW j \in 1 .. c - 1 PROVE certs[j].subject # crl.issuer
  <2>1. j \in DOMAIN certs /\ ~(c <= j)
    BY <1>6
  <2> QED
    BY <1>1, <1>4, <2>1 DEF Named
<1> QED
  BY <1>5, <1>6, <1>7

LEMMA CrlSound ==
  ASSUME ToolsAssumption, Sound, ToolRuns, cmd.tool = "crl"
  PROVE  ToolInv'
<1>1. PICK e \in Crl(cmd.args) : EndsWith(e)
  BY DEF ToolRuns
<1>2. SUFFICES ASSUME NEW args, args = cmd.args PROVE ToolInv'
  OBVIOUS
<1>3. AllParsable(e.files) /\ e.made \in Nat
  BY CrlParsable
<1>4. /\ Sound' /\ CommandLine(args)
      /\ cmd'.tool = "crl" /\ cmd'.pc = "exit" /\ cmd'.args = args /\ cmd'.code = e.code
      /\ cmd'.lost = e.lost /\ cmd'.made = made /\ cmd'.before = files
      /\ files' = e.files /\ made' = e.made
  BY <1>1, <1>2, <1>3, EndSound DEF ToolRuns
<1>5. GeneratedAsAsked' /\ DhparamDone'
  BY <1>4 DEF GeneratedAsAsked, DhparamDone, Finished
<1>6. CrlDone'
  <2>1. SUFFICES ASSUME ~ \E i \in DOMAIN args : args[i][1] = "-help"
                 PROVE  CrlDone'
    BY <1>4 DEF CrlDone, Finished, Asks
  <2>2. PICK opt : opt = CrlOptions(args)
    OBVIOUS
  <2>3. PICK n \in Nat : n = Len(args)
    <3>1. Len(args) \in Nat
      BY <1>4 DEF CommandLine
    <3> QED
      BY <3>1
  <2>4. CrlRead(args, n, opt)
    BY <2>2, <2>3, CrlOptionsRead
  <2>5. opt.bad # "help"
    <3>1. ~Asked(args, "-help", n)
      BY <1>4, <2>1, <2>3, AskedIs
    <3> QED
      BY <2>4, <3>1 DEF CrlRead
  <2>6. \/ e.code = 1 /\ e.files = files
        \/ /\ opt.bad = NULL /\ Holds(opt.in, "crl")
           /\ opt.verify => Verified(opt)
           /\ CrlWrote(opt, e)
    BY <1>2, <2>2, <2>4, <2>5, CrlLeaves DEF CrlRead
  <2>7. CASE e.code = 1 /\ e.files = files
    <3>1. OnlyCut'
      BY <1>4, <2>7, OnlyCutIf
    <3> QED
      BY <1>4, <2>7, <3>1 DEF CrlDone
  <2>8. CASE opt.bad = NULL /\ Holds(opt.in, "crl") /\ (opt.verify => Verified(opt)) /\ CrlWrote(opt, e)
    <3>1. CrlGiven(args, n, opt)
      BY <2>4, <2>8 DEF CrlRead
    <3>2. /\ opt.in = Given(args, "-in", NULL) /\ opt.out = Given(args, "-out", NULL)
          /\ opt.form = Given(args, "-outform", "PEM") /\ opt.CAfile = Given(args, "-CAfile", NULL)
      BY <1>4, <2>3, <3>1, GivenIs DEF CrlGiven
    <3>3. opt.verify <=> Asks("-verify")'
      <4>1. opt.verify <=> \E i \in DOMAIN args : args[i][1] = "-verify"
        BY <1>4, <2>3, <3>1, AskedIs DEF CrlGiven
      <4> QED
        BY <1>4, <4>1 DEF Asks
    <3>4. opt.noout <=> Asks("-noout")'
      <4>1. opt.noout <=> \E i \in DOMAIN args : args[i][1] = "-noout"
        BY <1>4, <2>3, <3>1, AskedIs DEF CrlGiven
      <4> QED
        BY <1>4, <4>1 DEF Asks
    <3>5. SUFFICES ASSUME NEW in, in = files[opt.in], NEW certs, certs = files[opt.CAfile].certs
                   PROVE  CrlDone'
      OBVIOUS
    <3>6. Target' = opt.out /\ Kept'[opt.in] = in /\ Kept'[opt.CAfile].certs = certs
      BY <1>4, <3>2, <3>5 DEF Target, Kept
    <3>7. ASSUME opt.verify
          PROVE  /\ \A i \in DOMAIN certs : certs[i] # NULL
                 /\ \E i \in DOMAIN certs : /\ certs[i].subject = in.crls[1].issuer
                                            /\ certs[i].key = in.crls[1].key
                                            /\ \A j \in 1 .. i - 1 : certs[j].subject # in.crls[1].issuer
      <4>1. Verified(opt)
        BY <2>8, <3>7
      <4>2. Holds(opt.CAfile, "certs")
        BY <4>1 DEF Verified
      <4>3. \A i \in DOMAIN certs : certs[i] # NULL
        BY <3>5, <4>1 DEF Verified, Readable
      <4>4. Verifies(in.crls[1], certs)
        BY <3>5, <4>1 DEF Verified
      <4>5. Parsable(files[opt.CAfile]) /\ files[opt.CAfile].what = "certs"
        BY <4>2 DEF Sound, FilesParsable, Holds
      <4>6. Len(certs) \in Nat /\ DOMAIN certs = 1 .. Len(certs)
        BY <3>5, <4>5 DEF Parsable
      <4> QED
        BY <4>3, <4>4, <4>6, VerifiesFirst
    <3>8. CASE opt.noout \/ opt.out = NULL
      <4>1. e.code = 0 /\ e.files = files
        BY <2>8, <3>8 DEF CrlWrote
      <4> QED
        BY <1>4, <3>2, <3>3, <3>4, <3>6, <3>7, <3>8, <4>1 DEF CrlDone, Kept
    <3>9. CASE ~(opt.noout \/ opt.out = NULL)
      <4>1. SavedAs(e.files, e.code, e.lost, opt.out, FirstList(opt))
        BY <2>8, <3>9 DEF CrlWrote
      <4>2. CASE e.code = 1 /\ (e.files = files \/ e.files = Stored(opt.out, Cut))
        <5>1. OnlyCut'
          BY <1>4, <3>2, <4>2, OnlyCutIf
        <5> QED
          BY <1>4, <4>2, <5>1 DEF CrlDone
      <4>3. CASE e.code = 0 /\ (e.lost \/ e.files = Stored(opt.out, FirstList(opt)))
        <5>1. e.files = Stored(opt.out, FirstList(opt)) =>
                files'[opt.out] = [what |-> "crl", crls |-> <<in.crls[1]>>, form |-> opt.form]
          BY <1>4, <3>5 DEF Stored, FirstList
        <5> QED
          BY <1>4, <3>2, <3>3, <3>4, <3>6, <3>7, <3>9, <4>3, <5>1 DEF CrlDone
      <4> QED
        BY <4>1, <4>2, <4>3 DEF SavedAs
    <3> QED
      BY <3>8, <3>9
  <2> QED
    BY <2>6, <2>7, <2>8
<1> QED
  BY <1>4, <1>5, <1>6 DEF ToolInv

----------------------------------------------------------------------------
(* The theorems *)

LEMMA StepSound ==
  ASSUME ToolInv, [ToolsNext]_gvars
  PROVE  ToolInv'
<1>1. Sound
  BY DEF ToolInv
<1>2. ASSUME NEW tool, NEW args, NEW env, CommandLine(args), Run(tool, args, env)
      PROVE  ToolInv'
  BY <1>1, <1>2, RunSound
<1>3. CASE GenpkeyRuns
  BY <1>1, <1>3, GenpkeySound, ToolsAssumption
<1>4. CASE ReqNext
  BY <1>1, <1>4, ReqSound
<1>5. CASE ToolRuns
  <2>1. cmd.tool \in {"dhparam", "crl"}
    BY <1>5 DEF ToolRuns
  <2> QED
    BY <1>1, <1>5, <2>1, DhparamSound, CrlSound, ToolsAssumption
<1>6. CASE Killed
  BY <1>1, <1>6, KilledSound
<1>7. CASE UNCHANGED gvars
  BY <1>7 DEF gvars, ToolInv, Sound, FilesParsable, GeneratedAsAsked, DhparamDone, CrlDone, Finished, Asks,
              Target, Kept, OnlyCut
<1> QED
  BY <1>2, <1>3, <1>4, <1>5, <1>6, <1>7 DEF ToolsNext, ToolSteps

LEMMA ToolInvAlways == ToolsSpec => []ToolInv
<1>1. ToolsStart => ToolInv
  BY StartSound
<1>2. ToolInv /\ [ToolsNext]_gvars => ToolInv'
  BY StepSound
<1> QED
  BY <1>1, <1>2, PTL DEF ToolsSpec

\* Whatever the command line, the files there are and the commands before: a
\* genpkey that succeeds has left a whole new key of the algorithm, the size and
\* the form the last of its arguments ask for, unless a lost close broke it.
THEOREM GeneratedAsAskedAlways == ToolsSpec => []GeneratedAsAsked
<1>1. ToolInv => GeneratedAsAsked
  BY DEF ToolInv
<1> QED
  BY <1>1, ToolInvAlways, PTL

\* Whatever the command line, the files there are and the commands before: a
\* dhparam that succeeds has left the parameters its arguments ask for, those
\* of the input file or new ones, and one that fails or is not asked to write
\* has touched no file but an output it could not finish.
THEOREM DhparamDoneAlways == ToolsSpec => []DhparamDone
<1>1. ToolInv => DhparamDone
  BY DEF ToolInv
<1> QED
  BY <1>1, ToolInvAlways, PTL

\* Whatever the command line, the lists and the certificates there are: with
\* -verify, crl accepts and writes only a list signed by the key of the first
\* certificate with its issuer's name, in a file without unreadable ones.
THEOREM CrlDoneAlways == ToolsSpec => []CrlDone
<1>1. ToolInv => CrlDone
  BY DEF ToolInv
<1> QED
  BY <1>1, ToolInvAlways, PTL
=============================================================================

---------------------------- MODULE SetupProofs ----------------------------
(***************************************************************************)
(* The accounts of Setup, for any characters, field sizes, names, word     *)
(* size of the hash and number of tries: the confirmed password is the one *)
(* that was typed, the account made of it opens a session on every later   *)
(* boot, and no session is opened without one.  Nothing is assumed of the  *)
(* hash but that it is a function of the text.                             *)
(***************************************************************************)
EXTENDS Setup, TLAPS, WellFoundedInduction

(* The screens of the installer, in their order. *)
UserScreens == {"password", "pass2", "confirm"}
Naming      == {"hostname", "username"}

(* What read_field keeps: the characters before the cursor are a text. *)
FieldIsText == InField => \A i \in 1 .. len : Field[i] # NUL

(* typed.esc aside, the buffer of the first field is what it showed. *)
TypedIsText == screen \in {"pass2", "confirm"} /\ ~typed.esc => typed.password = Text(password)

NamesGiven ==
  /\ screen \in UserScreens \cup {"username"} => hostname # "invalid"
  /\ screen \in UserScreens => username \notin {"", "invalid"}

(* The installer only runs on a disk that has no flag file yet, and nobody *)
(* has logged in since that boot.                                          *)
Fresh ==
  screen \in UserScreens \cup Naming \cup {"boot"} =>
    /\ screen # "boot" => ~installed
    /\ session = "none" /\ entered = Nobody

(* users[] is the passwd file from login_init on. *)
Loaded ==
  /\ screen # "boot" => users = passwd /\ passwd # NoFile
  /\ passwd # NoFile => DOMAIN passwd = 1 .. 2
  /\ passwd # NoFile => \A i \in 1 .. 2 : \E n, p : passwd[i] = Entry(n, p)

(* The account of the last installation is the second one of the file. *)
AccountKept ==
  account # Nobody =>
    /\ installed /\ passwd # NoFile
    /\ passwd[2] = Entry(account.name, account.password)

LoginGoesOn == screen = "login" => attempts < MaxTries /\ session = "none"

TypedFields == DOMAIN typed = {"password", "pass2", "esc"}

(***************************************************************************)
(* The inductive invariant: the four properties, and what each of them     *)
(* leans on.  ConfirmedPassword needs FieldIsText (the cell behind the     *)
(* cursor is where ENTER ends the text) and TypedIsText;                   *)
(* InstalledAccountOpens and SessionIsEarned need the chain from the       *)
(* installer to users[]: Fresh, AccountKept, Loaded.                       *)
(***************************************************************************)
Fields ==
  TypeOK /\ TypedFields /\ FieldIsText /\ TypedIsText /\ NamesGiven /\ ConfirmedPassword

Accounts ==
  Fresh /\ Loaded /\ AccountKept /\ LoginGoesOn /\ InstalledAccountOpens /\ SessionIsEarned

IInv == Fields /\ Accounts

----------------------------------------------------------------------------
LEMMA Sizes ==
  /\ NUL \notin Chars
  /\ FieldMax \in Nat /\ LoginMax \in Nat \ {0} /\ PwMin \in Nat /\ MaxTries \in Nat \ {0}
<1>1. Chars \subseteq Nat \ {0}
  BY SetupAssumption, Zenon
<1>2. NUL \notin Chars
  BY <1>1, SMT DEF NUL
<1>. QED
  BY <1>2, SetupAssumption, Zenon

LEMMA NothingTypedFields == DOMAIN NothingTyped = {"password", "pass2", "esc"}
BY SMT DEF NothingTyped

LEMMA NoCharacters == 1 .. 0 = {}
BY SMT

LEMMA EntryFields ==
  ASSUME NEW e, NEW n, NEW p, e = Entry(n, p)
  PROVE  e.name = n /\ e.pass = hash_pass(p) /\ e = [name |-> e.name, pass |-> e.pass]
BY Zenon DEF Entry

(* A passwd file as the program writes it. *)
LEMMA TwoAccounts ==
  ASSUME NEW e, NEW f
  PROVE  /\ <<e, f>> # NoFile /\ DOMAIN <<e, f>> = 1 .. 2
         /\ <<e, f>>[1] = e /\ <<e, f>>[2] = f
         /\ \A i \in 1 .. 2 : i = 1 \/ i = 2
BY SMT DEF NoFile

LEMMA AllAccounts ==
  ASSUME NEW s, NEW m, NEW p, NEW n, NEW q, s[1] = Entry(m, p), s[2] = Entry(n, q)
  PROVE  \A i \in 1 .. 2 : \E o, r : s[i] = Entry(o, r)
<1>. SUFFICES ASSUME NEW i \in 1 .. 2 PROVE \E o, r : s[i] = Entry(o, r)
  OBVIOUS
<1>1. i = 1 \/ i = 2
  BY SMT
<1>2. CASE i = 1
  BY <1>2, Zenon
<1>3. CASE i = 2
  BY <1>3, Zenon
<1>. QED
  BY <1>1, <1>2, <1>3

(* The buffer's text is what lies before its first terminator. *)
LEMMA TextEnds ==
  ASSUME NEW b \in Buffers, NEW n \in 0 .. FieldMax,
         \A i \in 1 .. n : b[i] # NUL, b[n + 1] = NUL
  PROVE  Text(b) = SubSeq(b, 1, n)
<1>. DEFINE ends == {i \in Cells : b[i] = NUL}
            first == CHOOSE i \in ends : \A j \in ends : i <= j
<1>1. n + 1 \in ends /\ \A j \in ends : n + 1 <= j
  BY Sizes, SMT DEF Cells
<1>2. \A i \in ends : (\A j \in ends : i <= j) => i = n + 1
  BY <1>1, Sizes, SMT DEF Cells
<1>3. first = n + 1
  BY <1>1, <1>2, Zenon
<1>4. Text(b) = SubSeq(b, 1, first - 1)
  BY <1>1, Zenon DEF Text
<1>. HIDE DEF first
<1>. QED
  BY <1>3, <1>4, SMT

(* Whatever a buffer holds, its text is one. *)
LEMMA TextType ==
  ASSUME NEW b \in Buffers
  PROVE  Text(b) \in Seq(Chars \cup {NUL})
<1>. DEFINE ends == {i \in Cells : b[i] = NUL}
            first == CHOOSE i \in ends : \A j \in ends : i <= j
<1>1. b \in Seq(Chars \cup {NUL}) /\ Len(b) = FieldMax + 1
  BY Sizes, SMT DEF Buffers, Cells
<1>2. CASE ends = {}
  BY <1>1, <1>2, Zenon DEF Text
<1>3. CASE ends # {}
  <2>1. ends \in SUBSET Nat
    BY Sizes, SMT DEF Cells
  <2>2. PICK k \in ends : \A j \in ends : ~ (<<j, k>> \in OpToRel(<, Nat))
    BY <1>3, <2>1, NatLessThanWellFounded, WFMin
  <2>3. \A j \in ends : ~ (j < k)
    BY <2>1, <2>2 DEF OpToRel
  <2>4. \A j \in ends : k <= j
    BY <2>1, <2>3, SMT
  <2>5. first \in ends
    BY <2>4, Zenon
  <2>6. Text(b) = SubSeq(b, 1, first - 1)
    BY <1>3, Zenon DEF Text
  <2>7. first \in 1 .. FieldMax + 1
    BY <2>5, Zenon DEF Cells
  <2>. HIDE DEF first, ends
  <2>. QED
    BY <1>1, <2>6, <2>7, Sizes, SMT
<1>. QED
  BY <1>2, <1>3

(* A cell behind the first n has no part in them. *)
LEMMA SubSeqStays ==
  ASSUME NEW b \in Buffers, NEW n \in 0 .. FieldMax, NEW c
  PROVE  SubSeq([b EXCEPT ![n + 1] = c], 1, n) = SubSeq(b, 1, n)
BY Sizes, SMT DEF Buffers, Cells

LEMMA Cleaned ==
  /\ Cleared \in Buffers
  /\ \A b \in Buffers : Emptied(b) \in Buffers
  /\ \A b \in Buffers, i \in Cells, c \in Chars \cup {NUL} : [b EXCEPT ![i] = c] \in Buffers
BY Zenon DEF Cleared, Buffers, Emptied

(* The field's text when ENTER leaves it. *)
LEMMA EnterEnds ==
  ASSUME NEW b \in Buffers, NEW n \in 0 .. FieldMax, \A i \in 1 .. n : b[i] # NUL
  PROVE  /\ [b EXCEPT ![n + 1] = NUL] \in Buffers
         /\ Text([b EXCEPT ![n + 1] = NUL]) = SubSeq(b, 1, n)
<1>. DEFINE e == [b EXCEPT ![n + 1] = NUL]
<1>1. n + 1 \in Cells /\ 1 .. n \subseteq Cells
  BY Sizes, SMT DEF Cells
<1>2. e \in Buffers
  BY <1>1, Cleaned, Zenon
<1>3. e[n + 1] = NUL /\ \A i \in 1 .. n : e[i] = b[i]
  BY <1>1, Sizes, SMT DEF Buffers
<1>4. Text(e) = SubSeq(e, 1, n)
  <2>. HIDE DEF e
  <2>. QED BY <1>2, <1>3, TextEnds, Zenon
<1>5. SubSeq(e, 1, n) = SubSeq(b, 1, n)
  BY SubSeqStays, Zenon
<1>. QED
  BY <1>2, <1>4, <1>5, Zenon

----------------------------------------------------------------------------
(***************************************************************************)
(* Up to the confirmation, nothing is written to the disk.                 *)
(***************************************************************************)
LEMMA EditingKeepsAccounts ==
  ASSUME Accounts, UNCHANGED <<disk, login, account, entered>>,
         screen \in UserScreens \cup Naming, screen' \in UserScreens \cup Naming
  PROVE  Accounts'
<1>1. /\ screen # "boot" /\ screen' # "boot"
      /\ screen' # "login" /\ screen' # "shell"
  BY Zenon DEF UserScreens, Naming
<1>2. UNCHANGED <<installed, passwd, users, attempts, session, account, entered>>
  BY Zenon DEF disk, login
<1>3. Fresh'
  BY <1>1, <1>2, Zenon DEF Accounts, Fresh
<1>4. Loaded'
  BY <1>1, <1>2, Zenon DEF Accounts, Loaded
<1>5. AccountKept' /\ LoginGoesOn' /\ InstalledAccountOpens' /\ SessionIsEarned'
  BY <1>1, <1>2, Zenon DEF Accounts, AccountKept, LoginGoesOn, InstalledAccountOpens,
     AccountOpens, SessionIsEarned
<1>. QED
  BY <1>3, <1>4, <1>5, Zenon DEF Accounts
(* A key in a field: one cell changes, and the cells before the cursor stay *)
(* a text.                                                                  *)
LEMMA KeyKeepsFields ==
  ASSUME Fields, InField, UNCHANGED <<screen, typed, hostname, username, attempts>>,
         NEW i \in Cells, NEW c \in Chars \cup {NUL}, Put(i, c),
         len' \in 0 .. FieldMax,
         \A j \in 1 .. len' : j # i => j \in 1 .. len,
         i \in 1 .. len' => c # NUL
  PROVE  Fields'
<1>1. /\ password \in Buffers /\ pass2 \in Buffers
      /\ [password EXCEPT ![i] = c] \in Buffers /\ [pass2 EXCEPT ![i] = c] \in Buffers
  BY Cleaned, Zenon DEF Fields, TypeOK
<1>2. password' \in Buffers /\ pass2' \in Buffers
  BY <1>1, Zenon DEF Put
<1>3. Field' = [Field EXCEPT ![i] = c]
  BY Zenon DEF Field, Put
<1>4. \A j \in 1 .. len : Field[j] # NUL
  BY Zenon DEF Fields, FieldIsText
<1>5. Field \in Buffers
  BY <1>1, Zenon DEF Field
<1>6. i \in DOMAIN Field
  BY <1>5, Zenon DEF Buffers
<1>7. \A j \in 1 .. len' : Field'[j] # NUL
  <2>. SUFFICES ASSUME NEW j \in 1 .. len' PROVE Field'[j] # NUL
    OBVIOUS
  <2>1. CASE j = i
    BY <1>3, <1>6, <2>1, Zenon
  <2>2. CASE j # i
    <3>1. j \in 1 .. len
      BY <2>2, Zenon
    <3>2. Field'[j] = Field[j]
      <4>1. j \in DOMAIN Field
        <5>1. j \in 1 .. FieldMax + 1
          <6>1. len \in 0 .. FieldMax
            BY Zenon DEF Fields, TypeOK
          <6>. QED
            BY <3>1, <6>1, Sizes, SMT
        <5>. QED
          BY <1>5, <5>1, Zenon DEF Buffers, Cells
      <4>. QED
        BY <1>3, <2>2, <4>1, Zenon
    <3>. QED
      BY <1>4, <3>1, <3>2, Zenon
  <2>. QED
    BY <2>1, <2>2, Zenon
<1>8. FieldIsText'
  BY <1>7, Zenon DEF FieldIsText
<1>9. screen # "confirm" /\ (screen = "pass2" => password' = password)
  BY Zenon DEF InField, Put
<1>10. TypedIsText' /\ NamesGiven' /\ ConfirmedPassword'
  BY <1>9, Zenon DEF Fields, TypedIsText, NamesGiven, ConfirmedPassword, Text
<1>11. TypeOK' /\ TypedFields'
  BY <1>2, Zenon DEF Fields, TypeOK, TypedFields
<1>. QED
  BY <1>8, <1>10, <1>11, Zenon DEF Fields

LEMMA TypeKeeps ==
  ASSUME IInv, NEW c \in Chars, Type(c)
  PROVE  IInv'
<1>1. /\ InField /\ len < FieldMax /\ Put(len + 1, c) /\ len' = len + 1
      /\ UNCHANGED <<screen, typed, hostname, username, attempts>>
      /\ UNCHANGED <<disk, login, account, entered>>
  BY Zenon DEF Type, KeepRest, login
<1>2. len \in 0 .. FieldMax
  BY Zenon DEF IInv, Fields, TypeOK
<1>3. /\ len + 1 \in Cells /\ len' \in 0 .. FieldMax
      /\ \A j \in 1 .. len' : j # len + 1 => j \in 1 .. len
  BY <1>1, <1>2, Sizes, SMT DEF Cells
<1>4. c \in Chars \cup {NUL} /\ c # NUL
  BY Sizes, Zenon
<1>5. Fields'
  BY <1>1, <1>3, <1>4, KeyKeepsFields, Zenon DEF IInv
<1>6. screen \in UserScreens \cup Naming /\ screen' \in UserScreens \cup Naming
  BY <1>1, Zenon DEF InField, UserScreens
<1>. QED
  BY <1>1, <1>5, <1>6, EditingKeepsAccounts, Zenon DEF IInv

LEMMA BackspaceKeeps ==
  ASSUME IInv, Backspace
  PROVE  IInv'
<1>1. /\ InField /\ len > 0 /\ Put(len, NUL) /\ len' = len - 1
      /\ UNCHANGED <<screen, typed, hostname, username, attempts>>
      /\ UNCHANGED <<disk, login, account, entered>>
  BY Zenon DEF Backspace, KeepRest, login
<1>2. len \in 0 .. FieldMax
  BY Zenon DEF IInv, Fields, TypeOK
<1>3. /\ len \in Cells /\ len' \in 0 .. FieldMax
      /\ \A j \in 1 .. len' : j # len => j \in 1 .. len
      /\ len \notin 1 .. len'
  BY <1>1, <1>2, Sizes, SMT DEF Cells
<1>4. Fields'
  BY <1>1, <1>3, KeyKeepsFields, Zenon DEF IInv
<1>5. screen \in UserScreens \cup Naming /\ screen' \in UserScreens \cup Naming
  BY <1>1, Zenon DEF InField, UserScreens
<1>. QED
  BY <1>1, <1>4, <1>5, EditingKeepsAccounts, Zenon DEF IInv

----------------------------------------------------------------------------
(* typed after a field has been left. *)
LEMMA LeaveTypes ==
  ASSUME TypedFields, InField, NEW esc \in BOOLEAN, Leave(esc)
  PROVE  /\ TypedFields'
         /\ (~typed'.esc) => ~esc /\ ~typed.esc
         /\ screen = "password" => typed'.password = SubSeq(Field, 1, len)
         /\ screen = "pass2" => /\ typed'.pass2 = SubSeq(Field, 1, len)
                                /\ typed'.password = typed.password
BY Zenon DEF TypedFields, InField, Leave

LEMMA LeavePasswordKeeps ==
  ASSUME IInv, LeavePassword
  PROVE  IInv'
<1>1. /\ screen = "password" /\ screen' = "pass2" /\ len' = 0 /\ InField /\ Field = password
      /\ UNCHANGED <<hostname, username, attempts>>
      /\ UNCHANGED <<disk, login, account, entered>>
  BY Zenon DEF LeavePassword, KeepRest, Goto, login, InField, Field
<1>2. /\ password \in Buffers /\ pass2 \in Buffers /\ len \in 0 .. FieldMax
      /\ TypedFields /\ \A j \in 1 .. len : password[j] # NUL
  BY <1>1, Zenon DEF IInv, Fields, TypeOK, FieldIsText
<1>3. PICK esc \in BOOLEAN :
        /\ Leave(esc) /\ UNCHANGED pass2
        /\ password' = IF esc THEN password ELSE [password EXCEPT ![len + 1] = NUL]
  BY <1>1, Zenon DEF LeavePassword, Put
<1>4. password' \in Buffers /\ (~esc => Text(password)' = SubSeq(password, 1, len))
  <2>1. CASE esc
    BY <1>2, <1>3, <2>1, Zenon
  <2>2. CASE ~esc
    <3>1. password' = [password EXCEPT ![len + 1] = NUL]
      BY <1>3, <2>2, Zenon
    <3>2. PICK e : e = [password EXCEPT ![len + 1] = NUL]
      OBVIOUS
    <3>3. e \in Buffers /\ Text(e) = SubSeq(password, 1, len)
      BY <1>2, <3>2, EnterEnds, Zenon
    <3>4. password' = e
      BY <3>1, <3>2, Zenon
    <3>5. Text(password') = Text(e)
      BY <3>4, Zenon
    <3>6. Text(password)' = Text(password')
      BY Zenon DEF Text
    <3>. QED
      BY <3>3, <3>4, <3>5, <3>6, Zenon
  <2>. QED
    BY <2>1, <2>2
<1>5. /\ TypedFields' /\ ((~typed'.esc) => ~esc)
      /\ typed'.password = SubSeq(password, 1, len)
  BY <1>1, <1>2, <1>3, LeaveTypes, Zenon
<1>6. TypedIsText'
  BY <1>4, <1>5, Zenon DEF TypedIsText
<1>7. FieldIsText'
  <2>1. 1 .. len' = {}
    BY <1>1, SMT
  <2>. QED
    BY <2>1, Zenon DEF FieldIsText
<1>8. 0 \in 0 .. FieldMax /\ "pass2" \in Screens
  <2>1. 0 \in 0 .. FieldMax
    BY Sizes, SMT
  <2>. QED
    BY <2>1, Zenon DEF Screens
<1>9. TypeOK'
  BY <1>1, <1>2, <1>3, <1>4, <1>8, Zenon DEF IInv, Fields, TypeOK
<1>10. NamesGiven' /\ ConfirmedPassword'
  BY <1>1, Zenon DEF IInv, Fields, NamesGiven, ConfirmedPassword, UserScreens
<1>11. Fields'
  BY <1>5, <1>6, <1>7, <1>9, <1>10, Zenon DEF Fields
<1>12. screen \in UserScreens \cup Naming /\ screen' \in UserScreens \cup Naming
  BY <1>1, Zenon DEF UserScreens
<1>. QED
  BY <1>1, <1>11, <1>12, EditingKeepsAccounts, Zenon DEF IInv

(* The second field: refused, back to the first; or on to the confirmation. *)
LEMMA LeavePass2Keeps ==
  ASSUME IInv, LeavePass2
  PROVE  IInv'
<1>. DEFINE Second(esc) == IF esc THEN pass2 ELSE [pass2 EXCEPT ![len + 1] = NUL]
<1>1. /\ screen = "pass2" /\ len' = 0 /\ InField /\ Field = pass2
      /\ UNCHANGED <<hostname, username, attempts>>
      /\ UNCHANGED <<disk, login, account, entered>>
  BY Zenon DEF LeavePass2, KeepRest, login, InField, Field
<1>2. /\ password \in Buffers /\ pass2 \in Buffers /\ len \in 0 .. FieldMax
      /\ TypedFields /\ \A j \in 1 .. len : pass2[j] # NUL
  BY <1>1, Zenon DEF IInv, Fields, TypeOK, FieldIsText
<1>3. PICK esc \in BOOLEAN :
        \/ /\ Refused(password, Second(esc)) /\ screen' = "password"
           /\ password' = Emptied(password) /\ pass2' = Emptied(Second(esc))
           /\ typed' = NothingTyped
        \/ /\ ~Refused(password, Second(esc)) /\ screen' = "confirm"
           /\ pass2' = Cleared /\ password' = password
           /\ Leave(esc)
  BY Zenon DEF LeavePass2, Goto
<1>4. Second(esc) \in Buffers /\ (~esc => Text(Second(esc)) = SubSeq(pass2, 1, len))
  BY <1>2, EnterEnds, Zenon
<1>. HIDE DEF Second
<1>5. 0 \in 0 .. FieldMax /\ 1 .. len' = {}
  BY <1>1, Sizes, SMT
<1>6. screen' \in {"password", "confirm"} /\ password' \in Buffers /\ pass2' \in Buffers
  BY <1>2, <1>3, <1>4, Cleaned, Zenon
<1>7. TypeOK'
  BY <1>1, <1>5, <1>6, Zenon DEF IInv, Fields, TypeOK, Screens
<1>8. FieldIsText'
  BY <1>5, Zenon DEF FieldIsText
<1>9. NamesGiven'
  BY <1>1, <1>6, Zenon DEF IInv, Fields, NamesGiven, UserScreens
<1>10. TypedFields' /\ TypedIsText' /\ ConfirmedPassword'
  <2>1. CASE screen' = "password"
    <3>1. typed' = NothingTyped
      BY <1>3, <2>1, Zenon
    <3>2. TypedFields'
      BY <3>1, NothingTypedFields, Zenon DEF TypedFields
    <3>. QED
      BY <2>1, <3>2, Zenon DEF TypedIsText, ConfirmedPassword
  <2>2. CASE screen' = "confirm"
    <3>1. /\ ~Refused(password, Second(esc)) /\ password' = password /\ Leave(esc)
      BY <1>3, <2>2, Zenon
    <3>2. /\ TypedFields' /\ ((~typed'.esc) => ~esc /\ ~typed.esc)
          /\ typed'.pass2 = SubSeq(pass2, 1, len) /\ typed'.password = typed.password
      BY <1>1, <1>2, <3>1, LeaveTypes, Zenon
    <3>3. Text(password)' = Text(password) /\ Text(password) = Text(Second(esc))
      BY <3>1, Zenon DEF Refused, Text
    <3>4. Len(Text(password)) >= PwMin
      <4>. DEFINE n == Len(Text(password))
      <4>1. n \in Nat
        <5>1. Text(password) \in Seq(Chars \cup {NUL})
          BY <1>2, TextType, Zenon
        <5>. QED
          BY <5>1, SMT
      <4>2. ~(n < PwMin)
        BY <3>1, Zenon DEF Refused
      <4>. HIDE DEF n
      <4>3. n >= PwMin
        BY <4>1, <4>2, Sizes, SMT
      <4>. QED
        BY <4>3, Zenon DEF n
    <3>5. (~typed.esc) => typed.password = Text(password)
      BY <1>1, Zenon DEF IInv, Fields, TypedIsText
    <3>6. (~typed'.esc) => typed'.password = Text(password)' /\ typed'.password = typed'.pass2
      BY <1>4, <3>2, <3>3, <3>5, Zenon
    <3>7. hostname' # "invalid" /\ username' \notin {"", "invalid"}
      BY <1>1, Zenon DEF IInv, Fields, NamesGiven, UserScreens
    <3>8. Len(Text(password))' >= PwMin
      BY <3>3, <3>4, Zenon
    <3>. QED
      BY <3>2, <3>6, <3>7, <3>8, Zenon DEF TypedIsText, ConfirmedPassword
  <2>. QED
    BY <1>6, <2>1, <2>2, Zenon
<1>11. Fields'
  BY <1>7, <1>8, <1>9, <1>10, Zenon DEF Fields
<1>12. screen \in UserScreens \cup Naming /\ screen' \in UserScreens \cup Naming
  BY <1>1, <1>6, Zenon DEF UserScreens
<1>. QED
  BY <1>1, <1>11, <1>12, EditingKeepsAccounts, Zenon DEF IInv
----------------------------------------------------------------------------
(* The screens without a password field. *)
LEMMA OutsideFields ==
  ASSUME Fields, screen' \in {"boot", "hostname", "username", "login", "shell"},
         password' \in Buffers, pass2' \in Buffers, len' \in 0 .. FieldMax,
         attempts' \in 0 .. MaxTries,
         hostname' \in HostNames \cup {"", "stellares", "invalid"},
         username' \in UserNames \cup {"", "stella", "invalid"},
         typed' \in {typed, NothingTyped},
         screen' = "username" => hostname' # "invalid"
  PROVE  Fields'
<1>1. TypeOK'
  BY Zenon DEF TypeOK, Screens
<1>2. TypedFields'
  <2>1. CASE typed' = typed
    BY <2>1, Zenon DEF Fields, TypedFields
  <2>2. CASE typed' = NothingTyped
    BY <2>2, NothingTypedFields, Zenon DEF TypedFields
  <2>. QED
    BY <2>1, <2>2, Zenon
<1>3. FieldIsText' /\ TypedIsText' /\ NamesGiven' /\ ConfirmedPassword'
  BY Zenon DEF FieldIsText, InField, TypedIsText, NamesGiven, UserScreens, ConfirmedPassword
<1>. QED
  BY <1>1, <1>2, <1>3, Zenon DEF Fields

LEMMA ZeroFits == 0 \in 0 .. FieldMax /\ 0 \in 0 .. MaxTries
BY Sizes, SMT

LEMMA BootKeeps ==
  ASSUME IInv, Boot
  PROVE  IInv'
<1>1. /\ screen = "boot" /\ users' = passwd' /\ attempts' = 0 /\ session' = "none"
      /\ UNCHANGED <<pass2, len, installed, typed, account, entered>>
      /\ passwd' = IF passwd = NoFile THEN create_default_passwd ELSE passwd
  BY Zenon DEF Boot, history
<1>2. \/ /\ installed /\ screen' = "login"
         /\ UNCHANGED <<hostname, username, password>>
      \/ /\ ~installed /\ screen' = "hostname"
         /\ hostname' = "stellares" /\ username' = ""
         /\ password' \in Buffers
  BY Cleaned, Zenon DEF Boot, Goto
<1>3. TypeOK /\ Fresh /\ Loaded /\ AccountKept
  BY Zenon DEF IInv, Fields, Accounts
<1>4. Fields'
  <2>1. password' \in Buffers /\ screen' \in {"login", "hostname"}
    BY <1>2, <1>3, Zenon DEF TypeOK
  <2>2. /\ hostname' \in HostNames \cup {"", "stellares", "invalid"}
        /\ username' \in UserNames \cup {"", "stella", "invalid"}
    BY <1>2, <1>3, Zenon DEF TypeOK
  <2>3. pass2' \in Buffers /\ len' \in 0 .. FieldMax
    BY <1>1, <1>3, Zenon DEF TypeOK
  <2>. QED
    BY <1>1, <2>1, <2>2, <2>3, ZeroFits, OutsideFields, Zenon DEF IInv
<1>5. /\ passwd' # NoFile /\ DOMAIN passwd' = 1 .. 2
      /\ \A i \in 1 .. 2 : \E n, p : passwd'[i] = Entry(n, p)
  <2>1. CASE passwd = NoFile
    <3>1. passwd' = <<Entry("root", toor), Entry("stella", p1234)>>
      BY <1>1, <2>1, Zenon DEF create_default_passwd
    <3>2. /\ passwd' # NoFile /\ DOMAIN passwd' = 1 .. 2
          /\ passwd'[1] = Entry("root", toor) /\ passwd'[2] = Entry("stella", p1234)
      BY <3>1, TwoAccounts, Zenon
    <3>. QED
      BY <3>2, AllAccounts, SMT
  <2>2. CASE passwd # NoFile
    BY <1>1, <1>3, <2>2, Zenon DEF Loaded
  <2>. QED
    BY <2>1, <2>2
<1>6. Loaded'
  BY <1>1, <1>5, Zenon DEF Loaded
<1>7. AccountKept'
  BY <1>1, <1>3, Zenon DEF AccountKept
<1>8. entered = Nobody /\ entered' = Nobody
  BY <1>1, <1>3, Zenon DEF Fresh
<1>9. Fresh'
  BY <1>1, <1>2, <1>8, Zenon DEF Fresh, UserScreens, Naming
<1>10. LoginGoesOn'
  <2>1. 0 < MaxTries
    BY Sizes, SMT
  <2>. QED
    BY <1>1, <2>1, Zenon DEF LoginGoesOn
<1>11. InstalledAccountOpens' /\ SessionIsEarned'
  BY <1>8, Zenon DEF InstalledAccountOpens, AccountOpens, SessionIsEarned
<1>. QED
  BY <1>4, <1>6, <1>7, <1>9, <1>10, <1>11, Zenon DEF IInv, Accounts

LEMMA HostnameKeeps ==
  ASSUME IInv, screen_hostname
  PROVE  IInv'
<1>1. /\ screen = "hostname"
      /\ UNCHANGED <<username, password, pass2, len, typed, attempts>>
      /\ UNCHANGED <<disk, login, account, entered>>
  BY Zenon DEF screen_hostname, history, login
<1>2. PICK v \in HostNames \cup {"", "invalid"} :
        /\ hostname' = IF v = "" THEN "stellares" ELSE v
        /\ screen' = IF v = "invalid" THEN "hostname" ELSE "username"
  BY Zenon DEF screen_hostname, Goto
<1>3. /\ hostname' \in HostNames \cup {"", "stellares", "invalid"}
      /\ screen' \in {"hostname", "username"}
      /\ screen' = "username" => hostname' # "invalid"
  BY <1>2, Zenon
<1>4. Fields'
  BY <1>1, <1>3, OutsideFields, Zenon DEF IInv, Fields, TypeOK
<1>5. screen \in UserScreens \cup Naming /\ screen' \in UserScreens \cup Naming
  BY <1>1, <1>3, Zenon DEF Naming
<1>. QED
  BY <1>1, <1>4, <1>5, EditingKeepsAccounts, Zenon DEF IInv

LEMMA UserNameKeeps ==
  ASSUME IInv, screen_user_name
  PROVE  IInv'
<1>1. /\ screen = "username" /\ UNCHANGED <<hostname, attempts>>
      /\ UNCHANGED <<disk, login, account, entered>>
  BY Zenon DEF screen_user_name, login
<1>2. TypeOK /\ NamesGiven /\ hostname # "invalid"
  BY <1>1, Zenon DEF IInv, Fields, NamesGiven
<1>3. PICK v \in UserNames \cup {"", "invalid"} :
        /\ username' = IF v = "" THEN "stella" ELSE v
        /\ IF v = "invalid"
           THEN UNCHANGED <<screen, password, pass2, len, typed>>
           ELSE /\ screen' = "password"
                /\ password' = Emptied(password)
                /\ \E b \in Buffers : pass2' = Emptied(b)
                /\ len' = 0
                /\ typed' = NothingTyped
  BY Zenon DEF screen_user_name, Goto
<1>4. username' \in UserNames \cup {"", "stella", "invalid"}
  BY <1>3, Zenon
<1>5. Fields'
  <2>1. CASE v = "invalid"
    <3>1. UNCHANGED <<screen, password, pass2, len, typed>>
      BY <1>3, <2>1, Zenon
    <3>. QED
      BY <1>1, <1>2, <1>4, <3>1, OutsideFields, Zenon DEF IInv, TypeOK
  <2>2. CASE v # "invalid"
    <3>1. /\ screen' = "password" /\ len' = 0 /\ typed' = NothingTyped
          /\ password' \in Buffers /\ pass2' \in Buffers
      BY <1>2, <1>3, <2>2, Cleaned, Zenon DEF TypeOK
    <3>2. username' \notin {"", "invalid"}
      BY <1>3, <2>2, Zenon
    <3>3. TypedFields'
      BY <3>1, NothingTypedFields, Zenon DEF TypedFields
    <3>4. FieldIsText'
      <4>1. 1 .. len' = {}
        BY <3>1, NoCharacters, Zenon
      <4>. QED
        BY <4>1, Zenon DEF FieldIsText
    <3>5. TypeOK'
      BY <1>1, <1>2, <1>4, <3>1, ZeroFits, Zenon DEF TypeOK, Screens
    <3>6. TypedIsText' /\ NamesGiven' /\ ConfirmedPassword'
      BY <1>1, <1>2, <3>1, <3>2, Zenon DEF TypedIsText, NamesGiven, ConfirmedPassword
    <3>. QED
      BY <3>3, <3>4, <3>5, <3>6, Zenon DEF Fields
  <2>. QED
    BY <2>1, <2>2
<1>6. screen \in UserScreens \cup Naming /\ screen' \in UserScreens \cup Naming
  BY <1>1, <1>3, Zenon DEF UserScreens, Naming
<1>. QED
  BY <1>1, <1>5, <1>6, EditingKeepsAccounts, Zenon DEF IInv

LEMMA ConfirmEscKeeps ==
  ASSUME IInv, ConfirmEsc
  PROVE  IInv'
<1>1. /\ screen = "confirm" /\ screen' = "hostname"
      /\ UNCHANGED <<hostname, username, password, pass2, len, typed, attempts>>
      /\ UNCHANGED <<disk, login, account, entered>>
  BY Zenon DEF ConfirmEsc, Goto, config, login, history
<1>2. Fields'
  BY <1>1, OutsideFields, Zenon DEF IInv, Fields, TypeOK
<1>3. screen \in UserScreens \cup Naming /\ screen' \in UserScreens \cup Naming
  BY <1>1, Zenon DEF UserScreens, Naming
<1>. QED
  BY <1>1, <1>2, <1>3, EditingKeepsAccounts, Zenon DEF IInv

----------------------------------------------------------------------------
(***************************************************************************)
(* The password that goes into the file is the text of the buffer; the one *)
(* the account stands for is what was typed.  They are the same.           *)
(***************************************************************************)
LEMMA InstallingKeeps ==
  ASSUME IInv, screen_installing
  PROVE  IInv'
<1>1. /\ screen = "confirm" /\ screen' = "shell" /\ installed' = TRUE
      /\ passwd' = <<Entry("root", toor), Entry(username, Text(password))>>
      /\ users' = passwd' /\ session' = username
      /\ UNCHANGED <<hostname, username, password, pass2, len, attempts, typed, entered>>
      /\ account' = IF typed.esc THEN Nobody
                    ELSE [name |-> username, password |-> typed.password]
  BY Zenon DEF screen_installing, Goto, config
<1>2. entered = Nobody
  BY <1>1, Zenon DEF IInv, Accounts, Fresh, UserScreens
<1>3. (~typed.esc) => typed.password = Text(password)
  BY <1>1, Zenon DEF IInv, Fields, TypedIsText
<1>4. Fields'
  BY <1>1, OutsideFields, Zenon DEF IInv, Fields, TypeOK
<1>5. /\ passwd' # NoFile /\ DOMAIN passwd' = 1 .. 2
      /\ passwd'[1] = Entry("root", toor) /\ passwd'[2] = Entry(username, Text(password))
  BY <1>1, TwoAccounts, Zenon
<1>6. \A i \in 1 .. 2 : \E n, p : passwd'[i] = Entry(n, p)
  BY <1>5, AllAccounts, SMT
<1>7. Loaded'
  BY <1>1, <1>5, <1>6, Zenon DEF Loaded
<1>8. AccountKept'
  <2>1. CASE typed.esc
    BY <1>1, <2>1, Zenon DEF AccountKept
  <2>2. CASE ~typed.esc
    <3>1. account' = [name |-> username, password |-> Text(password)]
      BY <1>1, <1>3, <2>2, Zenon
    <3>2. account'.name = username /\ account'.password = Text(password)
      BY <3>1, Zenon
    <3>. QED
      BY <1>1, <1>5, <3>2, Zenon DEF AccountKept
  <2>. QED
    BY <2>1, <2>2
<1>9. Fresh' /\ LoginGoesOn'
  BY <1>1, Zenon DEF Fresh, LoginGoesOn, UserScreens, Naming
<1>10. InstalledAccountOpens' /\ SessionIsEarned'
  BY <1>1, <1>2, Zenon DEF InstalledAccountOpens, AccountOpens, SessionIsEarned
<1>. QED
  BY <1>4, <1>7, <1>8, <1>9, <1>10, Zenon DEF IInv, Accounts

(* A password that fits is read whole. *)
LEMMA ReadsWhole ==
  ASSUME NEW keys \in Texts, Len(keys) <= LoginMax
  PROVE  read_input(keys) = keys
<1>1. \E S : keys \in Seq(S)
  <2>1. CASE keys = toor
    <3>1. keys \in Seq(Nat)
      BY <2>1, SMT DEF toor
    <3>. QED
      BY <3>1, Zenon
  <2>2. CASE \E n \in 0 .. FieldMax : keys \in [1 .. n -> Chars]
    <3>1. keys \in Seq(Chars)
      BY <2>2, Sizes, SMT
    <3>. QED
      BY <3>1, Zenon
  <2>3. keys = toor \/ \E n \in 0 .. FieldMax : keys \in [1 .. n -> Chars]
    BY Zenon DEF Texts
  <2>. QED
    BY <2>1, <2>2, <2>3, Zenon
<1>2. PICK S : keys \in Seq(S)
  BY <1>1, Zenon
<1>3. SubSeq(keys, 1, Len(keys)) = keys
  BY <1>2, SMT
<1>4. (IF Len(keys) < LoginMax THEN Len(keys) ELSE LoginMax) = Len(keys)
  <2>1. Len(keys) \in Nat
    BY <1>2, SMT
  <2>. QED
    BY <2>1, Sizes, SMT
<1>. QED
  BY <1>3, <1>4, Zenon DEF read_input

LEMMA LoginKeeps ==
  ASSUME IInv, NEW name, NEW keys \in Texts, login_screen(name, keys)
  PROVE  IInv'
<1>. DEFINE hit == \E i \in DOMAIN users : Match(users[i], name, read_input(keys))
<1>1. /\ screen = "login" /\ entered' = [name |-> name, password |-> keys]
      /\ UNCHANGED <<hostname, username, password, pass2, len, installed, passwd, users,
                     typed, account>>
      /\ hit => session' = name /\ screen' = "shell" /\ attempts' = attempts
      /\ ~hit => /\ attempts' = attempts + 1
                 /\ \/ attempts' >= MaxTries /\ session' = "guest" /\ screen' = "shell"
                    \/ ~(attempts' >= MaxTries) /\ UNCHANGED <<session, screen>>
  BY Zenon DEF login_screen, Goto, config, disk
<1>2. /\ users = passwd /\ passwd # NoFile /\ DOMAIN passwd = 1 .. 2
      /\ \A i \in 1 .. 2 : \E n, p : passwd[i] = Entry(n, p)
  BY <1>1, Zenon DEF IInv, Accounts, Loaded
<1>3. attempts \in 0 .. MaxTries /\ attempts < MaxTries /\ session = "none"
  BY <1>1, Zenon DEF IInv, Fields, Accounts, TypeOK, LoginGoesOn
<1>4. entered'.name = name /\ entered'.password = keys
  BY <1>1, Zenon
<1>5. /\ attempts' \in 0 .. MaxTries
      /\ ~hit /\ attempts' >= MaxTries => attempts' = MaxTries
      /\ ~(attempts' >= MaxTries) => attempts' < MaxTries
  <2>1. attempts' = attempts \/ attempts' = attempts + 1
    BY <1>1, Zenon
  <2>2. ~hit => attempts' = attempts + 1
    BY <1>1, Zenon
  <2>. HIDE DEF hit
  <2>. QED
    BY <1>3, <2>1, <2>2, Sizes, SMT
<1>6. screen' \in {"login", "shell"}
  BY <1>1, Zenon
<1>7. Fields'
  BY <1>1, <1>5, <1>6, OutsideFields, Zenon DEF IInv, Fields, TypeOK
<1>8. Fresh' /\ Loaded' /\ AccountKept'
  <2>1. Loaded /\ AccountKept
    BY Zenon DEF IInv, Accounts
  <2>2. Fresh'
    BY <1>6, Zenon DEF Fresh, UserScreens, Naming
  <2>3. Loaded'
    BY <1>1, <1>2, Zenon DEF Loaded
  <2>4. AccountKept'
    BY <1>1, <2>1, Zenon DEF AccountKept
  <2>. QED
    BY <2>2, <2>3, <2>4, Zenon
<1>9. LoginGoesOn'
  BY <1>1, <1>3, <1>5, Zenon DEF LoginGoesOn
<1>10. SessionIsEarned'
  <2>. SUFFICES ASSUME screen' = "shell"
                PROVE  \/ session' = "guest" /\ attempts' = MaxTries
                       \/ /\ session' = name
                          /\ Entry(name, read_input(keys)) \in Range(passwd')
    BY <1>4, Zenon DEF SessionIsEarned, Entry, read_input, Range
  <2>1. CASE hit
    <3>1. PICK i \in 1 .. 2 : Match(passwd[i], name, read_input(keys))
      BY <1>2, <2>1, Zenon
    <3>2. PICK n, p : passwd[i] = Entry(n, p)
      BY <1>2, Zenon
    <3>3. passwd[i] = [name |-> passwd[i].name, pass |-> passwd[i].pass]
      BY <3>2, EntryFields, Zenon
    <3>4. passwd[i] = Entry(name, read_input(keys))
      BY <3>1, <3>3, Zenon DEF Match, Entry
    <3>5. passwd[i] \in Range(passwd)
      BY <1>2, Zenon DEF Range
    <3>. QED
      BY <1>1, <2>1, <3>4, <3>5, Zenon
  <2>2. CASE ~hit
    BY <1>1, <1>5, <2>2, Zenon
  <2>. QED
    BY <2>1, <2>2
<1>11. InstalledAccountOpens'
  <2>. SUFFICES ASSUME Len(account.password) <= LoginMax, account # Nobody, entered' = account
                PROVE  session' = account.name
    BY <1>1, Zenon DEF InstalledAccountOpens, AccountOpens
  <2>1. account.name = name /\ account.password = keys
    BY <1>4, Zenon
  <2>2. passwd[2] = Entry(name, keys)
    BY <2>1, Zenon DEF IInv, Accounts, AccountKept
  <2>3. read_input(keys) = keys
    BY <2>1, ReadsWhole, Zenon
  <2>4. Match(passwd[2], name, read_input(keys))
    <3>1. passwd[2].name = name /\ passwd[2].pass = hash_pass(keys)
      BY <2>2, EntryFields, Zenon
    <3>. QED
      BY <2>3, <3>1, Zenon DEF Match
  <2>5. 2 \in 1 .. 2
    BY SMT
  <2>6. hit
    BY <1>2, <2>4, <2>5, Zenon
  <2>. QED
    BY <1>1, <2>1, <2>6, Zenon
<1>. QED
  BY <1>7, <1>8, <1>9, <1>10, <1>11, Zenon DEF IInv, Accounts

LEMMA RebootKeeps ==
  ASSUME IInv, Reboot
  PROVE  IInv'
<1>1. /\ screen # "boot" /\ screen' = "boot" /\ hostname' = "" /\ username' = ""
      /\ password' = Cleared /\ pass2' = Cleared /\ len' = 0 /\ attempts' = 0
      /\ session' = "none" /\ typed' = NothingTyped /\ entered' = Nobody
      /\ UNCHANGED <<installed, passwd, account>>
  BY Zenon DEF Reboot, Goto, disk
<1>2. Fields'
  BY <1>1, ZeroFits, Cleaned, OutsideFields, Zenon DEF IInv
<1>3. Loaded' /\ AccountKept'
  <2>1. Loaded /\ AccountKept
    BY Zenon DEF IInv, Accounts
  <2>2. Loaded'
    BY <1>1, <2>1, Zenon DEF Loaded
  <2>3. AccountKept'
    BY <1>1, <2>1, Zenon DEF AccountKept
  <2>. QED
    BY <2>2, <2>3
<1>4. Fresh' /\ LoginGoesOn' /\ InstalledAccountOpens' /\ SessionIsEarned'
  BY <1>1, Zenon DEF Fresh, LoginGoesOn, InstalledAccountOpens, AccountOpens, SessionIsEarned
<1>. QED
  BY <1>2, <1>3, <1>4, Zenon DEF IInv, Accounts

LEMMA InitInvariant == Init => IInv
<1>. SUFFICES ASSUME Init PROVE IInv
  OBVIOUS
<1>1. Fields
  <2>1. TypeOK
    BY ZeroFits, Cleaned, Zenon DEF Init, TypeOK, Screens
  <2>2. TypedFields
    <3>1. typed = NothingTyped
      BY Zenon DEF Init
    <3>. QED
      BY <3>1, NothingTypedFields, Zenon DEF TypedFields
  <2>3. FieldIsText /\ TypedIsText /\ NamesGiven /\ ConfirmedPassword
    BY Zenon DEF Init, FieldIsText, InField, TypedIsText, NamesGiven, UserScreens,
       ConfirmedPassword
  <2>. QED
    BY <2>1, <2>2, <2>3, Zenon DEF Fields
<1>2. Fresh /\ Loaded /\ AccountKept /\ LoginGoesOn
  BY Zenon DEF Init, Fresh, Loaded, AccountKept, LoginGoesOn
<1>3. InstalledAccountOpens /\ SessionIsEarned
  BY Zenon DEF Init, InstalledAccountOpens, AccountOpens, SessionIsEarned
<1>. QED
  BY <1>1, <1>2, <1>3, Zenon DEF IInv, Accounts

LEMMA StutterKeeps ==
  ASSUME IInv, UNCHANGED vars
  PROVE  IInv'
<1>1. UNCHANGED <<screen, hostname, username, password, pass2, len, installed, passwd, users,
                  attempts, session, typed, account, entered>>
  BY Zenon DEF vars, config, disk, login, history
<1>2. Field' = Field /\ (InField' <=> InField) /\ Text(password)' = Text(password)
  <2>1. Field' = Field
    BY <1>1, Zenon DEF Field
  <2>2. InField' <=> InField
    BY <1>1, Zenon DEF InField
  <2>3. password' = password
    BY <1>1, Zenon
  <2>4. Text(password)' = Text(password)
    <3>1. Text(password') = Text(password)
      BY <2>3, Zenon
    <3>2. Text(password)' = Text(password')
      BY Zenon DEF Text
    <3>. QED
      BY <3>1, <3>2, Zenon
  <2>. QED
    BY <2>1, <2>2, <2>4
<1>3. TypeOK' /\ TypedFields' /\ FieldIsText' /\ NamesGiven'
  BY <1>1, <1>2, Zenon DEF IInv, Fields, TypeOK, TypedFields, FieldIsText, NamesGiven
<1>4. TypedIsText' /\ ConfirmedPassword'
  BY <1>1, <1>2, Zenon DEF IInv, Fields, TypedIsText, ConfirmedPassword
<1>5. Fresh' /\ LoginGoesOn' /\ InstalledAccountOpens'
  BY <1>1, Zenon DEF IInv, Accounts, Fresh, LoginGoesOn, InstalledAccountOpens, AccountOpens
<1>6. Loaded'
  BY <1>1, Zenon DEF IInv, Accounts, Loaded
<1>7. AccountKept'
  BY <1>1, Zenon DEF IInv, Accounts, AccountKept
<1>8. SessionIsEarned'
  BY <1>1, Zenon DEF IInv, Accounts, SessionIsEarned, read_input, Range, Entry
<1>. QED
  BY <1>3, <1>4, <1>5, <1>6, <1>7, <1>8, Zenon DEF IInv, Fields, Accounts

LEMMA StepInvariant == IInv /\ [Next]_vars => IInv'
<1>. SUFFICES ASSUME IInv, [Next]_vars PROVE IInv'
  OBVIOUS
<1>1. ASSUME NEW c \in Chars, Type(c) PROVE IInv'
  BY <1>1, TypeKeeps
<1>2. ASSUME NEW name, NEW keys \in Texts, login_screen(name, keys) PROVE IInv'
  BY <1>2, LoginKeeps
<1>. QED
  BY <1>1, <1>2, BootKeeps, HostnameKeeps, UserNameKeeps, BackspaceKeeps, LeavePasswordKeeps,
     LeavePass2Keeps, ConfirmEscKeeps, InstallingKeeps, RebootKeeps, StutterKeeps, Zenon
     DEF Next

LEMMA Invariance == Spec => []IInv
BY InitInvariant, StepInvariant, PTL DEF Spec

----------------------------------------------------------------------------
(***************************************************************************)
(* read_field stays inside its buffers, and the rounds of login_screen     *)
(* inside the three tries.                                                 *)
(***************************************************************************)
THEOREM TypeCorrect == Spec => []TypeOK
<1>1. IInv => TypeOK
  BY DEF IInv, Fields
<1>. QED
  BY <1>1, Invariance, PTL

(***************************************************************************)
(* The password the user is asked to confirm was typed twice, for any      *)
(* sequence of keys, refusals and returns to an earlier screen in which    *)
(* ENTER left both fields.  Of a field left by ESC only this is said: the  *)
(* buffer is long enough.                                                  *)
(***************************************************************************)
THEOREM ConfirmsWhatWasTyped == Spec => []ConfirmedPassword
<1>1. IInv => ConfirmedPassword
  BY DEF IInv, Fields
<1>. QED
  BY <1>1, Invariance, PTL

(***************************************************************************)
(* The name and password given to the installer open a session on every    *)
(* later boot, if the password is of at most LoginMax characters and was   *)
(* typed without ESC: longer ones do not.                                  *)
(***************************************************************************)
THEOREM AccountAlwaysOpens == Spec => []InstalledAccountOpens
<1>1. IInv => InstalledAccountOpens
  BY DEF IInv, Accounts
<1>. QED
  BY <1>1, Invariance, PTL

(***************************************************************************)
(* No session is opened at the login screen without the password of an     *)
(* account, except as guest after the last try.                            *)
(***************************************************************************)
THEOREM SessionsAreEarned == Spec => []SessionIsEarned
<1>1. IInv => SessionIsEarned
  BY DEF IInv, Accounts
<1>. QED
  BY <1>1, Invariance, PTL
=============================================================================

------------------------------- MODULE Setup -------------------------------
(***************************************************************************)
(* The account a user makes on the screens of the installer                *)
(* (kernel/installer.c), the passwd file made of it, and the login screen  *)
(* that reads it on every later boot (kernel/login.c).                     *)
(*                                                                         *)
(* The two passwords are edited key by key in buffers of C characters:     *)
(* what lies behind the terminator matters, for ESC leaves read_field      *)
(* without writing one.  The two names are read as a whole.  The disk does *)
(* what it is told here; Boot has its sectors, errors and power failures.  *)
(***************************************************************************)
EXTENDS Integers, Sequences, SequencesExt

CONSTANTS
  Chars,     \* codes of the characters typed into passwords
  FieldMax,  \* read_field: characters a password field takes (the 61 of 62-1)
  LoginMax,  \* read_input: characters the login screen takes (the 29 of 30-1)
  PwMin,     \* the shortest password (the 4 of strlen < 4)
  HostNames, UserNames,  \* names the screens accept
  Word,      \* 2^32: the hash is a uint32_t
  MaxTries   \* the 3 of attempts >= 3

ASSUME SetupAssumption ==
  /\ Chars \subseteq Nat \ {0}
  /\ FieldMax \in Nat /\ LoginMax \in Nat \ {0} /\ PwMin \in Nat
  /\ PwMin <= FieldMax
  /\ Word \in Nat \ {0} /\ MaxTries \in Nat \ {0}
  /\ "" \notin HostNames \cup UserNames

VARIABLES
  screen,    \* the screen, and on it the field, that waits for a key
  hostname, username, password,  \* install_config_t, a local of kmain
  pass2,     \* the local of screen_user
  len,       \* the local of read_field
  installed, \* the flag file is on the disk
  passwd,    \* the passwd file: a sequence of accounts, or NoFile
  users,     \* users[] of login.c
  attempts,  \* the local of login_screen
  session,   \* who the shell runs as, or "none"
  typed,     \* history: what each password field showed when it was left,
             \*   and whether ESC left one of them
  account,   \* history: the name and password typed at the last installation,
             \*   or Nobody where ESC left one of the fields
  entered    \* history: the last name and password typed at the login

config  == <<hostname, username, password, pass2, len>>
disk    == <<installed, passwd>>
login   == <<users, attempts, session>>
history == <<typed, account, entered>>
vars    == <<screen, config, disk, login, history>>

----------------------------------------------------------------------------
(* The last cell is never written: read_field stops one before it. *)
Cells   == 1 .. FieldMax + 1
NUL     == 0
Buffers == [Cells -> Chars \cup {NUL}]
Cleared == [i \in Cells |-> NUL]

(* The C string in a buffer. *)
Text(b) == LET ends == {i \in Cells : b[i] = NUL}
           IN  IF ends = {} THEN b
               ELSE SubSeq(b, 1, (CHOOSE i \in ends : \A j \in ends : i <= j) - 1)

(* strcpy(b, ""): the rest of the buffer stays. *)
Emptied(b) == [b EXCEPT ![1] = NUL]

(* djb2, as both files compute it. *)
hash_pass(s) == FoldLeft(LAMBDA h, c : (h * 33 + c) % Word, 5381 % Word, s)

toor  == <<116, 111, 111, 114>>
p1234 == <<49, 50, 51, 52>>

Entry(name, pw) == [name |-> name, pass |-> hash_pass(pw)]

create_default_passwd == <<Entry("root", toor), Entry("stella", p1234)>>

(* A file that is there has accounts in it. *)
NoFile == <<>>

NothingTyped == [password |-> <<>>, pass2 |-> <<>>, esc |-> FALSE]
Nobody       == [name |-> "", password |-> <<>>]

Init ==
  /\ screen = "boot"
  /\ hostname = "" /\ username = ""
  /\ password = Cleared /\ pass2 = Cleared
  /\ len = 0
  /\ installed = FALSE /\ passwd = NoFile
  /\ users = <<>>
  /\ attempts = 0
  /\ session = "none"
  /\ typed = NothingTyped /\ account = Nobody /\ entered = Nobody

Goto(s) == screen' = s

----------------------------------------------------------------------------
(***************************************************************************)
(* login_init, then installer_run up to its first screen, or the login     *)
(* screen where the flag file exists.  kmain's install_config_t is on the  *)
(* stack: strcpy(cfg->password, "") leaves what was there.                 *)
(***************************************************************************)
Boot ==
  /\ screen = "boot"
  /\ passwd' = IF passwd = NoFile THEN create_default_passwd ELSE passwd
  /\ users' = passwd'
  /\ attempts' = 0 /\ session' = "none"
  /\ \/ /\ installed
        /\ Goto("login")
        /\ UNCHANGED <<hostname, username, password>>
     \/ /\ ~installed
        /\ hostname' = "stellares" /\ username' = ""
        /\ \E b \in Buffers : password' = Emptied(b)
        /\ Goto("hostname")
  /\ UNCHANGED <<pass2, len, installed, history>>

(* read_field on a name: any text, left by ENTER or by ESC. *)
screen_hostname ==
  /\ screen = "hostname"
  /\ \E v \in HostNames \cup {"", "invalid"} :
       /\ hostname' = IF v = "" THEN "stellares" ELSE v
       /\ Goto(IF v = "invalid" THEN "hostname" ELSE "username")
  /\ UNCHANGED <<username, password, pass2, len, disk, login, history>>

(* ESC, and an empty name, stand for `stella'; pass2 is not initialised. *)
screen_user_name ==
  /\ screen = "username"
  /\ \E v \in UserNames \cup {"", "invalid"} :
       /\ username' = IF v = "" THEN "stella" ELSE v
       /\ IF v = "invalid"
          THEN UNCHANGED <<screen, password, pass2, len, typed>>
          ELSE /\ Goto("password")
               /\ password' = Emptied(password)
               /\ \E b \in Buffers : pass2' = Emptied(b)
               /\ len' = 0
               /\ typed' = NothingTyped
  /\ UNCHANGED <<hostname, disk, login, account, entered>>

----------------------------------------------------------------------------
(* read_field, on the buffer of the field that has the cursor. *)
Field == IF screen = "password" THEN password ELSE pass2
Put(i, c) ==
  IF screen = "password"
  THEN password' = [password EXCEPT ![i] = c] /\ UNCHANGED pass2
  ELSE pass2' = [pass2 EXCEPT ![i] = c] /\ UNCHANGED password

InField == screen \in {"password", "pass2"}
KeepRest == UNCHANGED <<hostname, username, disk, login, account, entered>>

(* A bug to catch: the field takes one character more. *)
TypeOneMore(c) ==
  /\ InField /\ len <= FieldMax
  /\ Put(len + 1, c)
  /\ len' = len + 1
  /\ UNCHANGED <<screen, typed>> /\ KeepRest

Type(c) ==
  /\ InField /\ len < FieldMax
  /\ Put(len + 1, c)
  /\ len' = len + 1
  /\ UNCHANGED <<screen, typed>> /\ KeepRest

Backspace ==
  /\ InField /\ len > 0
  /\ Put(len, NUL)
  /\ len' = len - 1
  /\ UNCHANGED <<screen, typed>> /\ KeepRest

(* What is on the screen of the field that is left. *)
Leave(esc) ==
  typed' = [typed EXCEPT ![screen] = SubSeq(Field, 1, len), !.esc = @ \/ esc]

(* ENTER puts the terminator; ESC leaves the buffer as it is. *)
LeavePassword ==
  /\ screen = "password"
  /\ \/ Put(len + 1, NUL) /\ Leave(FALSE)
     \/ UNCHANGED <<password, pass2>> /\ Leave(TRUE)
  /\ Goto("pass2")
  /\ len' = 0
  /\ KeepRest

(* A bug to catch: only the length is checked. *)
RefusedShort(first, second) == Len(Text(first)) < PwMin

Refused(first, second) == Len(Text(first)) < PwMin \/ Text(first) # Text(second)

(* The second field, and then the checks: once more, or on to the confirmation. *)
LeavePass2 ==
  /\ screen = "pass2"
  /\ \E esc \in BOOLEAN :
       LET second == IF esc THEN pass2 ELSE [pass2 EXCEPT ![len + 1] = NUL]
       IN  IF Refused(password, second)
           THEN /\ Goto("password")
                /\ password' = Emptied(password) /\ pass2' = Emptied(second)
                /\ typed' = NothingTyped
           ELSE /\ Goto("confirm")
                /\ pass2' = Cleared \* the local of a call that is over
                /\ UNCHANGED password
                /\ Leave(esc)
  /\ len' = 0
  /\ KeepRest

----------------------------------------------------------------------------
(***************************************************************************)
(* ESC on the confirmation: from the hostname on again.  ENTER:            *)
(* screen_installing formats the disk and writes the accounts, kmain reads *)
(* them back and opens the shell as the new user.                          *)
(***************************************************************************)
ConfirmEsc ==
  /\ screen = "confirm"
  /\ Goto("hostname")
  /\ UNCHANGED <<config, disk, login, history>>

screen_installing ==
  /\ screen = "confirm"
  /\ installed' = TRUE
  /\ passwd' = <<Entry("root", toor), Entry(username, Text(password))>>
  /\ users' = passwd'
  /\ session' = username
  /\ account' = IF typed.esc THEN Nobody
                ELSE [name |-> username, password |-> typed.password]
  /\ Goto("shell")
  /\ UNCHANGED <<config, attempts, typed, entered>>

(* A bug to catch: one character less than the buffer allows. *)
read_input_short(keys) ==
  SubSeq(keys, 1, IF Len(keys) < LoginMax THEN Len(keys) ELSE LoginMax - 1)

(* Characters past the limit are not taken. *)
read_input(keys) == SubSeq(keys, 1, IF Len(keys) < LoginMax THEN Len(keys) ELSE LoginMax)

(* A bug to catch: the name alone. *)
MatchName(u, name, pw) == u.name = name

Match(u, name, pw) == u.name = name /\ u.pass = hash_pass(pw)

(* One round of login_screen: a session, another round, or guest. *)
login_screen(name, keys) ==
  /\ screen = "login"
  /\ entered' = [name |-> name, password |-> keys]
  /\ IF \E i \in DOMAIN users : Match(users[i], name, read_input(keys))
     THEN session' = name /\ Goto("shell") /\ UNCHANGED attempts
     ELSE /\ attempts' = attempts + 1
          /\ IF attempts' >= MaxTries
             THEN session' = "guest" /\ Goto("shell")
             ELSE UNCHANGED <<session, screen>>
  /\ UNCHANGED <<config, disk, users, typed, account>>

(* `reboot', or the power switch on any screen: the disk is what stays. *)
Reboot ==
  /\ screen # "boot"
  /\ Goto("boot")
  /\ hostname' = "" /\ username' = "" /\ password' = Cleared /\ pass2' = Cleared
  /\ len' = 0 /\ users' = <<>> /\ attempts' = 0 /\ session' = "none"
  /\ typed' = NothingTyped /\ entered' = Nobody
  /\ UNCHANGED <<disk, account>>

Texts == {toor} \cup UNION {[1 .. n -> Chars] : n \in 0 .. FieldMax}

Next ==
  \/ Boot
  \/ screen_hostname
  \/ screen_user_name
  \/ \E c \in Chars : Type(c)
  \/ Backspace
  \/ LeavePassword
  \/ LeavePass2
  \/ ConfirmEsc
  \/ screen_installing
  \/ \E name \in UserNames \cup {"root", "stella"}, keys \in Texts : login_screen(name, keys)
  \/ Reboot

Spec == Init /\ [][Next]_vars

----------------------------------------------------------------------------
Screens == {"boot", "hostname", "username", "password", "pass2", "confirm",
            "login", "shell"}

(* The buffers are written inside their bounds; read_field's len included. *)
TypeOK ==
  /\ screen \in Screens
  /\ hostname \in HostNames \cup {"", "stellares", "invalid"}
  /\ username \in UserNames \cup {"", "stella", "invalid"}
  /\ password \in Buffers /\ pass2 \in Buffers
  /\ len \in 0 .. FieldMax
  /\ attempts \in 0 .. MaxTries

(***************************************************************************)
(* What the user is asked to confirm is what the user typed, twice, unless *)
(* ESC left one of the fields: then what an earlier attempt, or nobody,    *)
(* left in the buffers may be behind it.                                   *)
(***************************************************************************)
ConfirmedPassword ==
  screen = "confirm" =>
    /\ hostname # "invalid" /\ username \notin {"", "invalid"}
    /\ Len(Text(password)) >= PwMin
    /\ ~typed.esc => /\ typed.password = typed.pass2
                     /\ typed.password = Text(password)

(***************************************************************************)
(* login.c:3 (`login com usuarios persistidos'): the name and password     *)
(* given to the installer open a session on every later boot.  In the code *)
(* that holds where the password fits what the login screen reads.         *)
(***************************************************************************)
AccountOpens == account # Nobody /\ entered = account => session = account.name

InstalledAccountOpens == Len(account.password) <= LoginMax => AccountOpens

(***************************************************************************)
(* A session opened at the login screen is of the account whose password   *)
(* was entered, as far as the hash tells; guest comes after three failures. *)
(***************************************************************************)
SessionIsEarned ==
  screen = "shell" /\ entered # Nobody =>
    \/ session = "guest" /\ attempts = MaxTries
    \/ /\ session = entered.name
       /\ Entry(session, read_input(entered.password)) \in Range(passwd)
=============================================================================

-------------------------------- MODULE Boot --------------------------------
(***************************************************************************)
(* How the machine boots: kmain (kernel/kernel.c) mounts the disk, loads   *)
(* the accounts (kernel/login.c), installs the system the first time       *)
(* (kernel/installer.c) and opens a session.  Every file goes through      *)
(* DiskFS, sector by sector, and the power may fail at any of them.        *)
(*                                                                         *)
(* While the machine is off, the host may run `make install-apps'.  The    *)
(* disk may report an error at any sector, too.                            *)
(***************************************************************************)
EXTENDS DiskFS, FiniteSets

CONSTANT Accounts \* the accounts a user may choose in the installer

ASSUME BootAssumption ==
  /\ {"passwd", "installed", "README", "homepath"} \subseteq Names \ Apps
  /\ LongNames = {}
  /\ {"default", "flag", "text", "elf"} \cup Accounts \subseteq Vals
  /\ Accounts \cap {"default", "flag", "text", "elf", "none"} = {}
  /\ MaxFiles >= 4 + Cardinality(Apps) \* there is room for every file

VARIABLES
  phase,     \* where kmain is; "off" without power
  users,     \* users[] of login.c: whose passwd file was parsed, or "none"
  cfg,       \* the account entered in the installer
  session,   \* who the shell runs as
  promised,  \* the account of the last `Instalacao concluida com sucesso!'
  sound      \* the disk has reported no error so far

kernel   == <<phase, users, cfg, session>>
history  == <<promised, sound>>
bootvars == <<vars, kernel, history>>

BootInit ==
  /\ Init
  /\ phase = "off"
  /\ users = "none"
  /\ cfg = "none"
  /\ session = "none"
  /\ promised = "none"
  /\ sound = TRUE

----------------------------------------------------------------------------
(* kmain goes on to phase p once the call under way has returned. *)
From(p) == Idle /\ phase = p
Goto(p) == phase' = p

(* The passwd file has something in it; what parse_passwd makes of it. *)
PasswdThere ==
  LET f == diskfs_read("passwd") IN f # Missing /\ f.size > 0

parse_passwd(content) == IF content \in Accounts \cup {"default"} THEN content ELSE "none"
Passwd == parse_passwd(diskfs_read("passwd").data[1])

(* The disk reports an error, or not. *)
Errs(error) == sound' = (sound /\ ~error)

(* Without a drive (`make run') kmain skips the file system and the accounts. *)
PowerOn ==
  /\ phase = "off"
  /\ \/ /\ (diskfs_init /\ Errs(FALSE)) \/ (InitError /\ Errs(TRUE))
        /\ Goto("login_init")
     \/ /\ powered' = TRUE
        /\ Goto("installer_run")
        /\ UNCHANGED <<disk, inodes, fs_ready, op, sound>>
  /\ UNCHANGED <<users, cfg, session, promised>>

(* A bug to catch: without accounts, none are made. *)
login_init_as_is(p, made, q) ==
  /\ From(p)
  /\ users' = IF fs_ready /\ PasswdThere THEN Passwd ELSE users
  /\ Goto(q)
  /\ UNCHANGED <<vars, cfg, session, history>>

(***************************************************************************)
(* login_init, called at p and left at q.  Where the passwd file is        *)
(* missing or empty, or reading it fails, the default accounts are written *)
(* over it and read back.                                                  *)
(***************************************************************************)
login_init(p, made, q) ==
  \/ /\ From(p)
     /\ ~fs_ready \/ PasswdThere
     /\ users' = IF fs_ready THEN Passwd ELSE users
     /\ Goto(q)
     /\ UNCHANGED <<vars, cfg, session, history>>
  \/ /\ From(p)
     /\ fs_ready
     /\ diskfs_write("passwd", "default", 1)
     /\ Errs(PasswdThere)
     /\ Goto(made)
     /\ UNCHANGED <<users, cfg, session, promised>>
  \/ /\ From(made)
     /\ \/ PasswdThere /\ users' = Passwd /\ UNCHANGED sound
        \/ Errs(PasswdThere) /\ UNCHANGED users
     /\ Goto(q)
     /\ UNCHANGED <<vars, cfg, session, promised>>

(* A bug to catch: the flag file is not looked for. *)
installer_run_always ==
  /\ From("installer_run")
  /\ \/ ~fs_ready /\ Goto("shell") /\ session' = "stella"
     \/ fs_ready /\ Goto("screens") /\ UNCHANGED session
  /\ UNCHANGED <<vars, users, cfg, history>>

(***************************************************************************)
(* installer_run: not on a machine without file system (kmain then opens   *)
(* the shell as stella), not where the flag file exists.                   *)
(***************************************************************************)
installer_run ==
  /\ From("installer_run")
  /\ \/ ~fs_ready /\ Goto("shell") /\ session' = "stella"
     \/ /\ fs_ready
        /\ Goto(IF diskfs_exists("installed") THEN "login" ELSE "screens")
        /\ UNCHANGED session
  /\ UNCHANGED <<vars, users, cfg, history>>

(***************************************************************************)
(* The screens, then screen_installing: format, and write the flag, the    *)
(* accounts, a README and the home path, whatever any of them returns.     *)
(***************************************************************************)
(* A bug to catch: an empty name gets through the screens. *)
ConfirmUnchecked(account) ==
  /\ From("screens")
  /\ cfg' = ""
  /\ diskfs_format
  /\ Goto("flag")
  /\ UNCHANGED <<users, session, history>>

Confirm(account) ==
  /\ From("screens")
  /\ cfg' = account
  /\ diskfs_format
  /\ Goto("flag")
  /\ UNCHANGED <<users, session, history>>

WriteFile(p, name, content, q) ==
  /\ From(p)
  /\ diskfs_write(name, content, 1)
  /\ Goto(q)
  /\ UNCHANGED <<users, cfg, session, history>>

(* Bugs to catch: no accounts are written; the loop of screens has no break. *)
InstallNoAccounts ==
  \/ WriteFile("flag", "installed", "flag", "readme")
  \/ WriteFile("readme", "README", "text", "home")
  \/ WriteFile("home", "homepath", "text", "installed")

InstallAgain ==
  \/ WriteFile("flag", "installed", "flag", "accounts")
  \/ WriteFile("accounts", "passwd", cfg, "readme")
  \/ WriteFile("readme", "README", "text", "home")
  \/ WriteFile("home", "homepath", "text", "screens")

screen_installing ==
  \/ WriteFile("flag", "installed", "flag", "accounts")
  \/ WriteFile("accounts", "passwd", cfg, "readme")
  \/ WriteFile("readme", "README", "text", "home")
  \/ WriteFile("home", "homepath", "text", "installed")

(* `Instalacao concluida com sucesso!': kmain takes the account entered. *)
Installed ==
  /\ From("installed")
  /\ promised' = cfg
  /\ session' = cfg
  /\ Goto("reload")
  /\ UNCHANGED <<vars, users, cfg, sound>>

(* login_screen: an account that was loaded, or guest after three failures. *)
login_screen ==
  /\ From("login")
  /\ session' \in {users, "guest"} \ {"none"}
  /\ Goto("shell")
  /\ UNCHANGED <<vars, users, cfg, history>>

PowerOff ==
  /\ Crash
  /\ phase' = "off"
  /\ users' = "none"
  /\ cfg' = "none"
  /\ session' = "none"
  /\ UNCHANGED history

(* `make install-apps' puts app n on the disk; on a blank one it does nothing. *)
InstallApps(n) ==
  /\ phase = "off"
  /\ install_app(n, "elf", 1)
  /\ UNCHANGED <<kernel, history>>

(* A sector, or an error, of the call under way. *)
DiskStep ==
  /\ \/ Sector /\ UNCHANGED sound
     \/ IOError /\ Errs(TRUE)
  /\ UNCHANGED <<kernel, promised>>

BootStep ==
  \/ DiskStep
  \/ login_init("login_init", "login_made", "installer_run")
  \/ installer_run
  \/ \E account \in Accounts : Confirm(account)
  \/ screen_installing
  \/ Installed
  \/ login_init("reload", "reload_made", "shell")
  \/ login_screen

BootNext == PowerOn \/ BootStep \/ PowerOff \/ \E n \in Apps : InstallApps(n)

BootSpec == BootInit /\ [][BootNext]_bootvars

(***************************************************************************)
(* The boot thread runs, the disk answers or reports an error (ata_wait_*  *)
(* count down), and the user ends the installer and login screens.  The    *)
(* power need not come back, and may fail for ever.                        *)
(***************************************************************************)
BootLiveSpec == BootSpec /\ WF_bootvars(BootStep)

----------------------------------------------------------------------------
Phases == {"off", "login_init", "login_made", "installer_run", "screens", "flag",
           "accounts", "readme", "home", "installed", "reload", "reload_made",
           "login", "shell"}

BootTypeOK ==
  /\ TypeOK
  /\ phase \in Phases
  /\ users \in Accounts \cup {"default", "none"}
  /\ cfg \in Accounts \cup {"none"}
  /\ session \in Accounts \cup {"default", "none", "guest", "stella"}
  /\ promised \in Accounts \cup {"none"}
  /\ sound \in BOOLEAN

(***************************************************************************)
(* Once the installer has said it is done, every later boot, after any     *)
(* number of power failures, asks for the account it was given, as long as *)
(* the disk reports no error; with one, login_init forgets the account.    *)
(***************************************************************************)
InstallationLasts ==
  sound /\ phase = "login" /\ promised # "none" => users = promised

(***************************************************************************)
(* An installation that is done is never formatted away: from then on the  *)
(* flag and the accounts are on the disk at every moment (login.c:3,       *)
(* `usuarios persistidos no disco'), as long as it reports no error.       *)
(***************************************************************************)
InstallationKept ==
  sound /\ promised # "none" =>
    /\ OnDisk("installed") # Missing
    /\ OnDisk("passwd") = [size |-> 1, data |-> Content(promised, 1)]

(* The login screen has accounts to choose from, on a disk without errors. *)
SomebodyCanLogIn == sound /\ phase = "login" => users # "none"

(***************************************************************************)
(* Every boot opens a session, unless the power fails first, whatever      *)
(* errors the disk reports on the way.                                     *)
(***************************************************************************)
BootCompletes == phase # "off" ~> phase \in {"shell", "off"}
=============================================================================

------------------------------ MODULE ShellRules ------------------------------
(***************************************************************************)
(* The rule tables of src/src/classify.mjs.  A rule names words in their   *)
(* order; words the properties cannot tell apart are one word, and a word  *)
(* with a gap of its own ("git config") is two that `near` numbers.  What  *)
(* may lie between two words is the rule's gap: no pipe, no end of the     *)
(* statement, neither, or anything; behind the words that `near` numbers   *)
(* there is white space alone.  `ends`: what must follow the last word, for *)
(* the words it names.  `gate`: a second look at the whole command.        *)
(***************************************************************************)
EXTENDS Naturals, Sequences

(* Where each operator's text may not go on.                               *)
Rule(stop, near, words) ==
  [stop |-> stop, near |-> near, words |-> words, ends |-> << >>, gate |-> "none"]
Pipe(near, words) == Rule({"|"}, near, words)
Stmt(near, words) == Rule({";", "nl"}, near, words)
Step(near, words) == Rule({"|", ";", "nl"}, near, words)
Span(near, words) == Rule({}, near, words)
One(words) == {Rule({}, {}, <<{w}>>) : w \in words}
Ending(ends, rule) == [rule EXCEPT !.ends = ends]
Gated(rule, gate) == [rule EXCEPT !.gate = gate]
(* Two lookaheads: both words, in either order.                            *)
Both(near, head, a, b, tail) ==
  {Pipe(near, head \o <<a, b>> \o tail), Pipe(near, head \o <<b, a>> \o tail)}
(* A pipe into an interpreter in command position, behind a wrapper or not. *)
Into(stop, from, to) ==
  {Rule(stop, {2}, <<from, {"|"}, to>>), Rule(stop, {2, 3}, <<from, {"|"}, {"sudo", "env"}, to>>)}

Shells  == {"sh", "bash"}
Interps == Shells \union {"zsh", "python", "node"}
Fetch   == {"curl", "wget"}
Writes  == {">", ">>", "tee", "cp"}
SysDirs == {"/", "/etc", "~"}
Creds   == {"id_rsa", "/etc/shadow", ".aws/credentials"}
Decoder == {"base64", "rev", "xxd", "tr"}
Drive   == {"C:\\", "C:\\Windows"}
(* Words that lose their separators with the backslashes before letters,   *)
(* and words without a letter or a slash a backslash could stand before.   *)
Separated == {"C:\\Windows", "C:\\dir", "HKLM\\SAM", "HKLM\\SYSTEM", "\\Startup\\",
              "CurrentVersion\\Run", "CurrentVersion\\RunOnce", "Winlogon\\Shell",
              "CurrentControlSet\\Services"}
NoLetters == {"0", "777", "-", "~", ">", ">>", "<<<", ":(){:|:&};:"}

(* What ends a target: behind things of `over`, the end of the command or  *)
(* a thing of `at`.  A root or home must be the last word of its clause,   *)
(* or of the whole command; a system tree and a drive need a space, a      *)
(* drive also a quote; C:\Windows ends wherever it stands.                 *)
Spaces == {"sp", "nl"}
SQ == "'"
DQ == "double"
EndOf(over, at) == [over |-> over, at |-> at]
Target(root) == [w \in SysDirs |-> IF w = "/etc" THEN EndOf({}, Spaces) ELSE root]
RmEnds     == Target(EndOf(Spaces \union {SQ, DQ}, {"|", ";", ")"}))
ChmodEnds  == Target(EndOf(Spaces, {}))
DriveEnds  == [w \in {"C:\\"} |-> EndOf({}, Spaces \union {SQ, DQ})]
WIN_ROOT   == [w \in {"C:\\"} |-> EndOf({}, Spaces \union {SQ, DQ, "|", ";"})]
-----------------------------------------------------------------------------
UnixBlack ==
  {Ending(RmEnds, Pipe({1}, <<{"rm"}, {"-rf"}, SysDirs>>)),
   Pipe({}, <<{"dd"}, {"of=/dev/sda"}>>),
   Ending(ChmodEnds, Pipe({1, 2}, <<{"chmod"}, {"-R"}, {"777"}, {"/", "/etc"}>>)),
   Pipe({1}, <<{"history"}, {"-c"}>>), Pipe({1}, <<{"unset"}, {"HISTFILE"}>>),
   Pipe({}, <<{"nc"}, {"-e"}>>),
   Pipe({2}, <<{"eval"}, {"$("}, Fetch>>),
   Pipe({1}, <<{"iptables"}, {"-F"}>>), Pipe({1}, <<{"setenforce"}, {"0"}>>),
   Pipe({}, <<{"Set-MpPreference"}, {"-DisableRealtimeMonitoring"}>>),
   Span({1}, <<{"|"}, {"crontab"}>>), Pipe({1}, <<{"crontab"}, {"job", "-"}>>),
   Stmt({}, <<Writes, {"authorized_keys", "/etc/cron.d", "/etc/sudoers",
                      ".config/systemd/user/u", ".bashrc"}>>)}
  \union {Gated(r, "runs remote code") : r \in Into({";", "nl"}, Fetch, Interps)}
  \union Into({"|", ";", "nl"}, Decoder, Shells)
  \union Both({}, <<{"dd"}>>, {"if=/dev/zero"}, {"of=/var/log/syslog"}, << >>)
  \union Both({}, <<{"python", "node"}>>, {"socket"}, {"connect"}, << >>)
  \union One({"mkfs", ":(){:|:&};:", "/dev/tcp/"})

ExfilBlack ==
  {Span({3}, <<{"tar", "cat", "base64"}, Creds, {"|"}, Fetch \union {"nc"}>>),
   Pipe({2}, <<{"scp", "rsync"}, Creds, {"user@host:"}>>),
   Pipe({}, <<{"curl"}, {"-F", "-d", "-T"}, Creds>>),
   Pipe({}, <<{"wget"}, {"--post-file="}, Creds>>),
   Pipe({1}, <<{"reg"}, {"add"}, {"CurrentVersion\\Run"}>>),
   Pipe({}, <<{"powershell"}, {"-enc"}, {"QUJDREVGR0hJSktM"}>>),
   Pipe({}, <<{"IEX", "iwr"}, {"DownloadString", "https:"}>>),
   Pipe({}, <<{"vssadmin"}, {"delete"}, {"shadows"}>>),
   Pipe({}, <<{"wbadmin"}, {"delete"}, {"catalog"}>>),
   Span({}, <<{"Win32_Shadowcopy"}, {".Delete("}>>),
   Pipe({}, <<{"fsutil"}, {"usn"}, {"deletejournal"}>>),
   Pipe({1, 2}, <<{"net"}, {"localgroup"}, {"administrators"}, {"/add"}>>),
   Pipe({1, 3}, <<{"docker"}, {"run"}, {"-v"}, {"/:/"}>>),
   Pipe({}, <<{"nsenter"}, {"-t1", "/proc/1/ns/"}>>),
   Span({1, 2}, <<{"env", "printenv"}, {"|"}, Fetch \union {"nc"}>>),
   Gated(Span({}, <<Creds>>), "encrypts"),
   Gated(Span({}, <<{"ssh"}>>), "archives a system tree"),
   Gated(Span({}, <<{"nslookup", "dig"}>>), "encodes in a loop"),
   Stmt({}, <<{"nslookup", "dig"}, {"$("}, {"cat", "whoami", "env"}>>)}

RemoteBlack ==
  {Pipe({}, <<{"certutil"}, {"-urlcache", "https:"}>>),
   Pipe({}, <<{"bitsadmin"}, {"/transfer"}>>),
   Pipe({}, <<{"mshta", "rundll32"}, {"javascript:"}>>),
   Pipe({}, <<{"regsvr32"}, {"scrobj.dll"}>>),
   Pipe({}, <<{"msiexec"}, {"/i"}, {"https:"}>>),
   Pipe({3}, <<{"wmic"}, {"process"}, {"call"}, {"create"}>>),
   Pipe({2}, <<Shells \union {"source"}, {"<("}, Fetch>>),
   Pipe({1, 3}, <<Shells, {"-c"}, {"$("}, Fetch>>),
   Step({3}, <<Shells, {"<<<", "-s"}, {"$("}, Fetch>>),
   Pipe({}, <<Fetch, {"-o"}, {";"}, Shells \union {"source"}>>),
   Pipe({}, <<Fetch, {";"}, {"chmod"}, {"+x"}>>),
   Pipe({}, <<{"git"}, {"-c"}, {"core.sshCommand=", "core.pager="}>>),
   Pipe({1}, <<{"git"}, {"config"}, {"core.sshCommand", "core.pager"}>>),
   Pipe({}, <<{"git"}, {"ext::", "--upload-pack="}>>),
   Pipe({}, <<{"tar"}, {"--checkpoint-action="}, {"exec"}>>),
   Pipe({}, <<{"socat"}, {"EXEC:"}>>),
   Span({2}, <<{"mkfifo"}, {"|"}, {"nc"}>>)}
  \union Both({1}, <<{"python"}, {"-c"}>>, {"urlopen"}, {"exec"}, << >>)

WindowsBlack ==
  {Pipe({1}, <<{"reg"}, {"save"}, {"HKLM\\SAM"}>>), Pipe({}, <<{"procdump"}, {"lsass"}>>),
   Pipe({}, <<{"New-ItemProperty"}, {"CurrentVersion\\Run", "Winlogon\\Shell",
                                    "CurrentVersion\\RunOnce"}>>),
   Stmt({}, <<{"Copy-Item", "copy", "cp", ">"}, {"\\Startup\\"}>>),
   Pipe({}, <<{"schtasks"}, {"/create"}>>), Pipe({1}, <<{"sc"}, {"create"}>>),
   Pipe({1}, <<{"reg"}, {"add"}, {"CurrentControlSet\\Services", "Winlogon\\Shell",
                               "CurrentVersion\\RunOnce"}>>),
   Pipe({}, <<{"Set-WmiInstance"}, {"__EventFilter"}>>),
   Pipe({1, 2}, <<{"sc"}, {"stop", "delete"}, {"WinDefend"}>>),
   Pipe({1}, <<{"wevtutil"}, {"cl"}>>), Pipe({1}, <<{"auditctl"}, {"-D"}>>),
   Pipe({1, 2}, <<{"systemctl"}, {"stop", "disable"}, {"auditd"}>>),
   Pipe({2}, <<{"bcdedit"}, {"recoveryenabled"}, {"no"}>>),
   Pipe({1, 3}, <<{"docker"}, {"run"}, {"-v"}, {"/var/run/docker.sock"}>>)}
  \union Both({}, <<{"powershell"}>>, {"hidden"}, {"bypass"}, << >>)
  \union Both({1}, <<{"docker"}, {"run"}>>, {"--pid=host"}, {"--privileged"}, << >>)
  \union One({"MiniDumpWriteDump", "Register-ScheduledTask", "Register-ScheduledJob",
              "New-Service", "Clear-EventLog"})

DiskBlack ==
  {Pipe({1}, <<{"find"}, {"/"}, {"-delete"}>>),
   Span({1}, <<{">"}, {"/dev/sda"}>>),
   Pipe({}, <<{"wipefs", "blkdiscard"}, {"/dev/sda"}>>),
   Pipe({1}, <<{"shred"}, {"/etc"}>>), Pipe({}, <<{"cipher"}, {"/w:"}>>),
   Pipe({1, 2}, <<{"format"}, {"C:"}, {"/q"}>>)}
  \union {Ending(RmEnds, r) : r \in
            Both({}, <<{"rm"}>>, {"--recursive"}, {"--force"}, <<SysDirs>>)}
  \union {Ending(DriveEnds, r) : r \in
            Both({}, <<{"Remove-Item"}>>, {"-Recurse"}, {"-Force"}, <<Drive>>)}
  \union One({"Format-Volume"})

(* The rules pushed later: cmd's own deletes, and the root of a drive      *)
(* enumerated into a delete.                                               *)
WindowsDeletes ==
  {Ending(WIN_ROOT, Step({}, <<{"rd", "del"}, {"/s"}, Drive>>)),
   Rule({"nl"}, {4}, <<{"dir", "Get-ChildItem"}, {"-Recurse"}, Drive, {"|"},
                       {"Remove-Item", "del"}, {"-Force"}>>),
   Pipe({1}, <<{"reg"}, {"delete"}, {"HKLM\\SYSTEM"}>>)}

BLACK_SHELL == UnixBlack \union ExfilBlack \union RemoteBlack \union WindowsBlack
               \union DiskBlack \union WindowsDeletes

Shutdowns == One({"Stop-Computer", "Restart-Computer"})
               \union {Pipe({}, <<{"shutdown"}, {"/s"}>>)}
RED_SHELL ==
  {Pipe({1}, <<{"rm"}, SysDirs \union {"-rf", "file"}>>),
   Stmt({}, <<{"Remove-Item"}, {"-Recurse"}, {"-Force"}, {"C:\\dir"}>>),
   Pipe({1}, <<{"git"}, {"push"}>>),
   Pipe({1}, <<{"npm", "pip"}, {"install"}>>),
   Pipe({1}, <<{"systemctl", "service"}, {"stop", "disable"}>>),
   Pipe({1}, <<{"kubectl"}, {"delete"}>>), Pipe({1}, <<{"terraform"}, {"apply", "destroy"}>>),
   Pipe({}, <<{"gcloud"}, {"buckets"}, {"delete"}>>),
   Pipe({}, <<{"kubectl"}, {"--privileged", "hostPID"}>>),
   Pipe({}, <<{"cmdkey"}, {"/list"}>>),
   Gated(Span({}, <<{"Get-Content"}>>), "posts"),
   Pipe({1}, <<{"git"}, {"clean"}, {"-f"}>>), Pipe({1}, <<{"DROP"}, {"TABLE"}>>),
   Pipe({}, <<{"scp", "rsync"}, {"user@host:"}>>),
   Gated(Span({}, <<{"ssh"}>>), "pipes an archive"),
   Pipe({1}, <<{"docker"}, {"run"}, {"--privileged", "--pid=host"}>>),
   Pipe({1}, <<{"mount"}, {"/dev/sda"}>>), Pipe({1}, <<{"net"}, {"user"}, {"/add"}>>),
   Pipe({}, <<{"chmod"}, {"u+s"}>>), Pipe({}, <<{"setcap"}, {"cap_setuid"}>>),
   Pipe({1}, <<{"insmod", "rmmod"}, {"module"}>>),
   Pipe({1}, <<{"rclone"}, {"copy"}, Creds>>),
   Pipe({}, <<{"vssadmin"}, {"create"}, {"shadows"}>>)}
  \union One({"sudo", "npx", "kill", "LD_PRELOAD=", "Invoke-WmiMethod"})
  \union Shutdowns

YELLOW_SHELL ==
  One({"mkdir", "touch", "mv", "cp"}) \union {Pipe({}, <<{"echo", "printf"}, {">", ">>"}>>)}
=============================================================================

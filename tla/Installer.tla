------------------------------ MODULE Installer ------------------------------
(* The installer of the desktop program (setup/src-tauri/src/main.rs) and the *)
(* PowerShell uninstaller it leaves behind, on one folder of one computer.    *)
(* A thread installs while the window stays open: closing it ends the process *)
(* wherever the thread is.  A write replaces a file by an empty one first.    *)
(* The folder is looked up once; the user does not run both at a time.        *)
EXTENDS Integers, SequencesExt

CONSTANTS
    Version,    \* installers the user may run
    Payload,    \* Payload[v]: the files of its archive, in order; a path is a sequence
    Exe,        \* the program among them
    Own,        \* a file the user may put into the folder
    None        \* no installer yet

VARIABLES
    screen,     \* the window of the installer
    version,    \* which installer it is
    pc,         \* the next step of the thread
    left,       \* entries of the archive still to extract
    dirs,       \* directories; the root is the empty path
    files,      \* content of the files under the root
    marker,     \* .neuralese-install-marker
    manifest,   \* .neuralese-install-manifest.json
    tools,      \* the uninstaller's scripts
    links,      \* shortcuts
    registered, \* the entry of the Windows Apps list
    un,         \* the next step of the uninstaller
    rest,       \* directories it has still to try
    running,    \* the program runs and holds its file
    cut         \* history: an uninstaller was cut off, or left files behind

folder == <<dirs, files, marker, manifest, tools, links, registered>>
vars == <<screen, version, pc, left, folder, un, rest, running, cut>>

Blank(is) == [is |-> is, files |-> {}, dirs |-> <<>>, links |-> {}]
Parents(p) == {SubSeq(p, 1, n) : n \in 0..Len(p) - 1}
Put(p, content) == [q \in DOMAIN files \cup {p} |-> IF q = p THEN content ELSE files[q]]
Entries == Range(Payload[version])
InUse(p) == running /\ p = Exe

Init ==
    /\ screen = "closed" /\ version = None /\ pc = "none" /\ left = <<>>
    /\ dirs = {} /\ files = <<>>
    /\ marker = "none" /\ manifest = Blank("none") /\ tools = {} /\ links = {} /\ registered = FALSE
    /\ un = "none" /\ rest = <<>> /\ running = FALSE /\ cut = FALSE

-----------------------------------------------------------------------------
(* validate_install_root *)

IsEmpty == /\ DOMAIN files = {} /\ dirs \subseteq {<<>>}
           /\ marker = "none" /\ manifest.is = "none" /\ tools = {}
(* Fault: any directory will do.                                              *)
AcceptsAny == TRUE
Accepts == marker = "valid" \/ IsEmpty

Goes(step) == pc' = step /\ UNCHANGED <<screen, version, un, rest, running, cut>>

Validate ==
    /\ pc = "validate" /\ Accepts /\ Goes("marker")
    /\ dirs' = dirs \cup {<<>>}
    /\ UNCHANGED <<left, files, marker, manifest, tools, links, registered>>

WriteMarker ==
    /\ pc \in {"marker", "marking"}
    /\ marker' = IF pc = "marker" THEN "torn" ELSE "valid"
    /\ IF pc = "marker" THEN Goes("marking") /\ left' = left
       ELSE Goes("extract") /\ left' = Payload[version]
    /\ UNCHANGED <<dirs, files, manifest, tools, links, registered>>

(* extract_payload: a file is created, then filled; one in use cannot be.     *)
Extract ==
    /\ pc = "extract" /\ left # <<>> /\ ~InUse(Head(left)) /\ Goes("fill")
    /\ dirs' = dirs \cup Parents(Head(left))
    /\ files' = Put(Head(left), "part")
    /\ UNCHANGED <<left, marker, manifest, tools, links, registered>>

Fill ==
    /\ pc = "fill" /\ Goes("extract")
    /\ left' = Tail(left)
    /\ files' = Put(Head(left), version)
    /\ UNCHANGED <<dirs, marker, manifest, tools, links, registered>>

(* The program is found, and a shortcut to it made on the menu and the desktop. *)
LinkProgram ==
    /\ pc = "extract" /\ left = <<>> /\ Exe \in DOMAIN files /\ Goes("tools")
    /\ links' = links \cup {"start", "desktop"}
    /\ UNCHANGED <<left, dirs, files, marker, manifest, tools, registered>>

WriteTools ==
    /\ pc = "tools" /\ Goes("link")
    /\ tools' = {"ps1", "vbs"}
    /\ UNCHANGED <<left, dirs, files, marker, manifest, links, registered>>

LinkUninstaller ==
    /\ pc = "link" /\ Goes("manifest")
    /\ links' = links \cup {"uninstall"}
    /\ UNCHANGED <<left, dirs, files, marker, manifest, tools, registered>>

(* Directories are listed by the length of their names, the longest first: each *)
(* before those it is in.                                                     *)
Listings(paths) ==
    {list \in [1..Cardinality(paths) -> paths] :
       /\ Range(list) = paths
       /\ \A i, j \in DOMAIN list : i < j => list[i] \notin Parents(list[j])}

Listed(list) == [is |-> "whole", files |-> Entries, dirs |-> list,
                 links |-> {"start", "desktop", "uninstall"}]

WriteManifest ==
    /\ pc \in {"manifest", "listing"}
    /\ IF pc = "manifest" THEN Goes("listing") /\ manifest' = Blank("torn")
       ELSE /\ Goes("register")
            /\ \E list \in Listings((UNION {Parents(p) : p \in Entries}) \ {<<>>}) :
                 manifest' = Listed(list)
    /\ UNCHANGED <<left, dirs, files, marker, tools, links, registered>>

Register ==
    /\ pc = "register"
    /\ registered' = TRUE
    /\ screen' = "done" /\ pc' = "none"
    /\ UNCHANGED <<version, left, dirs, files, marker, manifest, tools, links, un, rest, running,
                   cut>>

(* A folder that is refused, a file in use, and any step may fail; what the    *)
(* steps before it did stays.                                                 *)
Fails ==
    /\ pc # "none"
    /\ screen' = "error" /\ pc' = "none" /\ left' = <<>>
    /\ UNCHANGED <<version, folder, un, rest, running, cut>>

Install ==
    \/ Validate \/ WriteMarker \/ Extract \/ Fill \/ LinkProgram
    \/ WriteTools \/ LinkUninstaller \/ WriteManifest \/ Register
    \/ Fails

-----------------------------------------------------------------------------
(* The window *)

Open ==
    /\ screen = "closed" /\ un = "none"
    /\ screen' = "ready" /\ version' \in Version
    /\ UNCHANGED <<pc, left, folder, un, rest, running, cut>>

(* Another folder is chosen: an empty one, or one that holds some program.    *)
Browse ==
    /\ screen = "ready" /\ dirs = {}
    /\ \E held \in {{}, {Exe}} :
         /\ dirs' = {<<>>} \cup UNION {Parents(p) : p \in held}
         /\ files' = [p \in held |-> "user"]
    /\ UNCHANGED <<screen, version, pc, left, marker, manifest, tools, links, registered, un, rest,
                   running, cut>>

Click ==
    /\ screen = "ready" /\ un = "none"
    /\ screen' = "installing" /\ pc' = "validate"
    /\ UNCHANGED <<version, left, folder, un, rest, running, cut>>

Retry ==
    /\ screen = "error"
    /\ screen' = "ready"
    /\ UNCHANGED <<version, pc, left, folder, un, rest, running, cut>>

(* The process ends, the thread with it.                                      *)
Close ==
    /\ screen # "closed"
    /\ screen' = "closed" /\ pc' = "none" /\ left' = <<>>
    /\ UNCHANGED <<version, folder, un, rest, running, cut>>

LaunchGame ==
    /\ screen = "done"
    /\ screen' = "closed"
    /\ running' = (running \/ Exe \in DOMAIN files)
    /\ UNCHANGED <<version, pc, left, folder, un, rest, cut>>

Quit ==
    /\ running
    /\ running' = FALSE
    /\ UNCHANGED <<screen, version, pc, left, folder, un, rest, cut>>

(* The user keeps a file of her own in the folder.                            *)
AddOwn ==
    /\ Parents(Own) \subseteq dirs /\ Own \notin DOMAIN files
    /\ files' = Put(Own, "user")
    /\ UNCHANGED <<screen, version, pc, left, dirs, marker, manifest, tools, links, registered,
                   un, rest, running, cut>>

-----------------------------------------------------------------------------
(* uninstall.ps1 *)

Without(paths) == [p \in DOMAIN files \ paths |-> files[p]]
Below(d, paths) == {p \in paths : d # p /\ IsPrefix(d, p)}
(* Remove-Item leaves a directory that holds something.                       *)
Spared(d) == IF Below(d, dirs \cup DOMAIN files) = {} THEN dirs \ {d} ELSE dirs

(* It exits when the manifest or the marker is not what it should be.         *)
Uninstall ==
    /\ un = "none" /\ screen # "installing"
    /\ tools = {"ps1", "vbs"} /\ (registered \/ "uninstall" \in links)
    /\ marker = "valid" /\ manifest.is = "whole"
    /\ un' = "links"
    /\ UNCHANGED <<screen, version, pc, left, folder, rest, running, cut>>

Then(step) == un' = step /\ UNCHANGED <<screen, version, pc, left, running>>

UnLinks ==
    /\ un = "links" /\ Then("files")
    /\ links' = links \ manifest.links
    /\ UNCHANGED <<dirs, files, marker, manifest, tools, registered, rest, cut>>

UnFiles ==
    /\ un = "files" /\ Then("dirs")
    /\ files' = Without({p \in manifest.files : ~InUse(p)})
    /\ rest' = manifest.dirs
    /\ UNCHANGED <<dirs, marker, manifest, tools, links, registered, cut>>

(* One directory after the other.                                             *)
UnDirs ==
    /\ un = "dirs"
    /\ IF rest = <<>> THEN Then("tools") /\ UNCHANGED <<dirs, rest>>
       ELSE Then("dirs") /\ dirs' = Spared(Head(rest)) /\ rest' = Tail(rest)
    /\ UNCHANGED <<files, marker, manifest, tools, links, registered, cut>>

UnTools ==
    /\ un = "tools"
    /\ IF "vbs" \in tools THEN tools' = tools \ {"vbs"} /\ Then("tools")
                          ELSE tools' = {} /\ Then("marker")
    /\ UNCHANGED <<dirs, files, marker, manifest, links, registered, rest, cut>>

UnMarker ==
    /\ un = "marker" /\ Then("manifest")
    /\ marker' = "none"
    /\ cut' = (cut \/ \E p \in DOMAIN files : files[p] # "user")
    /\ UNCHANGED <<dirs, files, manifest, tools, links, registered, rest>>

UnManifest ==
    /\ un = "manifest" /\ Then("registry")
    /\ manifest' = Blank("none")
    /\ UNCHANGED <<dirs, files, marker, tools, links, registered, rest, cut>>

UnRegistry ==
    /\ un = "registry" /\ Then("root")
    /\ registered' = FALSE
    /\ UNCHANGED <<dirs, files, marker, manifest, tools, links, rest, cut>>

UnRoot ==
    /\ un = "root" /\ Then("none")
    /\ dirs' = Spared(<<>>)
    /\ UNCHANGED <<files, marker, manifest, tools, links, registered, rest, cut>>

(* The computer is shut down in the middle.                                   *)
UnCut ==
    /\ un # "none" /\ Then("none")
    /\ cut' = TRUE /\ rest' = <<>>
    /\ UNCHANGED folder

Next ==
    \/ Install
    \/ Open \/ Browse \/ Click \/ Retry \/ Close \/ LaunchGame \/ Quit \/ AddOwn
    \/ Uninstall \/ UnLinks \/ UnFiles \/ UnDirs \/ UnTools \/ UnMarker \/ UnManifest
    \/ UnRegistry \/ UnRoot \/ UnCut

Spec == Init /\ [][Next]_vars
-----------------------------------------------------------------------------
Held == Version \cup {"part", "user"}

\* The folder and the two programs have their types.
InstallerTypeOK ==
    /\ screen \in {"closed", "ready", "installing", "done", "error"}
    /\ (pc # "none") <=> (screen = "installing")
    /\ \A p \in DOMAIN files : files[p] \in Held /\ Parents(p) \subseteq dirs
    /\ marker \in {"none", "torn", "valid"} /\ tools \subseteq {"ps1", "vbs"}

\* Neither an installation, cut off or not, nor an uninstallation touches a file
\* that is not from a payload, wherever the user keeps it.
OwnFilesKept ==
    \A p \in DOMAIN files : files[p] = "user" => p \in DOMAIN files' /\ files'[p] = "user"

\* What Windows lists can be removed: the uninstaller is there with all it needs,
\* unless it was cut off itself or the window was closed within a write.
ListedIsRemovable ==
    registered /\ un = "none" /\ ~cut
    => tools = {"ps1", "vbs"} /\ marker # "none" /\ manifest.is # "none"

\* An installation that failed or was closed can be repeated in its folder, unless
\* the window was closed within the write of its marker or an uninstaller left files.
Repeatable ==
    screen # "installing" /\ un = "none" /\ ~cut /\ marker # "torn"
    /\ (\E p \in DOMAIN files : files[p] # "user") => Accepts

\* An uninstallation that ends leaves none of its directories behind empty.
NoEmptyLeft ==
    un = "root" /\ un' = "none" /\ ~cut' =>
        \A p \in {<<>>} \cup UNION {Parents(q) : q \in Entries} :
            p \in dirs' => Below(p, DOMAIN files' \cup dirs') # {}

\* What the installer keeps: the user's files, and a folder that can be installed
\* into and removed again.
InstallerHolds ==
    [][OwnFilesKept /\ ListedIsRemovable' /\ Repeatable' /\ NoEmptyLeft]_vars
=============================================================================

--------------------------- MODULE CartographerImage ---------------------------
(***************************************************************************)
(* Which image a Cartographer probe is given (cartographer.rs, and its part *)
(* of prebuilt.rs).  The manifest in the vendor's clone nominates images    *)
(* and each image's own dictionary decides.  The target is chosen when the  *)
(* probe is assessed; its image is read again after the user's approval.    *)
(* `aldis flash` takes any file.  Meanwhile the clone is pulled, which      *)
(* replaces one file after the other, and the plugin is updated.            *)
(***************************************************************************)
EXTENDS Integers, Sequences, FiniteSets

CONSTANTS
    Probes,         \* [chip, rate, lite, version, bus]: probes considered
    Clones,         \* states of the vendor's repository: [rows, images]
    Files,          \* images a user may name, beside those in the clone
    Top,            \* bound: versions of images and of the plugin
    Rates,          \* CAN bitrates
    MaxMoves,       \* bound: changes to the clone and the plugin
    None            \* a model value

VARIABLES
    probe,          \* the probe as it runs
    rows, images,   \* the clone: the manifest, and the image at each path
    plugin,         \* the installed plugin's version, None when not found
    pc, listed,     \* an update; the manifest it read
    target,         \* the image chosen: [path, version, reported, row]
    request,        \* the image handed to the flash
    automatic,      \* an update, and no file named by the user
    moves,
    \* Only for the properties:
    written,        \* the image the probe was last written with
    calm            \* nothing has moved since the manifest was read

clone == <<rows, images>>
vars == <<probe, clone, plugin, pc, listed, target, request, automatic, moves,
          written, calm>>

Chips == {"f042", "g431", "g474"}
Paths == UNION {DOMAIN c.images : c \in Clones}

\* Generation::from_mcu; another chip has none.
Generation(chip) == CASE chip = "f042" -> "v3" [] chip \in {"g431", "g474"} -> "v4"
                      [] OTHER -> None

\* What an image's dictionary names; app is whether it names itself
\* Cartographer, start whether it is linked to start after Katapult.  A torn
\* file has no dictionary.
Image == [app : BOOLEAN, chip : Chips \cup {"other"}, rate : Rates \cup {None},
          lite : BOOLEAN, version : 0..Top \cup {None}, start : BOOLEAN]
Torn == [app |-> FALSE, chip |-> None, rate |-> None, lite |-> FALSE,
         version |-> None, start |-> FALSE]

\* A row of the manifest, and what is chosen by it.
Row == [path : Paths, generation : {"v3", "v4"}, protocol : {"CAN", "USB"},
        rate : Rates \cup {None}, lite : BOOLEAN, version : 0..Top,
        plugin : 0..Top \cup {None}]
Target == [path : Paths, version : 0..Top, row : Row, held : BOOLEAN,
           reported : [version : 0..Top, lite : BOOLEAN]]

\* What an instance gives it.
Parameters ==
    /\ Probes \subseteq [chip : Chips \cup {"other"}, rate : Rates \cup {None},
                        lite : BOOLEAN, bus : {"can", "serial"}, version : 0..Top]
    /\ \A c \in Clones :
         c.rows \in Seq(Row) /\ c.images \in [DOMAIN c.images -> Image]
    /\ Files \subseteq Image /\ Top \in Nat /\ MaxMoves \in Nat
    /\ None \notin 0..Top /\ None \notin {"v3", "v4", "CAN", "USB"}
    /\ None \notin Image /\ None \notin Target

Reported(image) == [version |-> image.version, lite |-> image.lite]

TypeOK ==
    /\ probe.version \in 0..Top /\ probe.lite \in BOOLEAN
    /\ DOMAIN images = Paths
    /\ \A p \in Paths : images[p] \in Image \cup {Torn, None}
    /\ pc \in {"idle", "listed", "chosen", "approved", "ready", "flashed"}
    /\ (pc \in {"chosen", "approved"}) => (target # None)
    /\ (pc = "ready") <=> (request # None)
    /\ moves \in 0..MaxMoves

-----------------------------------------------------------------------------
(* check_image: an image against the probe. *)

\* Mutant: the link is left to the manifest.
SuitsAnyLink(image, running) ==
    /\ image # Torn /\ image.app
    /\ image.chip = running.chip
    /\ image.start

Suits(image, running) ==
    /\ image # Torn /\ image.app
    /\ image.chip = running.chip
    /\ image.rate = running.rate
    /\ image.start

-----------------------------------------------------------------------------
(* select_target. *)

\* The link the probe is configured on, and what it reports of it, agree.
Protocol ==
    CASE probe.bus = "can" /\ probe.rate # None -> "CAN"
      [] probe.bus = "serial" /\ probe.rate = None -> "USB"
      [] OTHER -> None

\* The manifest's rows for the probe whose image agrees.
Candidates(manifest) ==
    {i \in 1..Len(manifest) :
        LET row == manifest[i] IN
        /\ row.generation = Generation(probe.chip)
        /\ row.protocol = Protocol /\ row.rate = probe.rate
        /\ row.lite = probe.lite
        /\ images[row.path] # None /\ Suits(images[row.path], probe)
        /\ images[row.path].lite = probe.lite
        /\ images[row.path].version = row.version}

WorksWithPlugin(row) ==
    row.plugin = None \/ (plugin # None /\ plugin >= row.plugin)

\* The rows with the newest version that works with the plugin.
Best(manifest) ==
    LET work == {i \in Candidates(manifest) : WorksWithPlugin(manifest[i])}
    IN {i \in work : \A j \in work : manifest[j].version <= manifest[i].version}

\* Versions that only wait for a newer plugin.
HeldBack(manifest, best) ==
    {i \in Candidates(manifest) :
        ~WorksWithPlugin(manifest[i]) /\ manifest[i].version > manifest[best].version}

\* resolve_targets: the manifest is read, then the images it lists.
ReadManifest ==
    /\ pc = "idle" /\ pc' = "listed" /\ listed' = rows
    /\ automatic' = TRUE /\ calm' = TRUE
    /\ UNCHANGED <<probe, clone, plugin, target, request, moves, written>>

\* Exactly one row may match; otherwise the reason is reported.
Select ==
    /\ pc = "listed"
    /\ IF /\ Generation(probe.chip) # None /\ Protocol # None
          /\ Cardinality(Best(listed)) = 1
       THEN LET best == CHOOSE i \in Best(listed) : TRUE
                row == listed[best]
            IN /\ pc' = "chosen"
               /\ target' = [path |-> row.path, version |-> row.version,
                             reported |-> Reported(images[row.path]), row |-> row,
                             held |-> HeldBack(listed, best) # {}]
       ELSE pc' = "idle" /\ target' = None
    /\ listed' = None
    /\ UNCHANGED <<probe, clone, plugin, request, automatic, moves, written, calm>>

\* compare, is_selected: a probe newer than its image is left alone, and one
\* at its version is written only when the user asks for it.
Approve ==
    /\ pc = "chosen"
    /\ \/ /\ pc' = "approved" /\ UNCHANGED target
          /\ target.version >= probe.version
       \/ pc' = "idle" /\ target' = None
    /\ UNCHANGED <<probe, clone, plugin, listed, request, automatic, moves,
                   written, calm>>

-----------------------------------------------------------------------------
(* prebuilt.rs: the image that is flashed. *)

\* read_cartographer_image: checked again, and it must be the approved one.
Prepare ==
    /\ pc = "approved"
    /\ LET image == images[target.path] IN
       IF image # None /\ Suits(image, probe) /\ Reported(image) = target.reported
       THEN pc' = "ready" /\ request' = image /\ UNCHANGED target
       ELSE pc' = "idle" /\ request' = None /\ target' = None
    /\ UNCHANGED <<probe, clone, plugin, listed, automatic, moves, written, calm>>

\* prepare_explicit: the bytes of the named file, read once.
PrepareExplicit ==
    /\ pc = "idle" /\ automatic' = FALSE /\ calm' = TRUE
    /\ \E image \in Files \cup {images[p] : p \in Paths} :
        /\ image # None /\ Generation(probe.chip) # None
        /\ Suits(image, probe) /\ image.version # None
        /\ request' = image
    /\ pc' = "ready" /\ target' = None
    /\ UNCHANGED <<probe, clone, plugin, listed, moves, written>>

\* Katapult writes the request; the probe runs what it names, if it can.
Flash ==
    /\ pc = "ready" /\ pc' = "flashed"
    /\ written' = request /\ request' = None
    /\ probe' = [probe EXCEPT !.version = request.version, !.lite = request.lite]
    /\ UNCHANGED <<clone, plugin, listed, target, automatic, moves, calm>>

EndRun ==
    /\ pc = "flashed" /\ pc' = "idle" /\ target' = None
    /\ UNCHANGED <<probe, clone, plugin, listed, request, automatic, moves,
                   written, calm>>

-----------------------------------------------------------------------------
(* What changes meanwhile. *)

Moves ==
    /\ moves < MaxMoves /\ moves' = moves + 1 /\ calm' = FALSE
    /\ UNCHANGED <<probe, pc, listed, target, request, automatic, written>>

\* git pull: the manifest or an image becomes that of some state, or is caught
\* half written.
Pull ==
    /\ Moves /\ UNCHANGED plugin
    /\ \/ \E c \in Clones : rows' = c.rows /\ UNCHANGED images
       \/ \E p \in Paths, c \in Clones :
            /\ images' = [images EXCEPT ![p] = IF p \in DOMAIN c.images
                                               THEN c.images[p] ELSE None]
            /\ UNCHANGED rows
       \/ \E p \in Paths : images' = [images EXCEPT ![p] = Torn] /\ UNCHANGED rows

UpdatePlugin ==
    /\ Moves /\ UNCHANGED clone
    /\ plugin' \in (0..Top \cup {None}) \ {plugin}

Update == ReadManifest \/ Select \/ Approve \/ Prepare \/ PrepareExplicit \/ Flash \/ EndRun
Next == Update \/ Pull \/ UpdatePlugin

Init ==
    /\ probe \in Probes
    /\ \E c \in Clones :
        /\ rows = c.rows
        /\ images = [p \in Paths |-> IF p \in DOMAIN c.images THEN c.images[p] ELSE None]
    /\ plugin \in 0..Top \cup {None}
    /\ pc = "idle" /\ listed = None /\ target = None /\ request = None
    /\ automatic = TRUE /\ moves = 0 /\ written = None /\ calm = TRUE

Spec == Init /\ [][Next]_vars

-----------------------------------------------------------------------------
(* Properties. *)

\* A probe is never written with an image for another chip, another link or
\* bitrate, or another address, nor with half an image, which only its boot
\* pins could mend: not by an update whose clone is pulled meanwhile, and not
\* by a file the user names (check_image).
OnlySuitable ==
    written # None =>
        /\ written.app /\ written.start
        /\ written.chip = probe.chip /\ written.rate = probe.rate

\* An update leaves the version that was approved, never an older one than the
\* probe ran, though the clone may have moved to another by then
\* (read_cartographer_image).
ApprovedIsWritten ==
    automatic /\ pc = "ready" /\ pc' = "flashed" =>
        /\ probe'.version = target.version
        /\ probe'.version >= probe.version

\* An update never turns a lite probe into a full one, nor a full one into a
\* lite one: only a file the user names does.
UpdateKeepsBuild ==
    automatic /\ pc = "ready" /\ pc' = "flashed" => probe'.lite = probe.lite

\* Firmware that needs a newer plugin than is installed is not chosen, also
\* when no plugin is found.
PluginKeepsUp ==
    calm /\ automatic /\ pc = "flashed" /\ target.row.plugin # None =>
        plugin # None /\ plugin >= target.row.plugin

\* A probe that was updated from a clone that stays as it is needs no update:
\* its target is found again and is what it runs, or no image was the only one
\* in the first place.
UpdateSettles ==
    calm /\ automatic /\ pc = "flashed" =>
        /\ Reported([version |-> probe.version, lite |-> probe.lite]) = target.reported
        /\ Cardinality(Best(rows)) = 1
        /\ \A i \in Best(rows) : rows[i].version = probe.version
=============================================================================

------------------------------ MODULE Pictures ------------------------------
(***************************************************************************)
(* The pictures of one document: the collector of a build, which resolves  *)
(* the references of the narrow and then of the wide rendering while the   *)
(* owner goes on changing the inbox, the EPUB it packages, and the media   *)
(* files the web reader serves, which outlive the build.                   *)
(*                                                                         *)
(* A picture is named after its content.  Pixels and digest are two reads  *)
(* of the file; a media file is written in place, and not when it exists.  *)
(***************************************************************************)
EXTENDS Integers, Sequences, SequencesExt

CONSTANTS
    ImagePaths,    \* image files the document refers to
    Contents,      \* what an image file may hold
    Figures,       \* bodies of its figure fences
    References,    \* its references, in order: [path] or [figure]
    NoImage,
    MaxSaves, MaxBuilds, MaxDeaths   \* bounds of the exploration

ASSUME NoImageAssumption ==
    /\ NoImage \notin Contents \cup ImagePaths \cup Figures
    /\ NoImage \notin [of : ImagePaths \cup Figures, name : Contents \cup Figures,
                       pixels : Contents \cup Figures]
    /\ NoImage \notin [pixels : Contents \cup Figures, torn : BOOLEAN, by : Nat]
    /\ Contents \cap Figures = {}
ASSUME ReferencesAssumption ==
    References \in Seq([path : ImagePaths] \cup [figure : Figures])

VARIABLES
    inbox,       \* inbox[p]: the content of the image file, or NoImage
    saves, builds, deaths,
    doing,       \* "idle", "narrow", "wide", "media"
    next,        \* the reference the rendering is at
    loaded,      \* the pixels read for it before its digest, or NoImage
    processed,   \* processed[p]: [of, name, pixels], or NoImage
    figures,     \* the bodies rendered, each under the caption of its first fence
    narrow,      \* narrow[i]: the picture reference i became in the EPUB's text
    wide,        \* wide[i]: in the web page
    epub,        \* the last EPUB: [text, images, by: its build], or NoImage
    web,         \* the pictures of the published page, or NoImage
    media,       \* media[n]: [pixels, torn, by] of the file named n, or NoImage
    pending,     \* pictures this build has yet to write
    writing,     \* the picture whose media file is being written, or NoImage
    raced,       \* <<b, n>>: build b gave the name n to the pixels of another content
    cut          \* <<b, n>>: build b died while it wrote the media file n

picVars == <<inbox, saves, builds, deaths, doing, next, loaded, processed, figures,
             narrow, wide, epub, web, media, pending, writing, raced, cut>>
inboxVars == <<inbox, saves>>
buildVars == <<doing, next, loaded, processed, figures, narrow, wide, pending, writing>>

PictureNames == Contents \cup Figures
Pictures == [of : ImagePaths \cup Figures, name : PictureNames, pixels : PictureNames]
MediaFiles == [pixels : PictureNames, torn : BOOLEAN, by : Nat]
Shown == Seq(PictureNames \cup {NoImage})
IsFigure(i) == "figure" \in DOMAIN References[i]

PicturesTypeOK ==
    /\ inbox \in [ImagePaths -> Contents \cup {NoImage}]
    /\ saves \in Nat /\ builds \in Nat /\ deaths \in Nat
    /\ doing \in {"idle", "narrow", "wide", "media"}
    /\ next \in 1..(Len(References) + 1)
    /\ loaded \in Contents \cup {NoImage}
    /\ processed \in [ImagePaths -> Pictures \cup {NoImage}]
    /\ figures \in SUBSET Figures
    /\ narrow \in Shown /\ wide \in Shown /\ web \in Shown \cup {NoImage}
    /\ media \in [PictureNames -> MediaFiles \cup {NoImage}]
    /\ pending \in SUBSET Pictures /\ writing \in Pictures \cup {NoImage}
    /\ raced \in SUBSET (Nat \X PictureNames) /\ cut \in SUBSET (Nat \X PictureNames)

Unprocessed == [p \in ImagePaths |-> NoImage]

PicturesInit ==
    /\ inbox \in [ImagePaths -> Contents \cup {NoImage}]
    /\ saves = 0 /\ builds = 0 /\ deaths = 0
    /\ doing = "idle" /\ next = 1 /\ loaded = NoImage
    /\ processed = Unprocessed /\ figures = {}
    /\ narrow = <<>> /\ wide = <<>> /\ epub = NoImage /\ web = NoImage
    /\ media = [n \in PictureNames |-> NoImage]
    /\ pending = {} /\ writing = NoImage /\ raced = {} /\ cut = {}

\* The owner copies an image in, replaces it or takes it away.
SaveImage(p, c) ==
    /\ saves < MaxSaves /\ inbox[p] # c
    /\ inbox' = [inbox EXCEPT ![p] = c]
    /\ saves' = saves + 1
    /\ UNCHANGED <<builds, deaths, buildVars, epub, web, media, raced, cut>>

\* build, when the text of the document or the renderer has changed
StartBuild ==
    /\ doing = "idle" /\ builds < MaxBuilds
    /\ builds' = builds + 1
    /\ doing' = "narrow" /\ next' = 1 /\ loaded' = NoImage
    /\ processed' = Unprocessed /\ figures' = {}
    /\ narrow' = <<>> /\ wide' = <<>> /\ pending' = {} /\ writing' = NoImage
    /\ UNCHANGED <<inboxVars, deaths, epub, web, media, raced, cut>>

Rendering == doing \in {"narrow", "wide"} /\ next <= Len(References)

\* The reference becomes the picture n, or a placeholder: nothing is kept of
\* a failure, so the next rendering tries again.
Becomes(n) ==
    /\ IF doing = "narrow" THEN narrow' = Append(narrow, n) /\ UNCHANGED wide
                           ELSE wide' = Append(wide, n) /\ UNCHANGED narrow
    /\ next' = next + 1
    /\ loaded' = NoImage
    /\ UNCHANGED <<inboxVars, builds, deaths, doing, epub, web, media, pending, writing, cut>>

Path == References[next].path

Cached ==
    /\ Rendering /\ ~IsFigure(next) /\ loaded = NoImage
    /\ processed[Path] # NoImage
    /\ Becomes(processed[Path].name)
    /\ UNCHANGED <<processed, figures, raced>>

Missing ==
    /\ Rendering /\ ~IsFigure(next) /\ loaded = NoImage
    /\ processed[Path] = NoImage /\ inbox[Path] = NoImage
    /\ Becomes(NoImage)
    /\ UNCHANGED <<processed, figures, raced>>

LoadPixels ==
    /\ Rendering /\ ~IsFigure(next) /\ loaded = NoImage
    /\ processed[Path] = NoImage /\ inbox[Path] # NoImage
    /\ loaded' = inbox[Path]
    /\ UNCHANGED <<inboxVars, builds, deaths, doing, next, processed, figures, narrow,
                   wide, epub, web, media, pending, writing, raced, cut>>

\* The file is read again for its digest; if it is gone the image failed.
TakeDigest ==
    /\ Rendering /\ loaded # NoImage
    /\ LET c == inbox[Path]
       IN IF c = NoImage
          THEN Becomes(NoImage) /\ UNCHANGED <<processed, raced>>
          ELSE /\ processed' = [processed EXCEPT ![Path] = [of |-> Path, name |-> c, pixels |-> loaded]]
               /\ raced' = IF c = loaded THEN raced ELSE raced \cup {<<builds, c>>}
               /\ Becomes(c)
    /\ UNCHANGED figures

\* A figure is drawn once per body; drawing may fail, and its source is shown.
Figure(drawn) ==
    /\ Rendering /\ IsFigure(next)
    /\ LET b == References[next].figure
       IN IF b \notin figures /\ ~drawn
          THEN Becomes(NoImage) /\ UNCHANGED figures
          ELSE Becomes(b) /\ figures' = figures \cup {b}
    /\ UNCHANGED <<processed, raced>>

\* Mutant: each rendering has a collector of its own.
StartWideAfresh ==
    /\ doing = "narrow" /\ next > Len(References)
    /\ doing' = "wide" /\ next' = 1
    /\ processed' = Unprocessed /\ figures' = {}
    /\ UNCHANGED <<inboxVars, builds, deaths, loaded, narrow, wide, epub, web, media,
                   pending, writing, raced, cut>>

StartWide ==
    /\ doing = "narrow" /\ next > Len(References)
    /\ doing' = "wide" /\ next' = 1
    /\ UNCHANGED <<inboxVars, builds, deaths, loaded, processed, figures, narrow, wide,
                   epub, web, media, pending, writing, raced, cut>>

\* One for each image file, two of one name when two files are alike.
Collected ==
    {processed[p] : p \in {q \in ImagePaths : processed[q] # NoImage}}
    \cup {[of |-> b, name |-> b, pixels |-> b] : b \in figures}

\* write_epub replaces the file of the last build.
WritePackage ==
    /\ doing = "wide" /\ next > Len(References)
    /\ doing' = "media"
    /\ epub' = [text |-> narrow, images |-> Collected, by |-> builds]
    /\ pending' = Collected
    /\ UNCHANGED <<inboxVars, builds, deaths, next, loaded, processed, figures, narrow,
                   wide, web, media, writing, raced, cut>>

\* Mutant: a build that finds the first file there takes the rest for written.
KeepAllMedia(c) ==
    /\ doing = "media" /\ writing = NoImage /\ c \in pending
    /\ media[c.name] # NoImage
    /\ pending' = {}
    /\ UNCHANGED <<inboxVars, builds, deaths, doing, next, loaded, processed, figures,
                   narrow, wide, epub, web, media, writing, raced, cut>>

KeepMedia(c) ==
    /\ doing = "media" /\ writing = NoImage /\ c \in pending
    /\ media[c.name] # NoImage
    /\ pending' = pending \ {c}
    /\ UNCHANGED <<inboxVars, builds, deaths, doing, next, loaded, processed, figures,
                   narrow, wide, epub, web, media, writing, raced, cut>>

\* write_bytes: the file is there before it is whole.
OpenMedia(c) ==
    /\ doing = "media" /\ writing = NoImage /\ c \in pending
    /\ media[c.name] = NoImage
    /\ writing' = c
    /\ pending' = pending \ {c}
    /\ media' = [media EXCEPT ![c.name] = [pixels |-> c.pixels, torn |-> TRUE,
                                             by |-> builds]]
    /\ UNCHANGED <<inboxVars, builds, deaths, doing, next, loaded, processed, figures,
                   narrow, wide, epub, web, raced, cut>>

CloseMedia ==
    /\ writing # NoImage
    /\ media' = [media EXCEPT ![writing.name] = [@ EXCEPT !.torn = FALSE]]
    /\ writing' = NoImage
    /\ UNCHANGED <<inboxVars, builds, deaths, doing, next, loaded, processed, figures,
                   narrow, wide, epub, web, pending, raced, cut>>

\* The row is committed with the page of this build.
Publish ==
    /\ doing = "media" /\ pending = {} /\ writing = NoImage
    /\ doing' = "idle"
    /\ web' = wide
    /\ UNCHANGED <<inboxVars, builds, deaths, next, loaded, processed, figures, narrow,
                   wide, epub, media, pending, writing, raced, cut>>

Dies ==
    /\ doing # "idle" /\ deaths < MaxDeaths
    /\ deaths' = deaths + 1
    /\ cut' = IF writing = NoImage THEN cut ELSE cut \cup {<<builds, writing.name>>}
    /\ doing' = "idle" /\ writing' = NoImage /\ pending' = {} /\ loaded' = NoImage
    /\ UNCHANGED <<inboxVars, builds, next, processed, figures, narrow, wide, epub, web,
                   media, raced>>

PicturesNext ==
    \/ \E p \in ImagePaths, c \in Contents \cup {NoImage} : SaveImage(p, c)
    \/ StartBuild \/ Cached \/ Missing \/ LoadPixels \/ TakeDigest
    \/ \E drawn \in BOOLEAN : Figure(drawn)
    \/ StartWide \/ WritePackage
    \/ \E c \in pending : KeepMedia(c) \/ OpenMedia(c)
    \/ CloseMedia \/ Publish \/ Dies

PicturesSpec == PicturesInit /\ [][PicturesNext]_picVars

-----------------------------------------------------------------------------
(* Every picture the text of the EPUB shows is packaged with it, whatever  *)
(* happened to the image files between the two renderings, and is what its *)
(* name says unless the file was replaced between the two reads.           *)
PackageClosed ==
    epub # NoImage =>
        /\ \A i \in DOMAIN epub.text : epub.text[i] # NoImage =>
               \E e \in epub.images : e.name = epub.text[i]
        /\ \A e \in epub.images : e.pixels = e.name \/ <<epub.by, e.name>> \in raced

\* The media files the published page shows.
ShownMedia ==
    IF web = NoImage THEN {} ELSE {web[i] : i \in DOMAIN web} \ {NoImage}

(* Every picture the published page shows is served.  It has the pixels of *)
(* the content it is named after unless the file was replaced between the  *)
(* two reads of the very build that wrote it, and it is whole unless that  *)
(* build died in writing it: either is kept by every build after.          *)
PageShowsItsPictures ==
    \A n \in ShownMedia :
        /\ media[n] # NoImage
        /\ media[n].pixels = n \/ <<media[n].by, n>> \in raced
        /\ media[n].torn => <<media[n].by, n>> \in cut
=============================================================================

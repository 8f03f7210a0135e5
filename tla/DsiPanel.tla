------------------------------ MODULE DsiPanel ------------------------------
(***************************************************************************)
(* The MIPI DSI bus and display of the ESP32 (mod_mipidsi.c). What ESP-IDF *)
(* gave is mirrored in statics that outlive the heap, so that a failed     *)
(* constructor, a second one, deinit() and a soft reset all find it. Each  *)
(* handle is the number of the construction that made it, 0 for none.      *)
(***************************************************************************)
EXTENDS Integers, Sequences

CONSTANTS DpRow,      \* bytes of a row
          DpHeight,
          DpLine,     \* bytes of a cache line
          DpStale,    \* whether a program uses what it has replaced or ended
          DpMakes     \* bound: constructions

ASSUME DpAssumption == {DpRow, DpHeight, DpLine} \subseteq Nat \ {0}

VARIABLES
    dpIdf,      \* what ESP-IDF has: [ldo, bus, io, panel, buf]
    dpHost,     \* s_host
    dpBuses,    \* the Bus objects: [id, deinited]
    dpDisplays, \* the Display objects
    dpMade,     \* constructions
    dpDirty,    \* bytes of the frame buffer the display's DMA cannot see yet
    dpWrong     \* what has been asked of ESP-IDF that it cannot do

dpVars == <<dpIdf, dpHost, dpBuses, dpDisplays, dpMade, dpDirty, dpWrong>>

DpNothing == [ldo |-> 0, bus |-> 0, io |-> 0, panel |-> 0, buf |-> 0]

DpInit ==
    /\ dpIdf = DpNothing /\ dpHost = DpNothing /\ dpBuses = <<>> /\ dpDisplays = <<>>
    /\ dpMade = 0 /\ dpDirty = {} /\ dpWrong = {}

\* A state of the host: what ESP-IDF has, the mirror, and what went wrong.
DpNow == [idf |-> dpIdf, host |-> dpHost, wrong |-> dpWrong]

---------------------------------------------------------------------------
(* What ESP-IDF is asked for *)

\* A handle is given up: the bus not before what is on it.
DpDrop(s, what) ==
    LET busy == what = "bus" /\ s.host.bus # 0 /\ (s.idf.panel # 0 \/ s.idf.io # 0)
    IN IF s.host[what] = 0 THEN s
       ELSE [idf |-> [s.idf EXCEPT ![what] = 0], host |-> [s.host EXCEPT ![what] = 0],
             wrong |-> s.wrong \cup (IF busy THEN {"busy"} ELSE {})]

\* One is asked for, and mirrored at once: there is one of each.
DpAcquire(s, what, n) ==
    [idf |-> [s.idf EXCEPT ![what] = n], host |-> [s.host EXCEPT ![what] = n],
     wrong |-> s.wrong \cup (IF s.idf[what] # 0 THEN {"taken"} ELSE {})]

\* A handle that is used has to be there.
DpUse(wrong, what, id) == wrong \cup (IF dpIdf[what] # id THEN {"gone"} ELSE {})

\* mipidsi_display_deinit_internal, the host's part.
DpDisplayEnded(s) == DpDrop(DpDrop(DpDrop(s, "panel"), "io"), "buf")

DpTorn(s) == DpDrop(DpDrop(DpDisplayEnded(s), "bus"), "ldo")

DpBecomes(s) == dpIdf' = s.idf /\ dpHost' = s.host /\ dpWrong' = s.wrong

---------------------------------------------------------------------------
(* Construction *)

\* Bus(): the power, then the bus; either may fail.
DpMakeBus(fails) ==
    /\ dpMade < DpMakes
    /\ LET n == dpMade + 1
           power == IF fails = "ldo" THEN DpTorn(DpNow) ELSE DpAcquire(DpTorn(DpNow), "ldo", n)
       IN /\ DpBecomes(IF fails = "none" THEN DpAcquire(power, "bus", n) ELSE power)
          /\ dpBuses' = IF fails = "none" THEN Append(dpBuses, [id |-> n, deinited |-> FALSE])
                        ELSE dpBuses
          /\ dpMade' = n /\ dpDirty' = {}
    /\ UNCHANGED dpDisplays

\* The bus passes for usable: it was not deinited, and there is a bus.
DpBusOk(b) == ~dpBuses[b].deinited /\ dpHost.bus # 0 /\ (DpStale \/ b = Len(dpBuses))

\* Display(): the command channel; the sequence that sets the panel up, which
\* may be wrong, and whose pauses Ctrl-C ends; the panel; its start; the
\* buffer; its first showing. What had been made when a step fails stays in
\* the mirror, but without memory for the buffer the rest goes too.
DpSteps == {"io", "sequence", "panel", "start", "buf", "show"}

DpBuilt(s, fails, n) ==
    LET io == IF fails = "io" THEN s ELSE DpAcquire(s, "io", n)
        panel == IF fails \in {"io", "sequence", "panel"} THEN io ELSE DpAcquire(io, "panel", n)
    IN CASE fails = "buf" -> DpDisplayEnded(panel)
         [] fails \in {"show", "none"} -> DpAcquire(panel, "buf", n)
         [] OTHER -> panel

DpMakeDisplay(b, fails) ==
    /\ dpMade < DpMakes /\ DpBusOk(b)
    /\ LET n == dpMade + 1
           s == DpBuilt(DpDisplayEnded(DpNow), fails, n)
       IN /\ dpIdf' = s.idf /\ dpHost' = s.host
          /\ dpWrong' = DpUse(s.wrong, "bus", dpBuses[b].id)
          /\ dpDisplays' = IF fails = "none"
                           THEN Append(dpDisplays, [id |-> n, deinited |-> FALSE])
                           ELSE dpDisplays
          /\ dpMade' = n /\ dpDirty' = {}
    /\ UNCHANGED dpBuses

---------------------------------------------------------------------------
(* The end of an object, and of all *)

DpBusDeinit(b) ==
    /\ ~dpBuses[b].deinited /\ (DpStale \/ b = Len(dpBuses))
    /\ DpBecomes(DpTorn(DpNow))
    /\ dpBuses' = [dpBuses EXCEPT ![b].deinited = TRUE]
    /\ dpDirty' = {} /\ UNCHANGED <<dpDisplays, dpMade>>

\* A display's end leaves the bus; another display's goes with it.
DpDisplayDeinit(d) ==
    /\ ~dpDisplays[d].deinited /\ (DpStale \/ d = Len(dpDisplays))
    /\ DpBecomes(DpDisplayEnded(DpNow))
    /\ dpDisplays' = [dpDisplays EXCEPT ![d].deinited = TRUE]
    /\ dpDirty' = {} /\ UNCHANGED <<dpBuses, dpMade>>

DpSoftReset ==
    /\ DpBecomes(DpTorn(DpNow))
    /\ dpBuses' = <<>> /\ dpDisplays' = <<>> /\ dpDirty' = {}
    /\ UNCHANGED dpMade

---------------------------------------------------------------------------
(* Painting *)

DpLen == DpRow * DpHeight
DpUp(n) == ((n + DpLine - 1) \div DpLine) * DpLine
DpBytes(y, h) == y * DpRow .. (y + h) * DpRow - 1

\* mipidsi_msync_rows: whole cache lines, no further than the buffer's.
DpSynced(y, h) ==
    LET to == DpUp((y + h) * DpRow)
    IN ((y * DpRow) \div DpLine) * DpLine .. (IF to > DpLen THEN DpUp(DpLen) ELSE to) - 1

\* The calls of a display pass while it was not deinited. A program that ends
\* its bus, or makes another object, is done with it.
DpUsable(d) ==
    /\ ~dpDisplays[d].deinited
    /\ DpStale \/ (d = Len(dpDisplays) /\ dpHost.buf = dpDisplays[d].id)

\* A painter that writes the buffer it was handed.
DpWrite(d, y) ==
    /\ DpUsable(d) /\ dpWrong' = DpUse(dpWrong, "buf", dpDisplays[d].id)
    /\ dpDirty' = dpDirty \cup DpBytes(y, 1)
    /\ UNCHANGED <<dpIdf, dpHost, dpBuses, dpDisplays, dpMade>>

\* blit() and fill_rect() write rows and sync them; refresh_rect() only syncs,
\* and has the panel take them. What was to be synced is then seen, and no sync
\* is for more than the buffer's lines.
DpRows(d, y, h, panel) ==
    LET wrote == IF panel THEN dpDirty ELSE dpDirty \cup DpBytes(y, h)
        w == DpUse(dpWrong, "buf", dpDisplays[d].id)
    IN /\ DpUsable(d) /\ y + h <= DpHeight
       /\ dpDirty' = wrote \ DpSynced(y, h)
       /\ dpWrong' = (IF panel THEN DpUse(w, "panel", dpDisplays[d].id) ELSE w)
                     \cup (IF DpBytes(y, h) \cap dpDirty' # {} THEN {"unseen"} ELSE {})
                     \cup (IF DpSynced(y, h) \subseteq 0 .. DpUp(DpLen) - 1 THEN {} ELSE {"beyond"})
       /\ UNCHANGED <<dpIdf, dpHost, dpBuses, dpDisplays, dpMade>>

DpNext ==
    \/ \E f \in {"none", "ldo", "bus"} : DpMakeBus(f)
    \/ \E b \in DOMAIN dpBuses, f \in DpSteps \cup {"none"} : DpMakeDisplay(b, f)
    \/ \E b \in DOMAIN dpBuses : DpBusDeinit(b)
    \/ \E d \in DOMAIN dpDisplays : DpDisplayDeinit(d)
    \/ DpSoftReset
    \/ \E d \in DOMAIN dpDisplays, y \in 0 .. DpHeight - 1 : DpWrite(d, y)
    \/ \E d \in DOMAIN dpDisplays, y \in 0 .. DpHeight - 1, h \in 1 .. DpHeight, p \in BOOLEAN :
           DpRows(d, y, h, p)

DpSpec == DpInit /\ [][DpNext]_dpVars

---------------------------------------------------------------------------

\* Wherever a constructor failed, the mirror knows everything ESP-IDF gave.
DpMirrored == dpHost = dpIdf

\* No construction finds a handle taken, no bus goes before what is on it, rows
\* that were synced are seen whatever cache lines they share, and (DpStale =
\* FALSE) nothing is used that is gone.
DpNeverWrong == dpWrong = {}

\* All of these between any two calls. (docs/idempotent-lifecycle.md: "tear
\* down previous host resources then recreate"; mod_mipidsi.c:150-170)
DpSafe == DpMirrored /\ DpNeverWrong
=============================================================================

------------------------------- MODULE Panels -------------------------------
(***************************************************************************)
(* The displays whose hardware outlives the object that set it up, and the *)
(* buses to panels, together: each has its own module, state and steps.    *)
(***************************************************************************)
EXTENDS RgbPanel, DsiPanel, PicoDvi, RgbMatrix, PanelBuses

\* What a display's host keeps of hardware that outlives its object: handles
\* and buffers are neither lost, taken twice, nor read once freed, what is lit is
\* what was drawn, and what is on screen is not painted; and a panel on a bus is told
\* what the program said, in that order. (mod_dotclockframebuffer.c, mod_mipidsi.c,
\* picodvi_rp2350.c, mod_rgbmatrix.c, mod_spibus.c, each mod_i80bus.c, mod_qspibus.c)
PanelsSafe == RpSafe /\ DpSafe /\ PvSafe /\ RmSafe /\ PbSafe /\ QbSafe

\* How what is shown and said is coded: each pixel of a frame goes to one place of the
\* matrix's chain, a colour's planes add up to the colour, and a byte said bit by bit, or
\* with its D/C bit before it, is the byte that is taken. (core.c, mod_rgbmatrix.c,
\* mod_spibus.c, samd/mod_i80bus.c)
PanelsEncode == RmEveryPixel /\ RmTrueColor /\ PbCodes
=============================================================================

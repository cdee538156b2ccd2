------------------------- MODULE MarketHoursTracker -------------------------
(* src/fpga/rtl/state/market_hours_tracker.sv                              *)
EXTENDS Naturals

START_OF_MARKET_HOURS == 3

VARIABLE market_hours_active

vars == market_hours_active

Init == market_hours_active = FALSE

Clock(session_status_valid, session_state, full_reset_all) ==
  market_hours_active' =
    CASE full_reset_all       -> FALSE
      [] ~full_reset_all /\ session_status_valid -> session_state = START_OF_MARKET_HOURS
      [] OTHER                -> market_hours_active

Reset == market_hours_active' = FALSE

=============================================================================

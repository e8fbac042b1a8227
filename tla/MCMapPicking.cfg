SPECIFICATION PickSpec
CONSTANTS
  Things = {"tower", "nws_alert", "outage", "buoy", "iss", "dns", "airspace", "dark_vessel", "firms_hotspot", "ixp", "facility", "cable", "aircraft", "ship", "satellite", "cluster", "jamming", "hold", "gdelt", "clausal", "repeater", "js8", "satnogs", "country", "kiwi"}
  MaxClicks = 3
  MaxGone = 1
INVARIANTS
  PickedIsTruthful

  
CHECK_DEADLOCK FALSE

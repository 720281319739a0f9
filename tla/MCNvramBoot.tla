---------------------------- MODULE MCNvramBoot -----------------------------
(* What older firmwares leave: one group of names at a time, the others as  *)
(* this firmware has them.                                                  *)
EXTENDS NvramBoot

Base == [Factory EXCEPT !["wan_ttl_fix"] = 0]

MCFlashes ==
  {[Base EXCEPT !["front_leds"] = l, !["front_led_all"] = a, !["front_led_pwr"] = p] :
     l \in {Unset, Empty, 0, 1, 2, 3, 4}, a \in {Unset, 0, 1}, p \in {Unset, 0, 1}}
  \cup
  {[Base EXCEPT !["pppoe_dhcp_route"] = r, !["wan_pppoe_man"] = m,
                !["mr_ttl_fix"] = t, !["wan_ttl_fix"] = w] :
     r \in {Unset, Empty, 0, 2}, m \in {Unset, Empty, 1}, t \in {Unset, 0, 1},
     w \in {Unset, Empty, 1}}
  \cup
  {[Base EXCEPT !["sw_mode"] = s, !["wan_nat_x"] = n, !["rt_HT_BW"] = b, !["rt_ssid"] = i] :
     s \in {Unset, 0, 1, 3, 4}, n \in {Unset, 0, 1}, b \in {Unset, 0, 2},
     i \in {Unset, Empty, DefSsid, 2}}
  \cup
  {[Base EXCEPT !["restore_defaults"] = r, !["buildno"] = b, !["front_leds"] = l,
                !["sw_mode"] = s] :
     r \in {Unset, 0, 1}, b \in {Unset, 0}, l \in {Unset, 4}, s \in {Unset, 3}}

MCEdits == {"front_led_all"} \X {0, 1} \cup {"wan_pppoe_man"} \X {Empty, 0}
           \cup {"sw_mode"} \X {3, 4} \cup {"rt_ssid"} \X {1, 3}
=============================================================================

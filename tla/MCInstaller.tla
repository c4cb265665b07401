---------------------------- MODULE MCInstaller ----------------------------
(* install.sh and uninstall.sh on hosts that hold some of the resources    *)
(* vpn1 shares with other software.                                        *)
EXTENDS Installer, TLC

\* A file at a fixed path and a sing-box of another version, with either the
\* accounts or the firewall rules; or the vhost, /etc/vpn, a certificate and
\* the very sing-box that vpn1 pins.
MCHosts ==
  {[r \in Resource |->
      IF r \in {"units", "sing-box", shared} THEN "foreign" ELSE "none"] :
    shared \in {"accounts", "firewall"}}
  \cup
  {[r \in Resource |->
      CASE r \in {"nginx", "etc-vpn", "certificate"} -> "foreign"
        [] r = "sing-box" -> "pinned"
        [] OTHER -> "none"]}

\* Behaviours are not followed past the point where two runs work at once: the
\* properties except them.
MCApart == "overlap" \notin seen

\* Shells are interchangeable.
MCSymmetry == Permutations(Run)
=============================================================================

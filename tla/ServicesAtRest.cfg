SPECIFICATION Spec
CONSTANTS
  Service = {"ntpd", "squid", "openvpn", "wireguard", "suricata", "sshd", "rsyslogd", "aliases", "shaping", "accounting", "ipsec"}
  Alone <- OneAtATime
  Crashes = {"ntpd", "squid", "openvpn", "sshd", "rsyslogd"}
  MaxSaves = 2
  MaxLinks = 2
  MaxFaults = 1
  Torn = Torn
INVARIANTS
  TypeOK
  
  RedirectServed
  ConfWhole
CHECK_DEADLOCK FALSE

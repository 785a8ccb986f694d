------------------------------ MODULE MCScraper ------------------------------
(***************************************************************************)
(* Small instances of Scraper for TLC.                                     *)
(***************************************************************************)
EXTENDS Scraper

Api(group, kind, listable) == [group |-> group, kind |-> kind, listable |-> listable]
Obj(group, kind, namespace, name) ==
  [group |-> group, kind |-> kind, namespace |-> namespace, name |-> name]

MCApis == {Api("core", "Service", TRUE), Api("core", "ConfigMap", TRUE), Api("core", "Pod", TRUE),
           Api("core", "Binding", FALSE), Api("serving", "Service", TRUE)}

web == Obj("core", "Service", "shop", "web")
knative == Obj("serving", "Service", "shop", "web")
root == Obj("core", "ConfigMap", "shop", "kube-root-ca.crt")
noisy == Obj("core", "ConfigMap", "shop", "noisy")
dns == Obj("core", "ConfigMap", "kube-system", "dns")
pod == Obj("core", "Pod", "shop", "web")

MCObjects == {web, knative, root, noisy, dns, pod}
TwoObjects == {web, knative}
MCExisting == {"shop", "kube-system"}

Selection(include, exclude, all, default) ==
  [include |-> include, exclude |-> exclude, all |-> all, defaultExclude |-> default]

Everything == [namespaces |-> Selection({}, {}, TRUE, "unset"), excludeKinds |-> {}, excludeNames |-> {}]
WithSystem == [namespaces |-> Selection({}, {"shop"}, FALSE, "false"), excludeKinds |-> {},
               excludeNames |-> {}]
NoNoise == [namespaces |-> Selection({"shop", "kube-system"}, {"kube-system"}, FALSE, "true"),
            excludeKinds |-> {}, excludeNames |-> {<<"ConfigMap", "noisy">>}]
NoServices == [namespaces |-> Selection({"shop", "gone"}, {}, FALSE, "unset"), excludeKinds |-> {"Service"},
               excludeNames |-> {}]

MCConfigs == {Everything, WithSystem, NoNoise, NoServices}
OneConfig == {Everything}
=============================================================================
